----------------------------- MODULE IndexerProofs -----------------------------
(***************************************************************************)
(* Proofs about Indexer, for every chain, number of runs and faults, page, *)
(* batch and scan limit.                                                   *)
(***************************************************************************)
EXTENDS Indexer, TLAPS, FiniteSetTheorems, FunctionTheorems, SequenceTheorems,
        WellFoundedInduction

-----------------------------------------------------------------------------
(* The inductive invariant.  A run that lost the lock still writes, so what
   is known of a run may not depend on the lock: each run knows, from its own
   reads and writes, that everything up to its position is accounted for.     *)

PCs == {"idle", "read", "health", "begin", "clamp", "loop", "write", "missing", "end", "release"}
Writing == {"write", "missing"}
Scanning == {"loop"} \cup Writing
Working == {"clamp", "end"} \cup Scanning
Active == {"begin"} \cup Working

CPs == [last : Nat, defer : Nat]
Indices(c) == DOMAIN Stream[c]
RunStates ==
    [pc : PCs, ci : DOMAIN CONTRACTS, head : Nat, oldest : Nat, saved : [Contracts -> CPs],
     last : Nat, defer : Nat, from : Nat, to : Nat, cursor : Nat, held : SUBSET Nat,
     todo : Seq(Nat), left : Nat, zero : SUBSET Nat, reached : Nat,
     next : {"stop", "cursor", "window"}]

Types ==
    /\ head \in Nat /\ oldest \in Nat
    /\ lock \in [owner : Runs \cup {None, Ghost}, stale : BOOLEAN]
    /\ cp \in [Contracts -> CPs]
    /\ run \in [Runs -> RunStates]

\* Where a run is: inside its window, its window inside the ledgers it may scan.
Bounds(s) ==
    /\ s.pc \in {"read", "health"} => s.ci = 1
    /\ s.pc \in Active => /\ s.oldest <= s.head + 1
                          /\ s.ci # 1 => s.head <= s.saved[Identity].last
    /\ s.pc \in Working => s.last <= s.head /\ s.oldest <= s.last + 1
    /\ s.pc \in Scanning => /\ s.from <= s.last + 1
                            /\ s.to < s.from + SCAN_LIMIT
                            /\ s.to <= s.head /\ s.last <= s.to
    /\ s.pc \in Writing => /\ s.reached <= s.to
                           /\ s.next = "window" => s.reached = s.to
                           /\ s.next = "cursor" <=> s.cursor # 0

\* What a run keeps of the page and chunk it works on.
Buffers(s, c) ==
    /\ s.left <= Len(s.todo)
    /\ s.pc \notin {"write", "release"} => s.left = 0
    /\ s.pc \notin {"write", "missing", "release"} => s.todo = <<>>
    /\ s.pc \notin {"missing", "release"} /\ s.left = 0 => s.zero = {}
    /\ s.pc \in Scanning =>
          /\ \A k \in DOMAIN s.todo : s.todo[k] \in Indices(c)
          /\ s.cursor # 0 => s.cursor \in Indices(c) /\ s.from <= Stream[c][s.cursor].ledger
          /\ \A j \in s.held : j \in Indices(c) /\ j <= s.cursor /\ Stream[c][j].ledger <= s.to

\* The events that are accounted for.
Settled == {e \in EventIds : Accounted(e[1], e[2])}

Queued(s) == {s.todo[k] : k \in DOMAIN s.todo}

\* Every event up to a ledger is in A.
Passed(c, l, A) == \A i \in EventsOf(c, 0, l) : <<c, i>> \in A

\* What a run knows when the events of A are accounted for: what it saved and
\* what it passed is in A; the page it read is in A, in the queue or held back.
Covers(s, c, A) ==
    /\ s.pc \notin {"idle", "read", "release"} => \A d \in Contracts : Passed(d, s.saved[d].last, A)
    /\ s.pc \in Working => Passed(c, s.last, A)
    /\ s.pc \in Scanning =>
          \A j \in 1 .. s.cursor : <<c, j>> \in A \/ j \in Queued(s) \/ j \in s.held
    /\ s.pc \in Writing =>
          \A j \in EventsOf(c, 0, s.reached) : <<c, j>> \in A \/ j \in Queued(s)

RunInv(s, A) ==
    /\ s \in RunStates
    /\ Bounds(s)
    /\ Buffers(s, CONTRACTS[s.ci])
    /\ Covers(s, CONTRACTS[s.ci], A)

ScanInv ==
    /\ Types
    /\ \A r \in Runs : RunInv(run[r], Settled)
    /\ HolderSeesCheckpoints
    /\ DependentsBehindIdentity
    /\ NoSilentLoss

\* The creator of the row an event refers to.
ParentOf(c, i) == Creator(Parent(Stream[c][i]))

\* What a run knows of the parents of the events it is about to write: they are
\* in A or ahead in the queue.
Parents(s, c, A) ==
    s.pc \in Writing =>
       /\ \A k \in DOMAIN s.todo :
             Parent(Stream[c][s.todo[k]]) # None =>
                \/ ParentOf(c, s.todo[k]) \in A
                \/ \E m \in 1 .. k - 1 : ParentOf(c, s.todo[k]) = <<c, s.todo[m]>>
       /\ \A j \in s.zero :
             j \in Indices(c) /\ Stream[c][j].updates # None /\ ParentOf(c, j) \in A

\* A row exists once the event that creates it was written.
RowsFollow ==
    \A e \in EventIds : e \in applied /\ Stream[e[1]][e[2]].creates # None
                           => Stream[e[1]][e[2]].creates \in rows

ParentInv ==
    /\ \A r \in Runs : Parents(run[r], Here(r), Settled)
    /\ RowsFollow
    /\ GivenUpOnlyWithParent
-----------------------------------------------------------------------------
(* Streams, contracts and chain order *)

\* A stream is numbered from one and its ledgers never fall.
LEMMA StreamFacts ==
  ASSUME NEW c \in Contracts
  PROVE  /\ Len(Stream[c]) \in Nat /\ Indices(c) = 1 .. Len(Stream[c])
         /\ \A i \in Indices(c) : Stream[c][i].ledger \in Nat \ {0} /\ IsEvent(Stream[c][i])
         /\ \A i, j \in Indices(c) : i <= j => Stream[c][i].ledger <= Stream[c][j].ledger
<1>1. Stream[c] \in Seq({Stream[c][i] : i \in DOMAIN Stream[c]})
  BY IndexerAssumption
<1>2. Len(Stream[c]) \in Nat /\ Indices(c) = 1 .. Len(Stream[c])
  BY <1>1 DEF Indices
<1>3. \A i \in Indices(c) : IsEvent(Stream[c][i])
  BY IndexerAssumption DEF Indices
<1>4. \A i \in Indices(c) : Stream[c][i].ledger \in Nat \ {0}
  BY <1>3, IndexerAssumption DEF IsEvent
<1>5. \A i, j \in Indices(c) : i < j => Stream[c][i].ledger <= Stream[c][j].ledger
  BY IndexerAssumption DEF Indices
<1>6. ASSUME NEW i \in Indices(c), NEW j \in Indices(c), i <= j
      PROVE  Stream[c][i].ledger <= Stream[c][j].ledger
  <2>1. i \in Nat /\ j \in Nat /\ Stream[c][i].ledger \in Nat
    BY <1>2, <1>4
  <2>2. CASE i = j
    BY <2>1, <2>2
  <2>3. CASE i < j
    BY <2>3, <1>5
  <2> QED
    BY <1>6, <2>1, <2>2, <2>3
<1> QED
  BY <1>2, <1>3, <1>4, <1>6

\* Identity is the first contract, and no other position names it.
LEMMA ContractFacts ==
  /\ 1 \in DOMAIN CONTRACTS /\ Identity \in Contracts
  /\ Len(CONTRACTS) \in Nat /\ DOMAIN CONTRACTS = 1 .. Len(CONTRACTS)
  /\ \A i \in DOMAIN CONTRACTS :
        CONTRACTS[i] \in Contracts /\ (CONTRACTS[i] = Identity <=> i = 1)
<1>1. CONTRACTS \in Seq(Contracts) /\ Len(CONTRACTS) > 0
  BY IndexerAssumption
<1>2. Len(CONTRACTS) \in Nat /\ DOMAIN CONTRACTS = 1 .. Len(CONTRACTS) /\ 1 \in DOMAIN CONTRACTS
  BY <1>1
<1>3. \A i \in DOMAIN CONTRACTS : CONTRACTS[i] \in Contracts
  BY DEF Contracts
<1>4. \A i, j \in DOMAIN CONTRACTS : CONTRACTS[i] = CONTRACTS[j] => i = j
  BY IndexerAssumption
<1>5. \A i \in DOMAIN CONTRACTS : CONTRACTS[i] = Identity <=> i = 1
  BY <1>2, <1>4, Zenon DEF Identity
<1> QED
  BY <1>2, <1>3, <1>5 DEF Identity

\* Sets of indexes are finite, and counting those before an index is strictly
\* monotone.
LEMMA BeforeFacts ==
  ASSUME NEW ids \in SUBSET Nat, IsFiniteSet(ids)
  PROVE  /\ IsFiniteSet(ids) /\ Cardinality(ids) \in Nat
         /\ \A i \in ids : Before(ids, i) \in Nat /\ Before(ids, i) < Cardinality(ids)
         /\ \A i, j \in ids : i < j => Before(ids, i) < Before(ids, j)
<1>1. IsFiniteSet(ids) /\ Cardinality(ids) \in Nat
  BY FS_CardinalityType
<1> DEFINE B(i) == {j \in ids : j < i}
<1>2. ASSUME NEW i \in ids
      PROVE  /\ IsFiniteSet(B(i)) /\ Before(ids, i) = Cardinality(B(i))
             /\ Before(ids, i) \in Nat /\ Before(ids, i) < Cardinality(ids)
  <2>1. B(i) \in SUBSET ids /\ i \notin B(i)
    OBVIOUS
  <2>2. IsFiniteSet(B(i)) /\ Cardinality(B(i)) <= Cardinality(ids) /\ Cardinality(B(i)) \in Nat
    BY <1>1, <2>1, FS_Subset, FS_CardinalityType
  <2>3. Cardinality(B(i)) # Cardinality(ids)
    BY <1>1, <2>1, FS_Subset
  <2> QED
    BY <2>2, <2>3, <1>1 DEF Before
<1>3. ASSUME NEW i \in ids, NEW j \in ids, i < j
      PROVE  Before(ids, i) < Before(ids, j)
  <2>0. ids \subseteq Nat /\ i \in Nat /\ j \in Nat
    OBVIOUS
  <2>1. B(i) \in SUBSET B(j) /\ i \in B(j) /\ i \notin B(i)
    <3>1. ASSUME NEW k \in B(i) PROVE k \in B(j)
      BY <3>1, <2>0, <1>3
    <3>2. i \in B(j) /\ i \notin B(i)
      BY <2>0, <1>3
    <3>3. B(i) \subseteq B(j)
      BY <3>1
    <3> QED
      BY <3>2, <3>3
  <2>2. Cardinality(B(i)) <= Cardinality(B(j)) /\ Cardinality(B(i)) # Cardinality(B(j))
    BY <2>1, <1>2, FS_Subset
  <2> QED
    BY <2>2, <1>2
<1> QED
  BY <1>1, <1>2, <1>3

\* InOrder lists the indexes of a set: each one, behind those before it.
LEMMA InOrderFacts ==
  ASSUME NEW ids \in SUBSET Nat, IsFiniteSet(ids)
  PROVE  /\ InOrder(ids) \in Seq(ids) /\ Len(InOrder(ids)) = Cardinality(ids)
         /\ \A k \in 1 .. Cardinality(ids) : InOrder(ids)[k] \in ids
                                           /\ Before(ids, InOrder(ids)[k]) = k - 1
         /\ \A i \in ids : /\ Before(ids, i) + 1 \in 1 .. Cardinality(ids)
                          /\ InOrder(ids)[Before(ids, i) + 1] = i
<1> DEFINE m == Cardinality(ids)
           f == [i \in ids |-> Before(ids, i) + 1]
<1>1. IsFiniteSet(ids) /\ m \in Nat
  BY BeforeFacts
<1>2. \A i \in ids : Before(ids, i) \in Nat /\ Before(ids, i) < m
  BY BeforeFacts
<1>3. f \in [ids -> 1 .. m]
  BY <1>1, <1>2
<1>4. \A i, j \in ids : f[i] = f[j] => i = j
  <2> TAKE i \in ids, j \in ids
  <2>1. i < j => Before(ids, i) < Before(ids, j)
    BY BeforeFacts
  <2>2. j < i => Before(ids, j) < Before(ids, i)
    BY BeforeFacts
  <2>3. i \in Nat /\ j \in Nat
    OBVIOUS
  <2> QED
    BY <1>2, <2>1, <2>2, <2>3
<1>5. f \in Injection(ids, 1 .. m)
  BY <1>3, <1>4 DEF Injection, IsInjective
<1>6. IsFiniteSet(1 .. m) /\ Cardinality(1 .. m) = m
  BY <1>1, FS_Interval
<1>7. f \in Surjection(ids, 1 .. m)
  <2> HIDE DEF f, m
  <2> QED
    BY <1>5, <1>6, FS_Injection DEF m
<1>8. \A k \in 1 .. m : \E i \in ids : f[i] = k
  BY <1>7 DEF Surjection
<1>9. ASSUME NEW k \in 1 .. m
      PROVE  /\ InOrder(ids)[k] \in ids /\ Before(ids, InOrder(ids)[k]) = k - 1
  <2>1. \E i \in ids : Before(ids, i) = k - 1
    <3>1. PICK i \in ids : f[i] = k
      BY <1>8
    <3> QED
      BY <3>1, <1>2
  <2>2. InOrder(ids)[k] = CHOOSE i \in ids : Before(ids, i) = k - 1
    BY DEF InOrder
  <2> QED
    BY <2>1, <2>2
<1>10. DOMAIN InOrder(ids) = 1 .. m
  BY DEF InOrder
<1>11. InOrder(ids) \in [1 .. m -> ids]
  BY <1>9, <1>10 DEF InOrder
<1>12. InOrder(ids) \in Seq(ids) /\ Len(InOrder(ids)) = m
  <2> HIDE DEF m
  <2> QED
    BY <1>1, <1>11 DEF m
<1>13. ASSUME NEW i \in ids
       PROVE  Before(ids, i) + 1 \in 1 .. m /\ InOrder(ids)[Before(ids, i) + 1] = i
  <2>1. f[i] \in 1 .. m
    BY <1>3
  <2>2. InOrder(ids)[f[i]] \in ids /\ Before(ids, InOrder(ids)[f[i]]) = f[i] - 1
    BY <1>9, <2>1
  <2>3. f[InOrder(ids)[f[i]]] = f[i]
    BY <2>2, <1>2
  <2> QED
    BY <2>1, <2>2, <2>3, <1>4
<1> QED
  BY <1>9, <1>12, <1>13

\* A set of naturals that is bounded and not empty has a largest element.
LEMMA Largest ==
  ASSUME NEW n \in Nat, NEW ids \in SUBSET (0 .. n), ids # {}
  PROVE  \E i \in ids : \A j \in ids : j <= i
<1> DEFINE Gap == {m \in Nat : n - m \in ids}
<1>1. PICK i0 \in ids : TRUE
  OBVIOUS
<1>2. n - i0 \in Gap
  <2>1. n - (n - i0) = i0 /\ n - i0 \in Nat
    OBVIOUS
  <2> QED
    BY <2>1
<1>3. PICK m \in Gap : \A k \in Gap : ~(<<k, m>> \in OpToRel(<, Nat))
  <2>1. Gap # {} /\ Gap \subseteq Nat
    BY <1>2
  <2> HIDE DEF Gap
  <2> QED
    BY <2>1, NatLessThanWellFounded, WFMin
<1>4. ASSUME NEW j \in ids PROVE j <= n - m
  <2>1. n - j \in Nat /\ n - (n - j) = j
    OBVIOUS
  <2>2. n - j \in Gap
    BY <2>1
  <2>3. ~(n - j < m)
    BY <1>3, <2>1, <2>2 DEF OpToRel
  <2> QED
    BY <2>1, <2>3
<1> QED
  BY <1>4

\* parentsFirst lists each event of a set once it has listed the registrations
\* and, among the others, the earlier ones.
LEMMA ParentsFirstFacts ==
  ASSUME NEW c \in Contracts, NEW ids \in SUBSET Indices(c)
  PROVE  LET q == ParentsFirst(c, ids) IN
         /\ q \in Seq(ids)
         /\ \A i \in ids : \E k \in DOMAIN q : q[k] = i
         /\ \A k \in DOMAIN q : \A g \in ids :
               ~Stream[c][q[k]].registered /\ (Stream[c][g].registered \/ g < q[k])
                  => \E m \in 1 .. k - 1 : q[m] = g
<1> DEFINE a == {i \in ids : Stream[c][i].registered}
           b == {i \in ids : ~Stream[c][i].registered}
           x == InOrder(a)
           y == InOrder(b)
<1>1. a \in SUBSET Nat /\ IsFiniteSet(a) /\ b \in SUBSET Nat /\ IsFiniteSet(b)
  <2>1. a \in SUBSET Indices(c) /\ b \in SUBSET Indices(c)
    OBVIOUS
  <2>2. IsFiniteSet(Indices(c)) /\ Indices(c) \subseteq Nat
    <3>1. Len(Stream[c]) \in Nat /\ Indices(c) = 1 .. Len(Stream[c])
      BY StreamFacts
    <3> QED
      BY <3>1, FS_Interval
  <2>3. IsFiniteSet(a) /\ IsFiniteSet(b)
    <3> HIDE DEF a, b
    <3> QED
      BY <2>1, <2>2, FS_Subset
  <2> QED
    BY <2>1, <2>2, <2>3
<1>2. /\ x \in Seq(a) /\ \A k \in 1 .. Len(x) : x[k] \in a
      /\ \A i \in a : \E k \in 1 .. Len(x) : x[k] = i
  <2> HIDE DEF a
  <2> QED
    BY <1>1, InOrderFacts
<1>3. /\ y \in Seq(b) /\ \A k \in 1 .. Len(y) : y[k] \in b /\ Before(b, y[k]) = k - 1
      /\ \A i \in b : /\ Before(b, i) + 1 \in 1 .. Len(y)
                        /\ y[Before(b, i) + 1] = i
  <2> HIDE DEF b
  <2> QED
    BY <1>1, InOrderFacts
<1>4. \A i, j \in b : Before(b, i) \in Nat /\ (i < j => Before(b, i) < Before(b, j))
  <2> HIDE DEF b
  <2> QED
    BY <1>1, BeforeFacts
<1>5. ParentsFirst(c, ids) = x \o y
  BY DEF ParentsFirst
<1>6. x \in Seq(ids) /\ y \in Seq(ids)
  BY <1>2, <1>3
<1>7. Len(x) \in Nat /\ Len(y) \in Nat
  BY <1>6
<1> DEFINE q == x \o y
<1>8. /\ q \in Seq(ids) /\ DOMAIN q = 1 .. Len(x) + Len(y)
      /\ \A k \in 1 .. Len(x) : q[k] = x[k]
      /\ \A k \in 1 .. Len(y) : Len(x) + k \in DOMAIN q /\ q[Len(x) + k] = y[k]
      /\ \A k \in DOMAIN q : k <= Len(x) \/ (k - Len(x) \in 1 .. Len(y) /\ q[k] = y[k - Len(x)])
  <2> HIDE DEF x, y
  <2> QED
    BY <1>6, <1>7
<1> HIDE DEF x, y
<1>9. ASSUME NEW i \in ids PROVE \E k \in DOMAIN q : q[k] = i
  <2>1. CASE i \in a
    <3>1. PICK k \in 1 .. Len(x) : x[k] = i
      BY <2>1, <1>2
    <3> HIDE DEF q
    <3> QED
      BY <3>1, <1>7, <1>8
  <2>2. CASE i \in b
    <3>1. PICK k \in 1 .. Len(y) : y[k] = i
      BY <2>2, <1>3
    <3> HIDE DEF q
    <3> QED
      BY <3>1, <1>7, <1>8
  <2> QED
    BY <2>1, <2>2
<1>10. ASSUME NEW k \in DOMAIN q, NEW g \in ids, ~Stream[c][q[k]].registered,
              Stream[c][g].registered \/ g < q[k]
       PROVE  \E m \in 1 .. k - 1 : q[m] = g
  <2> HIDE DEF q
  <2>1. k > Len(x)
    <3>1. SUFFICES ASSUME k <= Len(x) PROVE FALSE
      BY <1>7, <1>8
    <3>2. k \in 1 .. Len(x)
      BY <3>1, <1>7, <1>8
    <3>3. q[k] = x[k]
      BY <3>2, <1>8
    <3>4. q[k] \in a
      BY <3>2, <3>3, <1>2
    <3> QED
      BY <3>4, <1>10
  <2>2. k - Len(x) \in 1 .. Len(y) /\ q[k] = y[k - Len(x)] /\ k \in Nat
    BY <2>1, <1>7, <1>8
  <2>3. CASE g \in a
    <3>1. PICK m \in 1 .. Len(x) : x[m] = g
      BY <2>3, <1>2
    <3>2. m \in 1 .. k - 1 /\ q[m] = g
      BY <3>1, <2>1, <2>2, <1>7, <1>8
    <3> QED
      BY <3>2
  <2>4. CASE g \notin a
    <3>1. g \in b /\ g < q[k] /\ q[k] \in b
      BY <2>4, <2>2, <1>10, <1>3
    <3>2. Before(b, g) < Before(b, q[k]) /\ Before(b, q[k]) = k - Len(x) - 1
      BY <3>1, <1>4, <1>3, <2>2
    <3> DEFINE m == Before(b, g) + 1
    <3>3. m \in 1 .. Len(y) /\ y[m] = g
      BY <3>1, <1>3
    <3>4. m < k - Len(x)
      <4>1. Before(b, g) \in Int
        BY <1>4, <3>1
      <4> QED
        BY <4>1, <3>2, <2>2, <1>7
    <3> HIDE DEF m
    <3>5. Len(x) + m \in 1 .. k - 1 /\ q[Len(x) + m] = g
      BY <3>3, <3>4, <2>2, <1>7, <1>8
    <3> QED
      BY <3>5
  <2> QED
    BY <2>3, <2>4
<1> HIDE DEF q
<1>11. ParentsFirst(c, ids) = q
  BY <1>5 DEF q
<1>12. q \in Seq(ids)
  BY <1>8
<1>13. \A k \in DOMAIN q : \A g \in ids :
          ~Stream[c][q[k]].registered /\ (Stream[c][g].registered \/ g < q[k])
             => \E m \in 1 .. k - 1 : q[m] = g
  BY <1>10
<1>14. /\ q \in Seq(ids)
       /\ \A i \in ids : \E k \in DOMAIN q : q[k] = i
       /\ \A k \in DOMAIN q : \A g \in ids :
             ~Stream[c][q[k]].registered /\ (Stream[c][g].registered \/ g < q[k])
                => \E m \in 1 .. k - 1 : q[m] = g
  BY <1>9, <1>12, <1>13
<1> QED
  BY <1>11, <1>14

\* The limits are positive, the bounds natural numbers.
LEMMA ConstantFacts ==
  /\ PAGE_LIMIT \in Nat \ {0} /\ BATCH_LIMIT \in Nat \ {0} /\ SCAN_LIMIT \in Nat \ {0}
  /\ MaxHead \in Nat /\ None \notin Runs /\ Ghost \notin Runs /\ Ghost # None
BY IndexerAssumption

FirstOf(found, limit) == {i \in found : Before(found, i) < limit}

\* The first indexes of a set: a page holds every index before one it holds,
\* and all of them unless it is full.
LEMMA FirstFacts ==
  ASSUME NEW found \in SUBSET Nat, IsFiniteSet(found), NEW limit \in Nat \ {0}
  PROVE  LET page == FirstOf(found, limit) IN
         /\ page \subseteq found
         /\ \A i \in page, j \in found : j < i => j \in page
         /\ Cardinality(page) < limit => page = found
         /\ ~(Cardinality(page) < limit) => page # {}
<1> DEFINE page == FirstOf(found, limit)
<1>1. \A i \in found : Before(found, i) \in Nat
  BY BeforeFacts
<1>2. \A i, j \in found : j < i => Before(found, j) < Before(found, i)
  BY BeforeFacts
<1>0. page = {i \in found : Before(found, i) < limit}
  BY DEF FirstOf
<1>3. page \subseteq found
  BY <1>0
<1>4. IsFiniteSet(found) /\ IsFiniteSet(page) /\ Cardinality(page) \in Nat
  <2>1. page \in SUBSET found
    BY <1>3
  <2> HIDE DEF page
  <2>2. IsFiniteSet(page)
    BY <2>1, FS_Subset
  <2> QED
    BY <2>2, FS_CardinalityType
<1>5. ASSUME NEW i \in page, NEW j \in found, j < i PROVE j \in page
  <2>1. i \in found /\ Before(found, i) < limit
    BY <1>0
  <2>2. Before(found, j) < Before(found, i)
    BY <2>1, <1>2, <1>5
  <2>3. Before(found, j) < limit
    BY <2>1, <2>2, <1>1
  <2> HIDE DEF page
  <2> QED
    BY <2>3, <1>0
<1>6. ASSUME Cardinality(page) < limit PROVE page = found
  <2>1. SUFFICES ASSUME found \ page # {} PROVE FALSE
    BY <1>3
  <2>2. found \subseteq Nat
    OBVIOUS
  <2>3. PICK i \in found \ page : \A j \in found \ page : ~(<<j, i>> \in OpToRel(<, Nat))
    BY <2>1, <2>2, NatLessThanWellFounded, WFMin
  <2>4. \A j \in found \ page : ~(j < i)
    BY <2>2, <2>3 DEF OpToRel
  <2> DEFINE B == {j \in found : j < i}
  <2>5. B \in SUBSET page
    BY <2>4
  <2>6. Cardinality(B) <= Cardinality(page)
    BY <2>5, <1>4, FS_Subset
  <2>7. Before(found, i) = Cardinality(B)
    BY DEF Before
  <2>8. Before(found, i) < limit
    BY <2>6, <2>7, <1>1, <1>4, <1>6
  <2> QED
    BY <2>8, <1>0
<1>7. ASSUME ~(Cardinality(page) < limit) PROVE page # {}
  <2>1. Cardinality({}) = 0
    BY FS_EmptySet
  <2> QED
    BY <2>1, <1>7
<1> QED
  BY <1>3, <1>5, <1>6, <1>7

\* What a page of getEvents holds: only events behind the cursor, at or above the
\* window's first ledger and below the node's; all of those before the last one
\* it holds; and, unless it is full, all of the window up to where the node is.
LEMMA PageFacts ==
  ASSUME NEW r \in Runs, NEW latest \in Nat, RunInv(run[r], Settled), run[r].pc = "loop"
  PROVE  LET s == run[r]
             c == Here(r)
             page == Page(r, latest)
         IN /\ page \subseteq Indices(c)
            /\ \A i \in page : /\ s.cursor < i /\ s.from <= Stream[c][i].ledger
                               /\ Stream[c][i].ledger <= latest
            /\ \A i \in page, j \in Indices(c) :
                  s.cursor < j /\ s.from <= Stream[c][j].ledger /\ j < i => j \in page
            /\ Cardinality(page) < PAGE_LIMIT =>
                  \A j \in Indices(c) :
                     /\ s.cursor < j /\ s.from <= Stream[c][j].ledger
                     /\ Stream[c][j].ledger <= s.to /\ Stream[c][j].ledger <= latest
                     => j \in page
            /\ ~(Cardinality(page) < PAGE_LIMIT) => page # {}
<1> DEFINE s == run[r]
           c == Here(r)
           start == StartLedger(r)
           end == IF s.cursor = 0 THEN Least(latest, s.to) ELSE latest
           found == {i \in EventsOf(c, start, Least(end, start + SCAN_LIMIT - 1)) : i > s.cursor}
           page == Page(r, latest)
           n == Len(Stream[c])
<1>1. s \in RunStates /\ s.cursor \in Nat /\ s.from \in Nat /\ s.to \in Nat /\ s.ci \in DOMAIN CONTRACTS
  BY DEF RunInv, RunStates
<1>2. c \in Contracts
  BY <1>1, ContractFacts DEF Here
<1>3. /\ n \in Nat /\ Indices(c) = 1 .. n
      /\ \A i \in Indices(c) : Stream[c][i].ledger \in Nat
      /\ \A i, j \in Indices(c) : i <= j => Stream[c][i].ledger <= Stream[c][j].ledger
  <2> HIDE DEF c
  <2> QED
    BY <1>2, StreamFacts
<1>4. page = FirstOf(found, PAGE_LIMIT)
  BY DEF Page, FirstOf
<1>5. s.to < s.from + SCAN_LIMIT
  BY DEF RunInv, Bounds, Scanning
<1>6. s.cursor # 0 => s.cursor \in Indices(c) /\ s.from <= Stream[c][s.cursor].ledger
  BY DEF RunInv, Buffers, Scanning, Here
<1>7. start = IF s.cursor = 0 THEN s.from ELSE Stream[c][s.cursor].ledger
  BY DEF StartLedger
<1>8. start \in Nat /\ s.from <= start
  BY <1>1, <1>3, <1>6, <1>7
<1>9. found \in SUBSET Nat /\ IsFiniteSet(found)
  <2>1. found \in SUBSET Indices(c) /\ Indices(c) \subseteq Nat
    BY <1>3 DEF EventsOf, Indices
  <2>2. IsFiniteSet(Indices(c))
    BY <1>3, FS_Interval
  <2> QED
    BY <2>1, <2>2, FS_Subset
<1> HIDE DEF s, c, start, n, page
<1>10. ASSUME NEW i \in found
       PROVE  /\ i \in Indices(c) /\ s.cursor < i /\ s.from <= Stream[c][i].ledger
              /\ Stream[c][i].ledger <= latest
  <2>1. i \in Indices(c) /\ i \in Nat /\ i > s.cursor
        /\ Stream[c][i].ledger \in start .. Least(end, start + SCAN_LIMIT - 1)
    BY <1>3, <1>9 DEF EventsOf, Indices
  <2>2. Stream[c][i].ledger \in Nat /\ start <= Stream[c][i].ledger
        /\ Stream[c][i].ledger <= Least(end, start + SCAN_LIMIT - 1)
    BY <2>1, <1>3
  <2>3. end \in Nat /\ end <= latest
    BY <1>1 DEF Least
  <2>4. Least(end, start + SCAN_LIMIT - 1) <= end
    BY <2>3, <1>8, ConstantFacts DEF Least
  <2>5. Least(end, start + SCAN_LIMIT - 1) \in Int
    BY <2>3, <1>8, ConstantFacts DEF Least
  <2> HIDE DEF end
  <2> QED
    BY <2>1, <2>2, <2>3, <2>4, <2>5, <1>1, <1>8
<1>11. ASSUME NEW j \in Indices(c), s.cursor < j, s.from <= Stream[c][j].ledger
       PROVE  start <= Stream[c][j].ledger
  <2>1. CASE s.cursor = 0
    BY <2>1, <1>7, <1>11
  <2>2. CASE s.cursor # 0
    BY <2>2, <1>1, <1>3, <1>6, <1>7, <1>11
  <2> QED
    BY <2>1, <2>2
<1>12. ASSUME NEW i \in found, NEW j \in Indices(c), s.cursor < j,
              s.from <= Stream[c][j].ledger, j < i
       PROVE  j \in found
  <2>1. start <= Stream[c][j].ledger
    BY <1>11, <1>12
  <2>2. i \in Indices(c) /\ Stream[c][i].ledger \in start .. Least(end, start + SCAN_LIMIT - 1)
    BY <1>10 DEF EventsOf
  <2>3. Stream[c][j].ledger <= Stream[c][i].ledger /\ Stream[c][i].ledger \in Nat
        /\ Stream[c][j].ledger \in Nat
    BY <2>2, <1>3, <1>12
  <2>4. Least(end, start + SCAN_LIMIT - 1) \in Int
    BY <1>1, <1>8, ConstantFacts DEF Least
  <2> HIDE DEF end
  <2>5. Stream[c][j].ledger \in start .. Least(end, start + SCAN_LIMIT - 1)
    BY <2>1, <2>2, <2>3, <2>4, <1>8
  <2> QED
    BY <2>5, <1>12 DEF EventsOf, Indices
<1>13. ASSUME NEW j \in Indices(c), s.cursor < j, s.from <= Stream[c][j].ledger,
              Stream[c][j].ledger <= s.to, Stream[c][j].ledger <= latest
       PROVE  j \in found
  <2>1. start <= Stream[c][j].ledger /\ Stream[c][j].ledger \in Nat
    BY <1>3, <1>11, <1>13
  <2>2. Stream[c][j].ledger <= end /\ end \in Nat
    BY <1>1, <1>13 DEF Least
  <2> HIDE DEF end
  <2>3. Stream[c][j].ledger <= start + SCAN_LIMIT - 1
    BY <2>1, <1>1, <1>5, <1>8, <1>13, ConstantFacts
  <2>4. Stream[c][j].ledger \in start .. Least(end, start + SCAN_LIMIT - 1)
    BY <2>1, <2>2, <2>3, <1>8, ConstantFacts DEF Least
  <2> QED
    BY <2>4, <1>13 DEF EventsOf, Indices
<1> HIDE DEF found
<1>14. /\ page \subseteq found
       /\ \A i \in page, j \in found : j < i => j \in page
       /\ Cardinality(page) < PAGE_LIMIT => page = found
       /\ ~(Cardinality(page) < PAGE_LIMIT) => page # {}
  BY <1>4, <1>9, ConstantFacts, FirstFacts
<1>15. \A i \in page, j \in Indices(c) :
          s.cursor < j /\ s.from <= Stream[c][j].ledger /\ j < i => j \in page
  BY <1>12, <1>14
<1>16. \A i \in page : /\ i \in Indices(c) /\ s.cursor < i /\ s.from <= Stream[c][i].ledger
                        /\ Stream[c][i].ledger <= latest
  BY <1>10, <1>14
<1>17. Cardinality(page) < PAGE_LIMIT =>
          \A j \in Indices(c) :
             /\ s.cursor < j /\ s.from <= Stream[c][j].ledger
             /\ Stream[c][j].ledger <= s.to /\ Stream[c][j].ledger <= latest
             => j \in page
  BY <1>13, <1>14
<1> QED
  BY <1>14, <1>15, <1>16, <1>17, Zenon DEF s, c, page

-----------------------------------------------------------------------------
(* What is accounted for stays so *)

\* The events of the chain are the indexes of the streams.
LEMMA EventIdFacts ==
  /\ \A c \in Contracts : \A i \in Indices(c) : <<c, i>> \in EventIds
  /\ \A e \in EventIds : e = <<e[1], e[2]>> /\ e[1] \in Contracts /\ e[2] \in Indices(e[1])
<1>1. \A c \in Contracts : \A i \in Indices(c) : <<c, i>> \in EventIds
  BY DEF EventIds, Indices
<1>2. ASSUME NEW e \in EventIds
      PROVE  e = <<e[1], e[2]>> /\ e[1] \in Contracts /\ e[2] \in Indices(e[1])
  <2>1. PICK c \in Contracts : e \in {<<c, i>> : i \in DOMAIN Stream[c]}
    BY DEF EventIds
  <2>2. PICK i \in DOMAIN Stream[c] : e = <<c, i>>
    BY <2>1
  <2> QED
    BY <2>2 DEF Indices
<1> QED
  BY <1>1, <1>2

\* An event is settled when it is accounted for, before and after a step.
LEMMA SettledFacts ==
  ASSUME NEW c \in Contracts, NEW i \in Indices(c)
  PROVE  /\ <<c, i>> \in Settled <=> Accounted(c, i)
         /\ <<c, i>> \in Settled' <=> Accounted(c, i)'
<1>1. <<c, i>> \in EventIds
  BY EventIdFacts
<1> QED
  BY <1>1 DEF Settled

\* A step settles an event that is ignored, that it writes or that it reports.
LEMMA SettledWhen ==
  ASSUME NEW c \in Contracts, NEW i \in Indices(c),
         \/ Stream[c][i].status = "ignored"
         \/ <<c, i>> \in applied'
         \/ <<c, i, "unparseable">> \in reported'
         \/ <<c, i, "skip">> \in reported'
         \/ <<c, i, "retention-clamp">> \in reported'
  PROVE  <<c, i>> \in Settled'
<1>1. Accounted(c, i)'
  BY DEF Accounted
<1> QED
  BY <1>1, SettledFacts

\* Steps that only add to the written and the reported events keep what is
\* settled settled.
LEMMA Growth ==
  ASSUME applied \subseteq applied', reported \subseteq reported'
  PROVE  Settled \subseteq Settled'
<1>1. ASSUME NEW e \in Settled PROVE e \in EventIds /\ Accounted(e[1], e[2])'
  <2>1. e \in EventIds /\ Accounted(e[1], e[2])
    BY DEF Settled
  <2> QED
    BY <2>1 DEF Accounted
<1> QED
  BY <1>1 DEF Settled

\* What a run knows is kept by everything the other runs do.
LEMMA RunInvGrows ==
  ASSUME NEW s, NEW A, NEW B, A \subseteq B, RunInv(s, A)
  PROVE  RunInv(s, B)
<1>1. Covers(s, CONTRACTS[s.ci], B)
  BY DEF RunInv, Covers, Passed
<1> QED
  BY <1>1 DEF RunInv

\* Nothing is asked of a run that gives up.
LEMMA ReleaseFacts ==
  ASSUME NEW s, NEW A, NEW B, RunInv(s, A)
  PROVE  LET u == [s EXCEPT !.pc = "release"]
         IN RunInv(u, B) /\ u.pc = "release" /\ u.ci = s.ci
<1> DEFINE u == [s EXCEPT !.pc = "release"]
<1>1. /\ s \in RunStates /\ u \in RunStates /\ u.pc = "release" /\ u.left = s.left
      /\ u.todo = s.todo /\ u.ci = s.ci
  BY DEF RunInv, RunStates, PCs
<1> HIDE DEF u
<1>2. Bounds(u) /\ Covers(u, CONTRACTS[u.ci], B)
  BY <1>1 DEF Bounds, Covers, Active, Working, Scanning, Writing
<1>3. u.left <= Len(u.todo)
  BY <1>1 DEF RunInv, Buffers
<1>4. Buffers(u, CONTRACTS[u.ci])
  BY <1>1, <1>3 DEF Buffers, Scanning, Writing
<1> QED
  BY <1>1, <1>2, <1>4 DEF RunInv, u

\* The contract a run is at, and what its position means there.
LEMMA HereFacts ==
  ASSUME NEW r \in Runs, run[r] \in RunStates
  PROVE  /\ Here(r) \in Contracts /\ Here(r) = CONTRACTS[run[r].ci]
         /\ Here(r) = Identity <=> run[r].ci = 1
BY ContractFacts DEF Here, RunStates

-----------------------------------------------------------------------------
(* getEvents: the page, the events held back and the ledger reached *)

\* A page keeps what the run knows: what it makes ready is written up to the
\* ledger it reports as reached, and no event between two pages is lost.
LEMMA GetEventsKeeps ==
  ASSUME NEW r \in Runs, run \in [Runs -> RunStates], RunInv(run[r], Settled),
         NEW latest \in Nat, GetEvents(r, latest)
  PROVE  /\ run' = [run EXCEPT ![r] = run'[r]]
         /\ RunInv(run'[r], Settled') /\ run'[r].pc = "write" /\ run'[r].zero = {}
         /\ run'[r].saved = run[r].saved /\ run'[r].ci = run[r].ci
         /\ LET ids == Queued(run'[r])
            IN /\ ids \in SUBSET Indices(Here(r))
               /\ run'[r].todo = ParentsFirst(Here(r), ids)
               /\ \A i \in ids : i \in EventsOf(Here(r), 0, run'[r].reached)
<1> DEFINE s == run[r]
           c == Here(r)
           page == Page(r, latest)
           inWindow == {i \in page : Stream[c][i].ledger <= s.to}
           scanned == Cardinality(page) < PAGE_LIMIT \/ inWindow # page
           events == s.held \cup inWindow
           final == CHOOSE l \in Ledgers : /\ \E i \in events : Stream[c][i].ledger = l
                                           /\ \A i \in events : Stream[c][i].ledger <= l
           held == IF scanned THEN {} ELSE {i \in events : Stream[c][i].ledger = final}
           ready == events \ held
           parsed == WithStatus(c, ready, "parsed")
           m == CHOOSE i \in page : \A j \in page : j <= i
           todo == ParentsFirst(c, parsed)
           reached == IF scanned THEN ScannedTo(s, latest) ELSE final - 1
           cursor == IF scanned THEN 0 ELSE m
           next == IF ~scanned THEN "cursor" ELSE IF latest < s.to THEN "stop" ELSE "window"
           t == [s EXCEPT !.pc = "write", !.held = held, !.todo = todo, !.reached = reached,
                          !.cursor = cursor, !.next = next]
<1>1. /\ s \in RunStates /\ s.pc = "loop" /\ s.last < s.head
      /\ StartLedger(r) \in oldest .. latest
      /\ run' = [run EXCEPT ![r] = t]
      /\ applied' = applied
      /\ reported' = reported \cup {<<c, i, "unparseable">> : i \in WithStatus(c, ready, "invalid")}
  <2>1. TakePage(r, latest, page) /\ At(r, "loop") /\ s.last < s.head
        /\ StartLedger(r) \in oldest .. latest
    BY Zenon DEF GetEvents
  <2>2. /\ run' = [run EXCEPT ![r] = t]
        /\ applied' = applied
        /\ reported' = reported \cup
              {<<c, i, "unparseable">> : i \in WithStatus(c, ready, "invalid")}
    <3> HIDE DEF page
    <3> QED
      BY <2>1, Zenon DEF TakePage
  <2> QED
    BY <2>1, <2>2 DEF At, RunInv
<1>2. /\ run'[r] = t /\ run' = [run EXCEPT ![r] = run'[r]]
  <2>1. run' = [run EXCEPT ![r] = t]
    BY <1>1
  <2> HIDE DEF t
  <2> QED
    BY <2>1
<1>3. /\ t.pc = "write" /\ t.held = held /\ t.todo = todo /\ t.reached = reached
      /\ t.cursor = cursor /\ t.next = next /\ t.ci = s.ci /\ t.head = s.head
      /\ t.oldest = s.oldest /\ t.saved = s.saved /\ t.last = s.last /\ t.from = s.from
      /\ t.to = s.to /\ t.left = s.left /\ t.zero = s.zero
  <2> HIDE DEF s, held, todo, reached, cursor, next
  <2> QED
    BY <1>1 DEF RunStates
<1>4. /\ c \in Contracts /\ c = CONTRACTS[s.ci] /\ Here(r)' = c
  BY <1>2, <1>3, HereFacts DEF Here
<1>5. /\ \A i \in Indices(c) : i \in Nat /\ i # 0 /\ Stream[c][i].ledger \in Nat \ {0}
      /\ \A i \in Indices(c) : Stream[c][i].ledger \in Ledgers
      /\ \A i, j \in Indices(c) : i <= j => Stream[c][i].ledger <= Stream[c][j].ledger
      /\ Len(Stream[c]) \in Nat /\ Indices(c) = 1 .. Len(Stream[c])
  <2> HIDE DEF c
  <2>1. \A i \in Indices(c) : IsEvent(Stream[c][i])
    BY <1>4, StreamFacts
  <2>2. \A i \in Indices(c) : Stream[c][i].ledger \in Ledgers
    BY <2>1, ConstantFacts DEF IsEvent, Ledgers
  <2> QED
    BY <1>4, <2>2, StreamFacts
<1>6. /\ s.last \in Nat /\ s.head \in Nat /\ s.from \in Nat /\ s.to \in Nat /\ s.cursor \in Nat
      /\ s.held \in SUBSET Nat /\ s.left = 0 /\ s.zero = {} /\ s.todo = <<>>
      /\ s.from <= s.last + 1 /\ s.to < s.from + SCAN_LIMIT /\ s.to <= s.head /\ s.last <= s.to
  <2> USE <1>1
  <2>1. s.pc \in Scanning
    BY DEF Scanning
  <2> QED
    BY <2>1 DEF RunInv, RunStates, Bounds, Buffers
<1>7. /\ s.cursor # 0 => s.cursor \in Indices(c) /\ s.from <= Stream[c][s.cursor].ledger
      /\ \A j \in s.held : j \in Indices(c) /\ j <= s.cursor /\ Stream[c][j].ledger <= s.to
  BY <1>1, <1>4 DEF RunInv, Buffers, Scanning
<1>8. /\ page \subseteq Indices(c)
      /\ \A i \in page : /\ s.cursor < i /\ s.from <= Stream[c][i].ledger
                         /\ Stream[c][i].ledger <= latest
      /\ \A i \in page, j \in Indices(c) :
            s.cursor < j /\ s.from <= Stream[c][j].ledger /\ j < i => j \in page
      /\ Cardinality(page) < PAGE_LIMIT =>
            \A j \in Indices(c) :
               /\ s.cursor < j /\ s.from <= Stream[c][j].ledger
               /\ Stream[c][j].ledger <= s.to /\ Stream[c][j].ledger <= latest
               => j \in page
      /\ ~(Cardinality(page) < PAGE_LIMIT) => page # {}
  BY <1>1, PageFacts
<1>9. Settled \subseteq Settled'
  BY <1>1, Growth
<1>10. /\ Passed(c, s.last, Settled)
       /\ \A j \in 1 .. s.cursor : <<c, j>> \in Settled \/ j \in s.held
       /\ \A d \in Contracts : Passed(d, s.saved[d].last, Settled)
  <2>1. Queued(s) = {}
    BY <1>6 DEF Queued
  <2>2. Covers(s, c, Settled) /\ s.pc = "loop"
    BY <1>1, <1>4 DEF RunInv
  <2> HIDE DEF c, s
  <2> QED
    BY <2>1, <2>2 DEF Covers, Working, Scanning
<1> HIDE DEF s, c, page, t
<1>11. events \subseteq Indices(c) /\ \A i \in events : Stream[c][i].ledger <= s.to
  BY <1>7, <1>8
\* The whole window is in view, or the page ends inside it.
<1>12. ASSUME scanned, NEW j \in Indices(c), s.cursor < j, s.from <= Stream[c][j].ledger,
              Stream[c][j].ledger <= s.to, Stream[c][j].ledger <= latest
       PROVE  j \in events
  <2>1. CASE Cardinality(page) < PAGE_LIMIT
    BY <2>1, <1>8, <1>12
  <2>2. CASE inWindow # page
    <3>1. PICK i \in page : ~(Stream[c][i].ledger <= s.to)
      BY <2>2
    <3>2. i \in Indices(c) /\ Stream[c][i].ledger \in Nat /\ i \in Nat /\ j \in Nat
          /\ Stream[c][j].ledger \in Nat
      BY <1>5, <1>8
    <3> HIDE DEF inWindow, events, scanned
    <3>3. ~(i <= j)
      <4>1. i <= j => Stream[c][i].ledger <= Stream[c][j].ledger
        BY <3>2, <1>5, <1>12
      <4>2. s.to \in Nat
        BY <1>6
      <4> QED
        BY <4>1, <4>2, <3>1, <3>2, <1>12
    <3>4. j \in page
      BY <3>2, <3>3, <1>8, <1>12
    <3> QED
      BY <3>4, <1>12 DEF events, inWindow
  <2> QED
    BY <2>1, <2>2, <1>12
<1>13. ASSUME ~scanned
       PROVE  /\ m \in page /\ \A j \in page : j <= m
              /\ m \in Indices(c) /\ m \in events /\ page = inWindow
              /\ \A j \in events : j <= m
              /\ final = Stream[c][m].ledger
  <2>1. page # {} /\ page = inWindow
    BY <1>8, <1>13
  <2>2. page \in SUBSET (0 .. Len(Stream[c])) /\ Len(Stream[c]) \in Nat
    BY <1>5, <1>8
  <2>3. \E i \in page : \A j \in page : j <= i
    BY <2>1, <2>2, Largest
  <2>4. m \in page /\ \A j \in page : j <= m
    BY <2>3
  <2> HIDE DEF m
  <2>5. m \in Indices(c) /\ m \in events
    BY <2>1, <2>4, <1>8
  <2>6. \A j \in events : j <= m
    BY <2>1, <2>4, <2>5, <1>5, <1>6, <1>7, <1>8
  <2>7. \A i \in events : Stream[c][i].ledger <= Stream[c][m].ledger
    BY <2>5, <2>6, <1>5, <1>11
  <2>8. Stream[c][m].ledger \in Ledgers
    BY <2>5, <1>5
  <2> HIDE DEF events
  <2>9. \A l \in Ledgers : /\ \E i \in events : Stream[c][i].ledger = l
                           /\ \A i \in events : Stream[c][i].ledger <= l
                           => l = Stream[c][m].ledger
    BY <2>5, <2>7, <1>5, <1>11 DEF Ledgers
  <2>10. final = Stream[c][m].ledger
    BY <2>5, <2>7, <2>8, <2>9
  <2> QED
    BY <2>1, <2>4, <2>5, <2>6, <2>10
<1>14. ASSUME NEW j \in Indices(c),
              IF scanned THEN Stream[c][j].ledger <= reached ELSE j <= m
       PROVE  <<c, j>> \in Settled \/ j \in events
  <2>1. j \in Nat /\ j # 0 /\ Stream[c][j].ledger \in Nat
    BY <1>5
  <2>2. CASE j <= s.cursor
    BY <2>1, <2>2, <1>6, <1>10
  <2>3. CASE Stream[c][j].ledger < s.from
    <3>1. Stream[c][j].ledger \in 0 .. s.last
      BY <2>1, <2>3, <1>6
    <3> QED
      BY <3>1, <1>10 DEF Passed, EventsOf, Indices
  <2>4. CASE s.cursor < j /\ s.from <= Stream[c][j].ledger
    <3>1. CASE scanned
      <4>1. Stream[c][j].ledger <= s.to /\ Stream[c][j].ledger <= latest
        BY <3>1, <1>14, <1>6, <2>1 DEF ScannedTo, Least
      <4> QED
        BY <4>1, <3>1, <2>4, <1>12
    <3>2. CASE ~scanned
      <4> HIDE DEF m, scanned, events, final
      <4>1. j <= m /\ m \in page /\ m \in Indices(c)
        BY <3>2, <1>13, <1>14
      <4>2. CASE j = m
        BY <4>2, <3>2, <1>13
      <4>3. CASE j < m
        <5>1. j \in page
          BY <4>1, <4>3, <2>4, <1>8
        <5> QED
          BY <5>1, <3>2, <1>13 DEF events
      <4> QED
        BY <4>1, <4>2, <4>3, <2>1, <1>5
    <3> QED
      BY <3>1, <3>2
  <2> QED
    BY <2>1, <2>2, <2>3, <2>4, <1>6
<1> HIDE DEF m
<1>15. parsed \in SUBSET Indices(c) /\ ready \in SUBSET events /\ parsed \in SUBSET ready
  BY <1>11 DEF WithStatus
<1>16. ASSUME NEW j \in ready PROVE <<c, j>> \in Settled' \/ j \in parsed
  <2>1. j \in Indices(c)
    BY <1>11
  <2>2. Stream[c][j].status \in {"parsed", "ignored", "invalid"}
    BY <2>1, <1>4, StreamFacts DEF IsEvent
  <2>3. CASE Stream[c][j].status = "parsed"
    BY <2>3 DEF WithStatus
  <2>4. CASE Stream[c][j].status = "ignored"
    BY <2>1, <2>4, <1>4, SettledWhen
  <2>5. CASE Stream[c][j].status = "invalid"
    <3>1. j \in WithStatus(c, ready, "invalid")
      BY <2>5 DEF WithStatus
    <3> HIDE DEF ready
    <3>2. <<c, j, "unparseable">> \in reported'
      BY <3>1, <1>1
    <3> QED
      BY <3>2, <2>1, <1>4, SettledWhen
  <2> QED
    BY <2>2, <2>3, <2>4, <2>5
<1>17. /\ todo \in Seq(parsed) /\ Queued(t) = parsed
  <2> HIDE DEF parsed
  <2>1. /\ todo \in Seq(parsed) /\ \A i \in parsed : \E k \in DOMAIN todo : todo[k] = i
    BY <1>4, <1>15, ParentsFirstFacts
  <2>2. \A k \in DOMAIN todo : todo[k] \in parsed
    BY <2>1
  <2> HIDE DEF todo
  <2> QED
    BY <2>1, <2>2, <1>3 DEF Queued
<1>18. /\ reached \in Nat /\ reached <= s.to
       /\ \A i \in ready : i \in EventsOf(c, 0, reached)
  <2>1. CASE scanned
    <3>1. reached = Least(s.to, latest)
      BY <2>1 DEF ScannedTo
    <3>2. reached \in Nat /\ reached <= s.to
      BY <3>1, <1>6 DEF Least
    <3>3. ASSUME NEW i \in ready PROVE i \in EventsOf(c, 0, reached)
      <4>1. i \in Indices(c) /\ Stream[c][i].ledger \in Nat /\ Stream[c][i].ledger <= s.to
        BY <1>11, <1>15, <1>5
      <4>2. CASE i \in page
        <5>1. Stream[c][i].ledger <= latest
          BY <4>2, <1>8
        <5> QED
          BY <4>1, <5>1, <3>1, <1>6 DEF Least, EventsOf, Indices
      <4>3. CASE i \in s.held
        <5>1. i <= s.cursor /\ i \in Nat /\ i # 0
          BY <4>1, <4>3, <1>5, <1>7
        <5>2. s.cursor # 0 /\ s.cursor \in Indices(c)
          BY <5>1, <1>6, <1>7
        <5>3. StartLedger(r) = Stream[c][s.cursor].ledger /\ StartLedger(r) <= latest
              /\ Stream[c][s.cursor].ledger \in Nat
          BY <5>2, <1>1, <1>5 DEF StartLedger, s, c
        <5>4. Stream[c][i].ledger <= Stream[c][s.cursor].ledger
          BY <5>1, <5>2, <4>1, <1>5
        <5>5. Stream[c][i].ledger <= latest
          BY <5>3, <5>4, <4>1
        <5> QED
          BY <4>1, <5>5, <3>1, <1>6 DEF Least, EventsOf, Indices
      <4> QED
        BY <4>2, <4>3
    <3> QED
      BY <3>2, <3>3
  <2>2. CASE ~scanned
    <3>1. final = Stream[c][m].ledger /\ m \in Indices(c) /\ m \in events
      BY <2>2, <1>13
    <3>2. final \in Nat \ {0} /\ final <= s.to /\ reached = final - 1
      BY <3>1, <2>2, <1>5, <1>11
    <3>3. ASSUME NEW i \in ready PROVE i \in EventsOf(c, 0, reached)
      <4>1. i \in events /\ i \in Indices(c) /\ Stream[c][i].ledger \in Nat
        BY <1>11, <1>15, <1>5
      <4>2. Stream[c][i].ledger # final
        BY <4>1, <2>2
      <4>3. i <= m
        BY <4>1, <2>2, <1>13
      <4> HIDE DEF final, events, m, ready
      <4>4. Stream[c][i].ledger <= final
        BY <4>1, <4>3, <3>1, <1>5
      <4> QED
        BY <4>1, <4>2, <4>4, <3>2 DEF EventsOf, Indices
    <3> HIDE DEF final, ready
    <3> QED
      BY <3>2, <3>3, <1>6
  <2> QED
    BY <2>1, <2>2
<1>19. ASSUME NEW j \in 1 .. cursor
       PROVE  <<c, j>> \in Settled' \/ j \in Queued(t) \/ j \in held
  <2>1. ~scanned
    BY <1>19
  <2>2. cursor = m /\ m \in Indices(c)
    BY <2>1, <1>13
  <2>3. j \in Indices(c) /\ j <= m
    BY <2>2, <1>5, <1>19
  <2>4. <<c, j>> \in Settled \/ j \in events
    BY <2>1, <2>3, <1>14
  <2>5. j \in events => j \in ready \/ j \in held
    OBVIOUS
  <2> HIDE DEF events, ready, held, parsed
  <2> QED
    BY <2>4, <2>5, <1>9, <1>16, <1>17
<1>20. ASSUME NEW j \in EventsOf(c, 0, reached)
       PROVE  <<c, j>> \in Settled' \/ j \in Queued(t)
  <2>1. j \in Indices(c) /\ Stream[c][j].ledger <= reached /\ Stream[c][j].ledger \in Nat
    <3> HIDE DEF reached
    <3> QED
      BY <1>5, <1>18 DEF EventsOf, Indices
  <2>2. CASE scanned
    <3>1. <<c, j>> \in Settled \/ j \in events
      BY <2>1, <2>2, <1>14
    <3>2. j \in events => j \in ready
      BY <2>2
    <3> HIDE DEF events, ready, parsed
    <3> QED
      BY <3>1, <3>2, <1>9, <1>16, <1>17
  <2>3. CASE ~scanned
    <3>1. /\ final = Stream[c][m].ledger /\ m \in Indices(c) /\ cursor = m /\ reached = final - 1
          /\ final \in Nat /\ j \in Nat /\ m \in Nat
      BY <2>1, <2>3, <1>5, <1>13
    <3>2. Stream[c][j].ledger < final
      <4> HIDE DEF final, reached
      <4> QED
        BY <2>1, <3>1
    <3>3. ~(m <= j)
      <4> HIDE DEF final, reached
      <4> QED
        BY <2>1, <3>1, <3>2, <1>5
    <3>4. j \in 1 .. cursor
      <4> HIDE DEF final, reached, cursor
      <4> QED
        BY <2>1, <3>1, <3>3, <1>5
    <3>5. j \notin held
      <4>1. held = {i \in events : Stream[c][i].ledger = final}
        BY <2>3
      <4> HIDE DEF held, final, events
      <4> QED
        BY <4>1, <3>1, <3>2, <2>1
    <3> QED
      BY <1>19, <3>4, <3>5
  <2> QED
    BY <2>2, <2>3
<1>21. /\ held \in SUBSET Nat /\ cursor \in Nat /\ next \in {"stop", "cursor", "window"}
       /\ cursor # 0 => cursor \in Indices(c) /\ s.from <= Stream[c][cursor].ledger
       /\ \A j \in held : j \in Indices(c) /\ j <= cursor /\ Stream[c][j].ledger <= s.to
       /\ next = "window" => reached = s.to
       /\ next = "cursor" <=> cursor # 0
  <2>1. CASE scanned
    BY <2>1, <1>6 DEF ScannedTo, Least
  <2>2. CASE ~scanned
    <3>1. m \in page /\ m \in Indices(c) /\ m \in Nat /\ m # 0 /\ \A j \in events : j <= m
      BY <2>2, <1>13, <1>5
    <3>2. cursor = m /\ next = "cursor" /\ held \subseteq events
      BY <2>2
    <3>3. s.from <= Stream[c][m].ledger
      BY <3>1, <1>8
    <3> HIDE DEF cursor, next, held, events
    <3> QED
      BY <3>1, <3>2, <3>3, <1>5, <1>11
  <2> QED
    BY <2>1, <2>2
<1> HIDE DEF held, cursor, next, reached, ready, events, scanned, final, parsed, todo, inWindow
<1>22. t \in RunStates
  <2>1. todo \in Seq(Nat)
    BY <1>15, <1>17, <1>5
  <2> QED
    BY <2>1, <1>1, <1>18, <1>21 DEF RunStates, PCs, t
<1>23. Bounds(t)
  <2>1. Bounds(s) /\ s.pc = "loop"
    BY <1>1 DEF RunInv, s
  <2> QED
    BY <2>1, <1>3, <1>18, <1>21 DEF Bounds, Active, Working, Scanning, Writing
<1>24. Buffers(t, c)
  <2>1. Len(t.todo) \in Nat /\ \A k \in DOMAIN t.todo : t.todo[k] \in Indices(c)
    BY <1>3, <1>15, <1>17
  <2>2. t.left = 0 /\ t.zero = {} /\ t.pc = "write" /\ t.left <= Len(t.todo)
    BY <2>1, <1>3, <1>6
  <2>3. /\ t.cursor # 0 => t.cursor \in Indices(c) /\ t.from <= Stream[c][t.cursor].ledger
        /\ \A j \in t.held : j \in Indices(c) /\ j <= t.cursor /\ Stream[c][j].ledger <= t.to
    BY <1>3, <1>21, Zenon
  <2> QED
    BY <2>1, <2>2, <2>3, Zenon DEF Buffers
<1>25. Covers(t, c, Settled')
  <2>1. \A d \in Contracts : Passed(d, t.saved[d].last, Settled')
    BY <1>3, <1>9, <1>10 DEF Passed
  <2>2. Passed(c, t.last, Settled')
    BY <1>3, <1>9, <1>10 DEF Passed
  <2> QED
    BY <2>1, <2>2, <1>3, <1>19, <1>20 DEF Covers
<1>26. RunInv(t, Settled')
  BY <1>22, <1>23, <1>24, <1>25, <1>3, <1>4 DEF RunInv
<1>27. t.todo = ParentsFirst(c, Queued(t)) /\ Queued(t) \in SUBSET Indices(c)
  BY <1>3, <1>15, <1>17 DEF todo
<1>28. \A i \in Queued(t) : i \in EventsOf(c, 0, t.reached)
  BY <1>3, <1>15, <1>17, <1>18
<1>29. t.pc = "write" /\ t.zero = {} /\ t.saved = s.saved /\ t.ci = s.ci
  BY <1>3, <1>6
<1> QED
  BY <1>2, <1>26, <1>27, <1>28, <1>29 DEF s, c

-----------------------------------------------------------------------------
(* What each step has to show *)

\* No silent loss, said of the settled events, before and after a step.
LEMMA LossFacts ==
  /\ NoSilentLoss <=> \A c \in Contracts : Passed(c, cp[c].last, Settled)
  /\ NoSilentLoss' <=> \A c \in Contracts : Passed(c, cp'[c].last, Settled')
<1>1. \A c \in Contracts : \A l : EventsOf(c, 0, l) \subseteq Indices(c)
  BY DEF EventsOf, Indices
<1>2. \A c \in Contracts : \A i \in Indices(c) : /\ <<c, i>> \in Settled <=> Accounted(c, i)
                                                 /\ <<c, i>> \in Settled' <=> Accounted(c, i)'
  BY SettledFacts
<1> QED
  BY <1>1, <1>2 DEF NoSilentLoss, Passed

\* A step of one run keeps the invariant when the run's new state does, what is
\* settled stays so, and the lock and the checkpoints are those of the run.
LEMMA StepKeeps ==
  ASSUME ScanInv, NEW r \in Runs, NEW t, RunInv(t, Settled'),
         run' = [run EXCEPT ![r] = t],
         applied \subseteq applied', reported \subseteq reported',
         head' \in Nat, oldest' \in Nat,
         lock' \in [owner : Runs \cup {None, Ghost}, stale : BOOLEAN],
         cp' \in [Contracts -> CPs],
         \A q \in Runs : q # r /\ lock'.owner = q => lock.owner = q /\ cp' = cp,
         lock'.owner = r /\ t.pc \notin {"idle", "read", "release"} => cp' = t.saved,
         DependentsBehindIdentity', NoSilentLoss'
  PROVE  ScanInv'
<1>1. Settled \subseteq Settled'
  BY Growth
<1>2. t \in RunStates /\ run \in [Runs -> RunStates]
  BY DEF RunInv, ScanInv, Types
<1>3. run' \in [Runs -> RunStates] /\ run'[r] = t /\ \A q \in Runs : q # r => run'[q] = run[q]
  BY <1>2
<1>4. Types'
  BY <1>3 DEF Types
<1>5. ASSUME NEW q \in Runs PROVE RunInv(run'[q], Settled')
  <2>1. CASE q = r
    BY <2>1, <1>3
  <2>2. CASE q # r
    <3>1. RunInv(run[q], Settled)
      BY DEF ScanInv
    <3>2. RunInv(run[q], Settled')
      BY <3>1, <1>1, RunInvGrows
    <3> QED
      BY <3>2, <2>2, <1>3
  <2> QED
    BY <2>1, <2>2
<1>6. HolderSeesCheckpoints'
  <2> SUFFICES ASSUME NEW q \in Runs, lock'.owner = q,
                      run'[q].pc \notin {"idle", "read", "release"}
               PROVE  cp' = run'[q].saved
    BY DEF HolderSeesCheckpoints, HoldsLock, HasRead
  <2>1. CASE q = r
    BY <2>1, <1>3
  <2>2. CASE q # r
    BY <2>2, <1>3 DEF ScanInv, HolderSeesCheckpoints, HoldsLock, HasRead
  <2> QED
    BY <2>1, <2>2
<1> QED
  BY <1>4, <1>5, <1>6 DEF ScanInv

\* A step that leaves the lock and the checkpoints alone.
LEMMA LocalKeeps ==
  ASSUME ScanInv, NEW r \in Runs, NEW t, RunInv(t, Settled'),
         run' = [run EXCEPT ![r] = t],
         applied \subseteq applied', reported \subseteq reported',
         UNCHANGED <<head, oldest, lock, cp>>,
         t.pc \notin {"idle", "read", "release"} =>
            t.saved = run[r].saved /\ run[r].pc \notin {"idle", "read", "release"}
  PROVE  ScanInv'
<1>1. Settled \subseteq Settled'
  BY Growth
<1>2. NoSilentLoss'
  <2>1. \A c \in Contracts : Passed(c, cp[c].last, Settled)
    BY LossFacts DEF ScanInv
  <2>2. \A c \in Contracts : Passed(c, cp'[c].last, Settled')
    BY <2>1, <1>1 DEF Passed
  <2> QED
    BY <2>2, LossFacts
<1>3. DependentsBehindIdentity'
  BY DEF ScanInv, DependentsBehindIdentity
<1>4. head' \in Nat /\ oldest' \in Nat /\ cp' \in [Contracts -> CPs]
      /\ lock' \in [owner : Runs \cup {None, Ghost}, stale : BOOLEAN]
  BY DEF ScanInv, Types
<1>5. lock'.owner = r /\ t.pc \notin {"idle", "read", "release"} => cp' = t.saved
  BY DEF ScanInv, HolderSeesCheckpoints, HoldsLock, HasRead
<1>6. \A q \in Runs : q # r /\ lock'.owner = q => lock.owner = q /\ cp' = cp
  OBVIOUS
<1> QED
  BY <1>2, <1>3, <1>4, <1>5, <1>6, StepKeeps

\* A checkpoint that the holder of the lock saves for the contract it is at, not
\* below the old one, not above the run's head, with every event up to it
\* settled, keeps the checkpoints behind identity's and loses nothing.
LEMMA SaveKeeps ==
  ASSUME ScanInv, NEW r \in Runs, NEW state \in CPs, NEW done,
         Save(r, Here(r), state, done), run[r].pc \in Working,
         state.last <= run[r].head, Passed(Here(r), state.last, Settled),
         LET t == [done EXCEPT !.saved[Here(r)] = state]
         IN /\ RunInv(t, Settled)
            /\ t.saved = [run[r].saved EXCEPT ![Here(r)] = state],
         UNCHANGED <<head, oldest, applied, reported>>
  PROVE  ScanInv'
<1> DEFINE c == Here(r)
           t == [done EXCEPT !.saved[c] = state]
<1>1. Settled' = Settled
  BY DEF Settled, Accounted
<1>2. RunInv(run[r], Settled) /\ run[r] \in RunStates
  BY DEF ScanInv, RunInv
<1>3. c \in Contracts /\ (c = Identity <=> run[r].ci = 1) /\ Identity \in Contracts
  BY <1>2, HereFacts, ContractFacts
<1>4. lock' \in [owner : Runs \cup {None, Ghost}, stale : BOOLEAN] /\ lock'.owner = lock.owner
  BY DEF Save, ScanInv, Types
<1>5. cp \in [Contracts -> CPs]
  BY DEF ScanInv, Types
<1>6. CASE SaveAccepted(r, c, state)
  <2>1. cp' = [cp EXCEPT ![c] = state] /\ run' = [run EXCEPT ![r] = t]
    BY <1>6 DEF Save
  <2>2. cp' \in [Contracts -> CPs] /\ cp'[c] = state /\ \A d \in Contracts : d # c => cp'[d] = cp[d]
    BY <2>1, <1>3, <1>5
  <2>3. lock.owner = r /\ cp[c].last <= state.last
    BY <1>6 DEF SaveAccepted
  <2>4. cp = run[r].saved
    BY <2>3 DEF ScanInv, HolderSeesCheckpoints, HoldsLock, HasRead, Working, Scanning, Writing
  <2>5. cp' = t.saved
    BY <2>1, <2>4
  <2>6. NoSilentLoss'
    <3>1. \A d \in Contracts : Passed(d, cp[d].last, Settled)
      BY LossFacts DEF ScanInv
    <3>2. \A d \in Contracts : Passed(d, cp'[d].last, Settled')
      BY <3>1, <2>2, <1>1
    <3> QED
      BY <3>2, LossFacts
  <2>7. DependentsBehindIdentity'
    <3> SUFFICES ASSUME NEW d \in Contracts PROVE cp'[d].last <= cp'[Identity].last
      BY DEF DependentsBehindIdentity
    <3>1. cp[d].last <= cp[Identity].last
      BY DEF ScanInv, DependentsBehindIdentity
    <3>2. /\ cp[d].last \in Nat /\ cp[Identity].last \in Nat /\ state.last \in Nat
          /\ run[r].head \in Nat /\ cp[c].last \in Nat
      BY <1>2, <1>3, <1>5 DEF CPs, RunStates
    <3>3. CASE c = Identity
      BY <3>1, <3>2, <3>3, <2>2, <2>3
    <3>4. CASE c # Identity
      <4>1. run[r].head <= run[r].saved[Identity].last
        BY <3>4, <1>2, <1>3 DEF RunInv, Bounds, Active
      <4>2. state.last <= cp[Identity].last
        BY <4>1, <3>2, <2>4
      <4> QED
        BY <4>2, <3>1, <3>2, <3>4, <2>2, <1>3
    <3> QED
      BY <3>3, <3>4
  <2>8. head' \in Nat /\ oldest' \in Nat /\ applied \subseteq applied' /\ reported \subseteq reported'
    BY DEF ScanInv, Types
  <2>9. \A q \in Runs : q # r /\ lock'.owner = q => lock.owner = q /\ cp' = cp
    BY <2>3, <1>4
  <2>10. RunInv(t, Settled')
    BY <1>1
  <2> HIDE DEF t
  <2> QED
    BY <2>1, <2>2, <2>5, <2>6, <2>7, <2>8, <2>9, <2>10, <1>4, StepKeeps
<1>7. CASE ~SaveAccepted(r, c, state)
  <2> DEFINE u == [run[r] EXCEPT !.pc = "release"]
  <2>1. cp' = cp /\ run' = [run EXCEPT ![r] = u]
    BY <1>7 DEF Save
  <2>2. RunInv(u, Settled') /\ u.pc = "release"
    BY <1>2, ReleaseFacts
  <2>3. NoSilentLoss' /\ DependentsBehindIdentity'
    BY <2>1, <1>1, LossFacts DEF ScanInv, DependentsBehindIdentity
  <2>4. /\ head' \in Nat /\ oldest' \in Nat /\ applied \subseteq applied'
        /\ reported \subseteq reported' /\ cp' \in [Contracts -> CPs]
    BY <2>1, <1>5 DEF ScanInv, Types
  <2> HIDE DEF u
  <2> QED
    BY <2>1, <2>2, <2>3, <2>4, <1>4, StepKeeps
<1> QED
  BY <1>6, <1>7

-----------------------------------------------------------------------------
(* The steps of a run keep what is known of it *)

\* A run that starts knows nothing.
LEMMA IdleFacts ==
  ASSUME NEW A
  PROVE  /\ RunInv(Idle, A) /\ Idle.pc = "idle"
         /\ RunInv([Idle EXCEPT !.pc = "read"], A) /\ [Idle EXCEPT !.pc = "read"].pc = "read"
<1>1. [c \in Contracts |-> [last |-> 0, defer |-> 0]] \in [Contracts -> CPs]
  BY DEF CPs
<1>2. ASSUME NEW u, u = Idle \/ u = [Idle EXCEPT !.pc = "read"]
      PROVE  RunInv(u, A)
  <2>1. u \in RunStates
    <3>1. 1 \in DOMAIN CONTRACTS /\ <<>> \in Seq(Nat)
      BY ContractFacts
    <3>2. Idle \in RunStates
      BY <3>1, <1>1 DEF Idle, RunStates, PCs
    <3>3. [Idle EXCEPT !.pc = "read"] \in RunStates
      BY <3>2 DEF RunStates, PCs
    <3> QED
      BY <3>2, <3>3, <1>2
  <2>2. u.pc \in {"idle", "read"} /\ u.left = 0 /\ u.todo = <<>> /\ u.zero = {} /\ u.ci = 1
    BY <1>2 DEF Idle
  <2>3. Bounds(u) /\ Covers(u, CONTRACTS[u.ci], A)
    BY <2>2 DEF Bounds, Covers, Active, Working, Scanning, Writing
  <2>4. Buffers(u, CONTRACTS[u.ci])
    BY <2>2 DEF Buffers, Scanning, Writing
  <2> QED
    BY <2>1, <2>3, <2>4 DEF RunInv
<1>3. Idle.pc = "idle" /\ [Idle EXCEPT !.pc = "read"].pc = "read"
  BY DEF Idle
<1> QED
  BY <1>2, <1>3

\* acquireLock, releaseLock and the death of a worker: the run is outside the
\* section the lock guards, and no other run gets the lock.
LEMMA LockStepsKeep ==
  ASSUME ScanInv, NEW r \in Runs, AcquireLock(r) \/ ReleaseLock(r) \/ Crash(r)
  PROVE  ScanInv'
<1>1. UNCHANGED <<head, oldest, cp, applied, reported>>
  BY DEF AcquireLock, ReleaseLock, Crash
<1>2. Settled' = Settled
  BY <1>1 DEF Settled, Accounted
<1>3. PICK t : /\ t = Idle \/ t = [Idle EXCEPT !.pc = "read"]
               /\ run' = [run EXCEPT ![r] = t]
  BY DEF AcquireLock, ReleaseLock, Crash
<1>4. RunInv(t, Settled') /\ t.pc \in {"idle", "read"}
  BY <1>3, IdleFacts
<1>5. lock \in [owner : Runs \cup {None, Ghost}, stale : BOOLEAN]
  BY DEF ScanInv, Types
<1>6. /\ lock' \in [owner : Runs \cup {None, Ghost}, stale : BOOLEAN]
      /\ \A q \in Runs : q # r /\ lock'.owner = q => lock.owner = q
  <2>1. CASE AcquireLock(r)
    BY <2>1, <1>5 DEF AcquireLock
  <2>2. CASE ReleaseLock(r)
    BY <2>2, <1>5, ConstantFacts DEF ReleaseLock, NoLock
  <2>3. CASE Crash(r)
    BY <2>3, <1>5, ConstantFacts DEF Crash
  <2> QED
    BY <2>1, <2>2, <2>3
<1>7. NoSilentLoss' /\ DependentsBehindIdentity'
  BY <1>1, <1>2, LossFacts DEF ScanInv, DependentsBehindIdentity
<1>8. /\ head' \in Nat /\ oldest' \in Nat /\ applied \subseteq applied'
      /\ reported \subseteq reported' /\ cp' \in [Contracts -> CPs] /\ cp' = cp
  BY <1>1 DEF ScanInv, Types
<1> QED
  BY <1>3, <1>4, <1>6, <1>7, <1>8, StepKeeps

\* readCheckpoints: what the run read is what the table holds.
LEMMA ReadKeeps ==
  ASSUME ScanInv, NEW r \in Runs, ReadCheckpoints(r)
  PROVE  ScanInv'
<1> DEFINE s == run[r]
           t == [s EXCEPT !.pc = "health", !.saved = cp]
<1>1. /\ s.pc = "read" /\ run' = [run EXCEPT ![r] = t]
      /\ UNCHANGED <<head, oldest, lock, cp, applied, reported>>
  BY DEF ReadCheckpoints, At, db
<1>2. Settled' = Settled
  BY <1>1 DEF Settled, Accounted
<1>3. RunInv(s, Settled) /\ s \in RunStates /\ cp \in [Contracts -> CPs]
  BY DEF ScanInv, Types, RunInv
<1>4. /\ t \in RunStates /\ t.pc = "health" /\ t.saved = cp /\ t.ci = s.ci
      /\ t.left = s.left /\ t.todo = s.todo /\ t.zero = s.zero
  <2> HIDE DEF s
  <2> QED
    BY <1>3 DEF RunStates, PCs
<1> HIDE DEF t
<1>5. s.ci = 1 /\ s.left = 0 /\ s.todo = <<>> /\ s.zero = {}
  BY <1>1, <1>3 DEF RunInv, Bounds, Buffers
<1>6. \A d \in Contracts : Passed(d, cp[d].last, Settled)
  BY LossFacts DEF ScanInv
<1>7. RunInv(t, Settled')
  <2>1. Bounds(t)
    BY <1>4, <1>5 DEF Bounds, Active, Working, Scanning, Writing
  <2>2. Covers(t, CONTRACTS[t.ci], Settled')
    BY <1>2, <1>4, <1>6 DEF Covers, Working, Scanning, Writing
  <2>3. Buffers(t, CONTRACTS[t.ci])
    BY <1>4, <1>5 DEF Buffers, Scanning, Writing
  <2> QED
    BY <2>1, <2>2, <2>3, <1>4 DEF RunInv
<1>8. NoSilentLoss' /\ DependentsBehindIdentity'
  BY <1>1, <1>2, LossFacts DEF ScanInv, DependentsBehindIdentity
<1>9. /\ head' \in Nat /\ oldest' \in Nat /\ applied \subseteq applied'
      /\ reported \subseteq reported' /\ cp' \in [Contracts -> CPs] /\ cp' = cp /\ lock' = lock
      /\ lock' \in [owner : Runs \cup {None, Ghost}, stale : BOOLEAN]
  BY <1>1 DEF ScanInv, Types
<1> QED
  BY <1>1, <1>4, <1>7, <1>8, <1>9, StepKeeps

\* getHealth: the run's head is a ledger the nodes hold.
LEMMA HealthKeeps ==
  ASSUME ScanInv, NEW r \in Runs, NEW latest \in Ledgers, GetHealth(r, latest)
  PROVE  ScanInv'
<1> DEFINE s == run[r]
           pc == IF Aged(r) /\ ~AllowRetentionClamp THEN "release" ELSE "begin"
           t == [s EXCEPT !.pc = pc, !.head = latest, !.oldest = oldest]
<1>1. /\ s.pc = "health" /\ run' = [run EXCEPT ![r] = t] /\ latest \in oldest .. head
      /\ UNCHANGED <<head, oldest, lock, cp, applied, reported>>
  BY DEF GetHealth, NodeAt, At, db
<1>2. Settled' = Settled
  BY <1>1 DEF Settled, Accounted
<1>3. RunInv(s, Settled) /\ s \in RunStates /\ oldest \in Nat /\ head \in Nat /\ latest \in Nat
  BY ConstantFacts DEF ScanInv, Types, RunInv, Ledgers
<1>4. /\ t \in RunStates /\ t.pc \in {"begin", "release"} /\ t.saved = s.saved /\ t.ci = s.ci
      /\ t.left = s.left /\ t.todo = s.todo /\ t.zero = s.zero /\ t.head = latest
      /\ t.oldest = oldest
  <2>1. pc \in {"begin", "release"}
    OBVIOUS
  <2> HIDE DEF s, pc
  <2> QED
    BY <2>1, <1>3 DEF RunStates, PCs
<1> HIDE DEF t, s
<1>5. s.ci = 1 /\ s.left = 0 /\ s.todo = <<>> /\ s.zero = {}
  BY <1>1, <1>3 DEF RunInv, Bounds, Buffers
<1>6. \A d \in Contracts : Passed(d, s.saved[d].last, Settled)
  BY <1>1, <1>3 DEF RunInv, Covers
<1>7. RunInv(t, Settled')
  <2>1. Bounds(t)
    BY <1>1, <1>3, <1>4, <1>5 DEF Bounds, Active, Working, Scanning, Writing
  <2>2. Covers(t, CONTRACTS[t.ci], Settled')
    BY <1>2, <1>4, <1>6 DEF Covers, Working, Scanning, Writing
  <2>3. Buffers(t, CONTRACTS[t.ci])
    BY <1>4, <1>5 DEF Buffers, Scanning, Writing
  <2> QED
    BY <2>1, <2>2, <2>3, <1>4 DEF RunInv
<1> QED
  BY <1>1, <1>4, <1>7, LocalKeeps DEF s

\* Two states of a run that differ at most in what it saved.
SameButSaved(t, u) ==
    /\ t.pc = u.pc /\ t.ci = u.ci /\ t.head = u.head /\ t.oldest = u.oldest /\ t.last = u.last
    /\ t.from = u.from /\ t.to = u.to /\ t.cursor = u.cursor /\ t.held = u.held
    /\ t.todo = u.todo /\ t.left = u.left /\ t.zero = u.zero

\* Saving a checkpoint in a state of a run changes only what it saved.
LEMMA SavedFields ==
  ASSUME NEW u \in RunStates, NEW c \in Contracts, NEW state \in CPs
  PROVE  LET t == [u EXCEPT !.saved[c] = state]
         IN /\ t \in RunStates /\ SameButSaved(t, u)
            /\ t.saved = [u.saved EXCEPT ![c] = state]
BY DEF RunStates, SameButSaved

\* save(): written or already there, the run goes on with its state saved.
LEMMA SaveIfChangedKeeps ==
  ASSUME ScanInv, NEW r \in Runs, NEW state \in CPs, NEW done \in RunStates,
         SaveIfChanged(r, Here(r), state, done), run[r].pc \in Working,
         state.last <= run[r].head, Passed(Here(r), state.last, Settled),
         done.saved = run[r].saved,
         \A t \in RunStates : /\ SameButSaved(t, done)
                              /\ t.saved = [run[r].saved EXCEPT ![Here(r)] = state]
                              => RunInv(t, Settled),
         UNCHANGED <<head, oldest, applied, reported>>
  PROVE  ScanInv'
<1> DEFINE c == Here(r)
<1>1. run[r] \in RunStates /\ run[r].saved \in [Contracts -> CPs] /\ c \in Contracts
  <2>1. run[r] \in RunStates
    BY DEF ScanInv, RunInv
  <2> QED
    BY <2>1, HereFacts DEF RunStates
<1>2. CASE state = run[r].saved[c]
  <2>1. run' = [run EXCEPT ![r] = done] /\ UNCHANGED <<cp, lock>>
    BY <1>2 DEF SaveIfChanged
  <2>2. done.saved = [run[r].saved EXCEPT ![c] = state]
    BY <1>1, <1>2
  <2>3. RunInv(done, Settled)
    BY <2>2 DEF SameButSaved
  <2>4. Settled' = Settled
    BY DEF Settled, Accounted
  <2>5. run[r].pc \notin {"idle", "read", "release"}
    BY DEF Working, Scanning, Writing
  <2> QED
    BY <2>1, <2>3, <2>4, <2>5, LocalKeeps
<1>3. CASE state # run[r].saved[c]
  <2>1. Save(r, c, state, done)
    BY <1>3 DEF SaveIfChanged
  <2> DEFINE t == [done EXCEPT !.saved[c] = state]
  <2>2. t \in RunStates /\ SameButSaved(t, done) /\ t.saved = [run[r].saved EXCEPT ![c] = state]
    BY <1>1, SavedFields
  <2> HIDE DEF c
  <2>3. RunInv(t, Settled)
    BY <2>2 DEF c
  <2> QED
    BY <2>1, <2>2, <2>3, SaveKeeps DEF c
<1> QED
  BY <1>2, <1>3

\* The fields of the state that starts the next contract.
LEMMA OutcomeFields ==
  ASSUME NEW s \in RunStates, NEW c, c = Identity <=> s.ci = 1
  PROVE  LET t == Outcome(s, c) IN
         /\ t \in RunStates
         /\ t.pc = (IF s.ci = Len(CONTRACTS) THEN "release" ELSE "begin")
         /\ t.ci = (IF s.ci = Len(CONTRACTS) THEN 1 ELSE s.ci + 1)
         /\ t.head = (IF s.ci = 1 THEN Least(s.head, s.last) ELSE s.head)
         /\ t.oldest = s.oldest /\ t.left = s.left /\ t.todo = s.todo /\ t.zero = s.zero
         /\ t.saved = s.saved
<1> DEFINE pc == IF s.ci = Len(CONTRACTS) THEN "release" ELSE "begin"
           ci == IF s.ci = Len(CONTRACTS) THEN 1 ELSE s.ci + 1
           h == IF c = Identity THEN Least(s.head, s.last) ELSE s.head
<1>1. pc \in PCs
  BY DEF PCs
<1>2. ci \in DOMAIN CONTRACTS
  <2>1. s.ci \in 1 .. Len(CONTRACTS)
    BY ContractFacts DEF RunStates
  <2> QED
    BY <2>1, ContractFacts
<1>3. h \in Nat
  BY DEF RunStates, Least
<1>4. Outcome(s, c) = [s EXCEPT !.pc = pc, !.ci = ci, !.head = h]
  BY DEF Outcome
<1> DEFINE t == [s EXCEPT !.pc = pc, !.ci = ci, !.head = h]
<1> HIDE DEF pc, ci, h
<1>5. /\ t.pc = pc /\ t.ci = ci /\ t.head = h
      /\ t.oldest = s.oldest /\ t.left = s.left /\ t.todo = s.todo /\ t.zero = s.zero
      /\ t.saved = s.saved
  BY DEF RunStates
<1>6. t \in RunStates
  BY <1>1, <1>2, <1>3 DEF RunStates
<1> HIDE DEF t
<1>7. Outcome(s, c) = t
  BY <1>4 DEF t
<1> QED
  BY <1>5, <1>6, <1>7 DEF pc, ci, h

\* The fields of the state that starts a scan.
LEMMA WindowFields ==
  ASSUME NEW s \in RunStates
  PROVE  Window(s) \in RunStates /\ Window(s).saved = s.saved /\ Window(s).pc = "loop"
<1> DEFINE to == Least(s.head, s.last + SCAN_LIMIT)
<1>1. to \in Nat /\ s.last + 1 \in Nat
  BY ConstantFacts DEF RunStates, Least
<1>2. Window(s) = [s EXCEPT !.pc = "loop", !.from = s.last + 1, !.to = to,
                            !.cursor = 0, !.held = {}]
  BY DEF Window
<1>3. {} \in SUBSET Nat /\ 0 \in Nat /\ "loop" \in PCs
  BY DEF PCs
<1> DEFINE from == s.last + 1
           t == [s EXCEPT !.pc = "loop", !.from = from, !.to = to, !.cursor = 0, !.held = {}]
<1>4. Window(s) = t /\ from \in Nat
  BY <1>1, <1>2
<1> HIDE DEF to, from
<1>5. t.saved = s.saved /\ t.pc = "loop"
  BY DEF RunStates
<1>6. t \in RunStates
  BY <1>1, <1>3, <1>4 DEF RunStates
<1> HIDE DEF t
<1> QED
  BY <1>4, <1>5, <1>6

\* The next contract starts with nothing in hand, its head capped by identity.
LEMMA OutcomeFacts ==
  ASSUME NEW s \in RunStates, NEW t \in RunStates, NEW A,
         t.pc = (IF s.ci = Len(CONTRACTS) THEN "release" ELSE "begin"),
         t.ci = (IF s.ci = Len(CONTRACTS) THEN 1 ELSE s.ci + 1),
         t.head = (IF s.ci = 1 THEN Least(s.head, s.last) ELSE s.head),
         t.oldest = s.oldest, t.left = 0, t.todo = <<>>, t.zero = {},
         s.oldest <= s.head + 1, s.oldest <= s.last + 1,
         IF s.ci = 1 THEN s.last <= t.saved[Identity].last ELSE s.head <= t.saved[Identity].last,
         \A d \in Contracts : Passed(d, t.saved[d].last, A)
  PROVE  RunInv(t, A)
<1>1. /\ s.head \in Nat /\ s.last \in Nat /\ s.oldest \in Nat /\ t.head \in Nat
      /\ t.saved[Identity].last \in Nat
  BY ContractFacts DEF RunStates, CPs
<1>2. t.oldest <= t.head + 1 /\ t.head <= t.saved[Identity].last
  BY <1>1 DEF Least
<1>3. Bounds(t)
  BY <1>2 DEF Bounds, Active, Working, Scanning, Writing
<1>4. Buffers(t, CONTRACTS[t.ci])
  BY DEF Buffers, Scanning, Writing
<1>5. Covers(t, CONTRACTS[t.ci], A)
  BY DEF Covers, Working, Scanning, Writing
<1> QED
  BY <1>3, <1>4, <1>5 DEF RunInv

\* A scan that starts behind the last ledger that is accounted for.
LEMMA WindowFacts ==
  ASSUME NEW s \in RunStates, NEW A, s.last <= s.head, s.oldest <= s.last + 1,
         s.left = 0, s.todo = <<>>, s.zero = {}, Passed(CONTRACTS[s.ci], s.last, A),
         NEW t \in RunStates, SameButSaved(t, Window(s)),
         s.ci # 1 => s.head <= t.saved[Identity].last,
         \A d \in Contracts : Passed(d, t.saved[d].last, A)
  PROVE  RunInv(t, A)
<1>1. /\ t.pc = "loop" /\ t.ci = s.ci /\ t.head = s.head /\ t.oldest = s.oldest
      /\ t.last = s.last /\ t.from = s.last + 1 /\ t.to = Least(s.head, s.last + SCAN_LIMIT)
      /\ t.cursor = 0 /\ t.held = {} /\ t.left = 0 /\ t.todo = <<>> /\ t.zero = {}
  BY DEF Window, SameButSaved, RunStates
<1>2. s.head \in Nat /\ s.last \in Nat /\ s.oldest \in Nat
  BY DEF RunStates
<1>3. Bounds(t)
  BY <1>1, <1>2, ConstantFacts DEF Bounds, Active, Working, Scanning, Writing, Least
<1>4. Buffers(t, CONTRACTS[t.ci])
  BY <1>1 DEF Buffers, Scanning, Writing
<1>5. Covers(t, CONTRACTS[t.ci], A)
  BY <1>1 DEF Covers, Working, Scanning, Writing
<1> QED
  BY <1>3, <1>4, <1>5 DEF RunInv

\* The start of indexContract: nothing to do, a clamp to report or a window to scan.
LEMMA BeginKeeps ==
  ASSUME ScanInv, NEW r \in Runs, BeginContract(r)
  PROVE  ScanInv'
<1> DEFINE c == Here(r)
           cpr == run[r].saved[c]
           s == [run[r] EXCEPT !.last = run[r].saved[c].last, !.defer = run[r].saved[c].defer]
           p == run[r]
<1>1. /\ p.pc = "begin" /\ p \in RunStates /\ RunInv(p, Settled)
  BY DEF BeginContract, At, ScanInv, RunInv
<1>2. c \in Contracts /\ c = CONTRACTS[p.ci] /\ (c = Identity <=> p.ci = 1) /\ Identity \in Contracts
  BY <1>1, HereFacts, ContractFacts
<1>3. UNCHANGED <<head, oldest, lock, cp, applied>> /\ reported \subseteq reported'
  BY DEF BeginContract
<1>4. Settled \subseteq Settled'
  BY <1>3, Growth
<1>5. cpr \in CPs /\ cpr.last \in Nat /\ cpr.defer \in Nat
  BY <1>1, <1>2 DEF RunStates, CPs
<1>6. /\ s \in RunStates /\ s.pc = "begin" /\ s.ci = p.ci /\ s.head = p.head /\ s.oldest = p.oldest
      /\ s.saved = p.saved /\ s.last = cpr.last /\ s.left = p.left /\ s.todo = p.todo
      /\ s.zero = p.zero
  <2> HIDE DEF c, p
  <2> QED
    BY <1>1, <1>5 DEF RunStates, PCs, p
<1>7. p.left = 0 /\ p.todo = <<>> /\ p.zero = {}
  BY <1>1 DEF RunInv, Buffers
<1>8. p.oldest <= p.head + 1 /\ (p.ci # 1 => p.head <= p.saved[Identity].last)
  BY <1>1 DEF RunInv, Bounds, Active
<1>9. \A d \in Contracts : Passed(d, p.saved[d].last, Settled')
  BY <1>1, <1>4 DEF RunInv, Covers, Passed
<1>10. p.head \in Nat /\ p.oldest \in Nat /\ p.ci \in Nat
  BY <1>1, ContractFacts DEF RunStates
<1>11. Passed(c, s.last, Settled')
  BY <1>2, <1>6, <1>9
<1> HIDE DEF s
<1>12. CASE s.last >= s.head /\ run' = [run EXCEPT ![r] = Outcome(s, c)]
  <2> DEFINE t == Outcome(s, c)
  <2>1. /\ t \in RunStates
        /\ t.pc = (IF s.ci = Len(CONTRACTS) THEN "release" ELSE "begin")
        /\ t.ci = (IF s.ci = Len(CONTRACTS) THEN 1 ELSE s.ci + 1)
        /\ t.head = (IF s.ci = 1 THEN Least(s.head, s.last) ELSE s.head)
        /\ t.oldest = s.oldest /\ t.left = 0 /\ t.todo = <<>> /\ t.zero = {}
        /\ t.saved = s.saved
    BY <1>2, <1>6, <1>7, <1>5, <1>10, OutcomeFields
  <2> HIDE DEF t
  <2>2. s.oldest <= s.head + 1 /\ s.oldest <= s.last + 1
    BY <1>12, <1>5, <1>6, <1>8, <1>10
  <2>3. IF s.ci = 1 THEN s.last <= t.saved[Identity].last ELSE s.head <= t.saved[Identity].last
    BY <2>1, <1>2, <1>5, <1>6, <1>8
  <2>4. RunInv(t, Settled')
    BY <2>1, <2>2, <2>3, <1>6, <1>9, OutcomeFacts
  <2> QED
    BY <2>1, <2>4, <1>1, <1>3, <1>6, <1>12, LocalKeeps DEF t
<1>13. CASE /\ s.last < s.head /\ s.last + 1 < s.oldest
            /\ reported' = reported \cup {<<c, i, "retention-clamp">> : i \in Lost(c, s)}
            /\ run' = [run EXCEPT ![r] = [s EXCEPT !.last = s.oldest - 1, !.pc = "clamp"]]
  <2> DEFINE t == [s EXCEPT !.last = s.oldest - 1, !.pc = "clamp"]
  <2>1. s.oldest \in Nat /\ s.last \in Nat /\ s.oldest - 1 \in Nat
    BY <1>5, <1>6, <1>10, <1>13
  <2>2. /\ t \in RunStates /\ t.pc = "clamp" /\ t.last = s.oldest - 1 /\ t.ci = s.ci
        /\ t.head = s.head /\ t.oldest = s.oldest /\ t.saved = s.saved /\ t.left = s.left
        /\ t.todo = s.todo /\ t.zero = s.zero
    BY <2>1, <1>6 DEF RunStates, PCs
  <2> HIDE DEF t
  <2>3. ASSUME NEW i \in EventsOf(c, 0, t.last) PROVE <<c, i>> \in Settled'
    <3>1. i \in Indices(c) /\ Stream[c][i].ledger \in 0 .. s.oldest - 1
          /\ Stream[c][i].ledger \in Nat
      BY <2>2, <1>2, StreamFacts DEF EventsOf, Indices
    <3>2. CASE Stream[c][i].ledger <= s.last
      <4>1. i \in EventsOf(c, 0, s.last)
        BY <3>1, <3>2, <2>1 DEF EventsOf, Indices
      <4> QED
        BY <4>1, <1>11 DEF Passed
    <3>3. CASE ~(Stream[c][i].ledger <= s.last)
      <4>1. i \in Lost(c, s)
        BY <3>1, <3>3, <2>1 DEF Lost, EventsOf, Indices
      <4>2. <<c, i, "retention-clamp">> \in reported'
        BY <4>1, <1>13
      <4> QED
        BY <4>2, <3>1, <1>2, SettledWhen
    <3> QED
      BY <3>2, <3>3
  <2>4. RunInv(t, Settled')
    <3>1. Bounds(t)
      BY <2>1, <2>2, <1>6, <1>8, <1>10 DEF Bounds, Active, Working, Scanning, Writing
    <3>2. Buffers(t, CONTRACTS[t.ci])
      BY <2>2, <1>6, <1>7 DEF Buffers, Scanning, Writing
    <3>3. Passed(c, t.last, Settled')
      BY <2>3 DEF Passed
    <3>4. Covers(t, CONTRACTS[t.ci], Settled')
      BY <3>3, <2>2, <1>2, <1>6, <1>9 DEF Covers, Scanning, Writing
    <3> QED
      BY <3>1, <3>2, <3>4, <2>2 DEF RunInv
  <2> QED
    BY <2>2, <2>4, <1>1, <1>3, <1>6, <1>13, LocalKeeps DEF t
<1>14. CASE /\ s.last < s.head /\ s.last + 1 >= s.oldest
            /\ run' = [run EXCEPT ![r] = Window(s)]
  <2> DEFINE t == Window(s)
  <2>1. t \in RunStates /\ t.saved = s.saved /\ t.pc = "loop" /\ SameButSaved(t, Window(s))
    BY <1>6, WindowFields DEF SameButSaved
  <2> HIDE DEF t
  <2>2. /\ s.last <= s.head /\ s.oldest <= s.last + 1 /\ s.left = 0 /\ s.todo = <<>> /\ s.zero = {}
        /\ Passed(CONTRACTS[s.ci], s.last, Settled')
    <3>1. s.last \in Nat /\ s.head \in Nat /\ s.oldest \in Nat
      BY <1>5, <1>6, <1>10
    <3>2. s.last <= s.head /\ s.oldest <= s.last + 1
      BY <3>1, <1>14
    <3>3. s.left = 0 /\ s.todo = <<>> /\ s.zero = {}
      BY <1>6, <1>7
    <3>4. Passed(CONTRACTS[s.ci], s.last, Settled')
      BY <1>2, <1>6, <1>11
    <3> QED
      BY <3>2, <3>3, <3>4
  <2>3. /\ s.ci # 1 => s.head <= t.saved[Identity].last
        /\ \A d \in Contracts : Passed(d, t.saved[d].last, Settled')
    BY <2>1, <1>6, <1>8, <1>9
  <2>4. RunInv(t, Settled')
    BY <2>1, <2>2, <2>3, <1>6, WindowFacts
  <2> QED
    BY <2>1, <2>4, <1>1, <1>3, <1>6, <1>14, LocalKeeps DEF t
<1> QED
  BY <1>12, <1>13, <1>14 DEF BeginContract, s

\* The clamp and the end of a contract save a position that is accounted for.
LEMMA EndStepsKeep ==
  ASSUME ScanInv, NEW r \in Runs, SaveClamp(r) \/ EndContract(r)
  PROVE  ScanInv'
<1> DEFINE c == Here(r)
           s == run[r]
           state == State(r)
           sv == [s.saved EXCEPT ![c] = state]
<1>1. /\ s.pc \in {"clamp", "end", "loop"} /\ s \in RunStates /\ RunInv(s, Settled)
      /\ UNCHANGED <<head, oldest, applied, reported>>
  BY DEF SaveClamp, EndContract, At, ScanInv, RunInv
<1>2. c \in Contracts /\ c = CONTRACTS[s.ci] /\ (c = Identity <=> s.ci = 1) /\ Identity \in Contracts
  BY <1>1, HereFacts, ContractFacts
<1>3. state \in CPs /\ state.last = s.last /\ s.last \in Nat /\ s.head \in Nat /\ s.oldest \in Nat
      /\ s.saved \in [Contracts -> CPs]
  BY <1>1 DEF State, CPs, RunStates
<1>4. /\ s.left = 0 /\ s.todo = <<>> /\ s.zero = {}
      /\ s.last <= s.head /\ s.oldest <= s.last + 1 /\ s.oldest <= s.head + 1
      /\ s.ci # 1 => s.head <= s.saved[Identity].last
  BY <1>1 DEF RunInv, Bounds, Buffers, Active, Working, Scanning
<1>5. Passed(c, s.last, Settled) /\ \A d \in Contracts : Passed(d, s.saved[d].last, Settled)
  BY <1>1, <1>2 DEF RunInv, Covers, Working, Scanning
<1>6. s.pc \in Working
  BY <1>1 DEF Working, Scanning
<1> HIDE DEF c, s, state
<1>7. /\ \A d \in Contracts : Passed(d, sv[d].last, Settled)
      /\ IF s.ci = 1 THEN s.last <= sv[Identity].last ELSE s.head <= sv[Identity].last
  BY <1>2, <1>3, <1>4, <1>5
<1> HIDE DEF sv
<1>8. CASE SaveClamp(r)
  <2> DEFINE done == Window(s)
  <2>1. SaveIfChanged(r, c, state, done)
    BY <1>8 DEF SaveClamp, c, s, state
  <2>2. done \in RunStates /\ done.saved = s.saved
    BY <1>1, WindowFields
  <2> HIDE DEF done
  <2>3. ASSUME NEW t \in RunStates, SameButSaved(t, done), t.saved = sv
        PROVE  RunInv(t, Settled)
    <3>1. SameButSaved(t, Window(s))
      BY <2>3 DEF done
    <3>2. /\ s.ci # 1 => s.head <= t.saved[Identity].last
          /\ \A d \in Contracts : Passed(d, t.saved[d].last, Settled)
      BY <2>3, <1>7
    <3>3. Passed(CONTRACTS[s.ci], s.last, Settled)
      BY <1>2, <1>5
    <3> QED
      BY <3>1, <3>2, <3>3, <1>1, <1>4, WindowFacts
  <2> QED
    BY <2>1, <2>2, <2>3, <1>1, <1>3, <1>4, <1>5, <1>6, SaveIfChangedKeeps DEF c, s, sv
<1>9. CASE EndContract(r)
  <2> DEFINE done == Outcome(s, c)
  <2>1. SaveIfChanged(r, c, state, done)
    BY <1>9 DEF EndContract, c, s, state
  <2>2. /\ done \in RunStates
        /\ done.pc = (IF s.ci = Len(CONTRACTS) THEN "release" ELSE "begin")
        /\ done.ci = (IF s.ci = Len(CONTRACTS) THEN 1 ELSE s.ci + 1)
        /\ done.head = (IF s.ci = 1 THEN Least(s.head, s.last) ELSE s.head)
        /\ done.oldest = s.oldest /\ done.left = s.left /\ done.todo = s.todo /\ done.zero = s.zero
        /\ done.saved = s.saved
    BY <1>1, <1>2, OutcomeFields
  <2> HIDE DEF done
  <2>3. ASSUME NEW t \in RunStates, SameButSaved(t, done), t.saved = sv
        PROVE  RunInv(t, Settled)
    <3>1. /\ t.pc = (IF s.ci = Len(CONTRACTS) THEN "release" ELSE "begin")
          /\ t.ci = (IF s.ci = Len(CONTRACTS) THEN 1 ELSE s.ci + 1)
          /\ t.head = (IF s.ci = 1 THEN Least(s.head, s.last) ELSE s.head)
          /\ t.oldest = s.oldest /\ t.left = 0 /\ t.todo = <<>> /\ t.zero = {}
      BY <2>2, <2>3, <1>4 DEF SameButSaved
    <3>2. /\ IF s.ci = 1 THEN s.last <= t.saved[Identity].last ELSE s.head <= t.saved[Identity].last
          /\ \A d \in Contracts : Passed(d, t.saved[d].last, Settled)
      BY <2>3, <1>7
    <3> QED
      BY <3>1, <3>2, <1>1, <1>4, OutcomeFacts
  <2> QED
    BY <2>1, <2>2, <2>3, <1>1, <1>3, <1>4, <1>5, <1>6, SaveIfChangedKeeps DEF c, s, sv
<1> QED
  BY <1>8, <1>9

\* A scan that stops, and a run that throws, leave everything as it is.
LEMMA StopStepsKeep ==
  ASSUME ScanInv, NEW r \in Runs, StopScan(r) \/ OutOfRange(r) \/ Throw(r)
  PROVE  ScanInv'
<1> DEFINE s == run[r]
<1>1. RunInv(s, Settled) /\ s \in RunStates
      /\ UNCHANGED <<head, oldest, lock, cp, applied, reported>>
  BY DEF StopScan, OutOfRange, Throw, ScanInv, RunInv, db
<1>2. Settled' = Settled
  BY <1>1 DEF Settled, Accounted
<1>3. CASE run' = [run EXCEPT ![r].pc = "release"]
  <2> DEFINE t == [s EXCEPT !.pc = "release"]
  <2>1. run' = [run EXCEPT ![r] = t]
    BY <1>3
  <2>2. RunInv(t, Settled') /\ t.pc = "release"
    BY <1>1, ReleaseFacts
  <2> HIDE DEF t
  <2> QED
    BY <2>1, <2>2, <1>1, LocalKeeps
<1>4. CASE s.pc = "loop" /\ run' = [run EXCEPT ![r].pc = "end"]
  <2> DEFINE t == [s EXCEPT !.pc = "end"]
  <2>1. run' = [run EXCEPT ![r] = t]
    BY <1>4
  <2>2. /\ t \in RunStates /\ t.pc = "end" /\ t.ci = s.ci /\ t.saved = s.saved /\ t.head = s.head
        /\ t.oldest = s.oldest /\ t.last = s.last /\ t.left = s.left /\ t.todo = s.todo
        /\ t.zero = s.zero
    <3> HIDE DEF s
    <3> QED
      BY <1>1 DEF RunStates, PCs
  <2> HIDE DEF t
  <2>3. RunInv(t, Settled')
    <3> HIDE DEF s
    <3>1. Bounds(t)
      BY <1>1, <1>4, <2>2 DEF RunInv, Bounds, Active, Working, Scanning, Writing
    <3>2. s.left = 0 /\ s.todo = <<>> /\ s.zero = {}
      BY <1>1, <1>4 DEF RunInv, Buffers
    <3>3. Buffers(t, CONTRACTS[t.ci])
      BY <3>2, <2>2 DEF Buffers, Scanning, Writing
    <3>4. Covers(t, CONTRACTS[t.ci], Settled')
      BY <1>1, <1>2, <1>4, <2>2 DEF RunInv, Covers, Working, Scanning, Writing
    <3> QED
      BY <3>1, <3>3, <3>4, <2>2 DEF RunInv
  <2> QED
    BY <2>1, <2>2, <2>3, <1>1, <1>4, LocalKeeps
<1> QED
  BY <1>3, <1>4 DEF StopScan, OutOfRange, Throw, At

-----------------------------------------------------------------------------
(* writeEvents: the queue gets shorter, and what leaves it is settled *)

\* t is s after the first n packets of its queue have been dealt with.
Shortened(s, t, n, c) ==
    /\ t \in RunStates /\ t.pc \in Writing
    /\ t.ci = s.ci /\ t.head = s.head /\ t.oldest = s.oldest /\ t.saved = s.saved
    /\ t.last = s.last /\ t.from = s.from /\ t.to = s.to /\ t.cursor = s.cursor
    /\ t.held = s.held /\ t.reached = s.reached /\ t.next = s.next
    /\ t.left <= Len(t.todo) /\ (t.pc = "missing" => t.left = 0)
    /\ t.pc = "write" /\ t.left = 0 => t.zero = {}
    /\ n \in 0 .. Len(s.todo) /\ Len(t.todo) = Len(s.todo) - n
    /\ \A k \in 1 .. Len(t.todo) : t.todo[k] = s.todo[n + k]
    /\ \A j \in t.zero : \/ j \in s.zero
                         \/ \E k \in 1 .. n : j = s.todo[k] /\ Stream[c][j].updates # None

\* A run that has written part of its queue still covers its page.
LEMMA ShortenedCovers ==
  ASSUME NEW s, NEW A, RunInv(s, A), s.pc \in Writing, NEW B, A \subseteq B,
         NEW t, NEW n, Shortened(s, t, n, CONTRACTS[s.ci]),
         \A k \in 1 .. n : <<CONTRACTS[s.ci], s.todo[k]>> \in B
  PROVE  RunInv(t, B)
<1> DEFINE c == CONTRACTS[s.ci]
<1> HIDE DEF c
<1>1. /\ s.todo \in Seq(Nat) /\ t.todo \in Seq(Nat) /\ Len(s.todo) \in Nat /\ Len(t.todo) \in Nat
      /\ DOMAIN s.todo = 1 .. Len(s.todo) /\ DOMAIN t.todo = 1 .. Len(t.todo)
  <2>1. s \in RunStates /\ t \in RunStates
    BY DEF RunInv, Shortened
  <2>2. s.todo \in Seq(Nat) /\ t.todo \in Seq(Nat)
    BY <2>1 DEF RunStates
  <2> QED
    BY <2>2
<1>2. n \in Nat /\ n <= Len(s.todo) /\ Len(t.todo) = Len(s.todo) - n
  BY <1>1 DEF Shortened
<1>3. \A k \in DOMAIN t.todo : n + k \in DOMAIN s.todo /\ t.todo[k] = s.todo[n + k]
  <2>1. \A k \in 1 .. Len(t.todo) : t.todo[k] = s.todo[n + k]
    BY DEF Shortened
  <2>2. \A k \in 1 .. Len(t.todo) : n + k \in 1 .. Len(s.todo)
    BY <1>1, <1>2
  <2> QED
    BY <2>1, <2>2, <1>1
<1>4. ASSUME NEW j \in Queued(s) PROVE <<c, j>> \in B \/ j \in Queued(t)
  <2>1. PICK k \in DOMAIN s.todo : j = s.todo[k]
    BY DEF Queued
  <2>2. CASE k <= n
    BY <2>1, <2>2, <1>1, <1>2 DEF c
  <2>3. CASE ~(k <= n)
    <3>1. k - n \in DOMAIN t.todo /\ n + (k - n) = k
      BY <2>1, <2>3, <1>1, <1>2
    <3>2. t.todo[k - n] = j
      BY <3>1, <2>1, <1>3
    <3> QED
      BY <3>1, <3>2 DEF Queued
  <2> QED
    BY <2>2, <2>3
<1>5. Bounds(t)
  BY DEF RunInv, Bounds, Shortened, Active, Working, Scanning, Writing
<1>6. Buffers(t, c)
  <2>1. /\ \A k \in DOMAIN s.todo : s.todo[k] \in Indices(c)
        /\ s.cursor # 0 => s.cursor \in Indices(c) /\ s.from <= Stream[c][s.cursor].ledger
        /\ \A j \in s.held : j \in Indices(c) /\ j <= s.cursor /\ Stream[c][j].ledger <= s.to
    BY DEF RunInv, Buffers, Scanning, c
  <2>2. \A k \in DOMAIN t.todo : t.todo[k] \in Indices(c)
    BY <2>1, <1>3
  <2>3. /\ t.cursor # 0 => t.cursor \in Indices(c) /\ t.from <= Stream[c][t.cursor].ledger
        /\ \A j \in t.held : j \in Indices(c) /\ j <= t.cursor /\ Stream[c][j].ledger <= t.to
    BY <2>1 DEF Shortened
  <2>4. /\ t.left <= Len(t.todo) /\ t.pc \in {"write", "missing"}
        /\ t.pc = "missing" => t.left = 0
        /\ t.pc = "write" /\ t.left = 0 => t.zero = {}
    BY DEF Shortened, Writing
  <2> QED
    BY <2>2, <2>3, <2>4 DEF Buffers
<1>7. Covers(t, c, B)
  <2>1. /\ \A d \in Contracts : Passed(d, s.saved[d].last, A)
        /\ Passed(c, s.last, A)
        /\ \A j \in 1 .. s.cursor : <<c, j>> \in A \/ j \in Queued(s) \/ j \in s.held
        /\ \A j \in EventsOf(c, 0, s.reached) : <<c, j>> \in A \/ j \in Queued(s)
    BY DEF RunInv, Covers, Working, Scanning, Writing, c
  <2>2. /\ \A d \in Contracts : Passed(d, t.saved[d].last, B)
        /\ Passed(c, t.last, B)
    BY <2>1 DEF Shortened, Passed
  <2>3. \A j \in 1 .. t.cursor : <<c, j>> \in B \/ j \in Queued(t) \/ j \in t.held
    BY <2>1, <1>4 DEF Shortened
  <2>4. \A j \in EventsOf(c, 0, t.reached) : <<c, j>> \in B \/ j \in Queued(t)
    BY <2>1, <1>4 DEF Shortened
  <2> QED
    BY <2>2, <2>3, <2>4 DEF Covers
<1> QED
  BY <1>5, <1>6, <1>7 DEF RunInv, Shortened, c

\* A chunk that is written leaves the rest of the queue and, if updates found no
\* row, the record of those.
LEMMA AfterChunkFacts ==
  ASSUME NEW s \in RunStates, s.pc \in Writing, NEW zero \in SUBSET Nat, NEW n \in 0 .. Len(s.todo),
         NEW todo \in Seq(Nat), Len(todo) = Len(s.todo) - n,
         \A k \in 1 .. Len(todo) : todo[k] = s.todo[n + k], NEW c,
         \A j \in zero : \/ j \in s.zero
                         \/ \E k \in 1 .. n : j = s.todo[k] /\ Stream[c][j].updates # None
  PROVE  Shortened(s, AfterChunk(s, zero, todo), n, c)
<1> DEFINE pc == IF zero = {} THEN "write" ELSE "missing"
           t == [s EXCEPT !.todo = todo, !.left = 0, !.zero = zero, !.pc = pc]
<1>1. pc \in {"write", "missing"} /\ (pc = "write" => zero = {})
  OBVIOUS
<1>2. AfterChunk(s, zero, todo) = t
  BY DEF AfterChunk
<1> HIDE DEF pc
<1>3. /\ t \in RunStates /\ t.pc = pc /\ t.ci = s.ci /\ t.head = s.head /\ t.oldest = s.oldest
      /\ t.saved = s.saved /\ t.last = s.last /\ t.from = s.from /\ t.to = s.to
      /\ t.cursor = s.cursor /\ t.held = s.held /\ t.reached = s.reached /\ t.next = s.next
      /\ t.left = 0 /\ t.todo = todo /\ t.zero = zero
  BY <1>1 DEF RunStates, PCs
<1> HIDE DEF t
<1>4. Len(todo) \in Nat
  OBVIOUS
<1>5. /\ t.pc \in Writing /\ t.left <= Len(t.todo) /\ (t.pc = "missing" => t.left = 0)
      /\ t.pc = "write" /\ t.left = 0 => t.zero = {}
  BY <1>1, <1>3, <1>4 DEF Writing
<1>6. /\ n \in 0 .. Len(s.todo) /\ Len(t.todo) = Len(s.todo) - n
      /\ \A k \in 1 .. Len(t.todo) : t.todo[k] = s.todo[n + k]
      /\ \A j \in t.zero : \/ j \in s.zero
                           \/ \E k \in 1 .. n : j = s.todo[k] /\ Stream[c][j].updates # None
  BY <1>3
<1>7. Shortened(s, t, n, c)
  BY <1>3, <1>5, <1>6, Zenon DEF Shortened
<1> QED
  BY <1>2, <1>7

\* A replayed packet leaves the rest of its chunk, or the chunk is done.
LEMMA AfterPacketFacts ==
  ASSUME NEW s \in RunStates, s.pc = "write", s.left > 0, s.left <= Len(s.todo),
         NEW zero \in SUBSET Nat, NEW c,
         \A j \in zero : \/ j \in s.zero
                         \/ j = s.todo[1] /\ Stream[c][j].updates # None
  PROVE  Shortened(s, AfterPacket(s, zero), 1, c)
<1>1. s.todo \in Seq(Nat) /\ s.left \in Nat
  BY DEF RunStates
<1>2. Len(s.todo) \in Nat /\ s.todo # <<>> /\ 1 \in 0 .. Len(s.todo)
  BY <1>1
<1> DEFINE rest == Tail(s.todo)
<1>3. /\ rest \in Seq(Nat) /\ Len(rest) = Len(s.todo) - 1
      /\ \A k \in 1 .. Len(rest) : rest[k] = s.todo[1 + k]
  <2>1. /\ rest \in Seq(Nat) /\ Len(rest) = Len(s.todo) - 1
        /\ \A k \in 1 .. Len(rest) : rest[k] = s.todo[k + 1]
    BY <1>1, <1>2, HeadTailProperties
  <2> QED
    BY <2>1
<1> HIDE DEF rest
<1>4. \A j \in zero : \/ j \in s.zero
                     \/ \E k \in 1 .. 1 : j = s.todo[k] /\ Stream[c][j].updates # None
  OBVIOUS
<1>5. CASE s.left = 1
  <2>1. AfterPacket(s, zero) = AfterChunk(s, zero, rest)
    BY <1>5 DEF AfterPacket, rest
  <2>2. s.pc \in Writing
    BY DEF Writing
  <2>3. Shortened(s, AfterChunk(s, zero, rest), 1, c)
    BY <2>2, <1>2, <1>3, <1>4, AfterChunkFacts
  <2> QED
    BY <2>1, <2>3
<1>6. CASE s.left # 1
  <2> DEFINE left == s.left - 1
             t == [s EXCEPT !.todo = rest, !.left = left, !.zero = zero]
  <2>1. AfterPacket(s, zero) = t
    BY <1>6 DEF AfterPacket, rest
  <2>2. left \in Nat /\ left # 0 /\ left <= Len(rest)
    BY <1>1, <1>2, <1>3, <1>6
  <2> HIDE DEF left
  <2>3. /\ t \in RunStates /\ t.pc = "write" /\ t.ci = s.ci /\ t.head = s.head
        /\ t.oldest = s.oldest /\ t.saved = s.saved /\ t.last = s.last /\ t.from = s.from
        /\ t.to = s.to /\ t.cursor = s.cursor /\ t.held = s.held /\ t.reached = s.reached
        /\ t.next = s.next /\ t.left = left /\ t.todo = rest /\ t.zero = zero
    BY <2>2, <1>3 DEF RunStates
  <2> HIDE DEF t
  <2>4. t.pc \in Writing /\ t.left <= Len(t.todo) /\ t.left # 0
    BY <2>2, <2>3 DEF Writing
  <2>5. Shortened(s, t, 1, c)
    BY <2>3, <2>4, <1>2, <1>3, <1>4 DEF Shortened
  <2> QED
    BY <2>1, <2>5
<1> QED
  BY <1>5, <1>6

\* The state of a run whose event failed a constraint and is deferred.
Deferred(s) == [s EXCEPT !.pc = "end", !.defer = s.defer + 1,
                         !.todo = <<>>, !.left = 0, !.zero = {}]

\* The queue a step of writeEvents leaves, with the events it took out settled.
WritesSome(r, t, n) ==
    /\ run' = [run EXCEPT ![r] = t]
    /\ Shortened(run[r], t, n, Here(r))
    /\ \A k \in 1 .. n : <<Here(r), run[r].todo[k]>> \in Settled'

\* A batch, replayed or not, and the record of missing parents.
LEMMA WriteStep ==
  ASSUME NEW r \in Runs, run \in [Runs -> RunStates], RunInv(run[r], Settled),
         WriteBatch(r) \/ ReplayEvent(r) \/ RecordMissing(r)
  PROVE  /\ run[r].pc \in Writing
         /\ applied \subseteq applied' /\ reported \subseteq reported'
         /\ \/ \E t \in RunStates, n \in Nat : WritesSome(r, t, n)
            \/ ReplayEvent(r) /\ run' = [run EXCEPT ![r] = Deferred(run[r])]
<1> DEFINE s == run[r]
           c == Here(r)
<1>1. s \in RunStates /\ s.todo \in Seq(Nat) /\ s.left \in Nat /\ s.zero \in SUBSET Nat
  BY DEF RunStates
<1>2. Len(s.todo) \in Nat /\ DOMAIN s.todo = 1 .. Len(s.todo)
  BY <1>1
<1>3. s.pc \in Writing
  BY DEF WriteBatch, ReplayEvent, RecordMissing, At, Writing
<1>4. c \in Contracts /\ c = CONTRACTS[s.ci]
  BY <1>1, HereFacts
<1>5. /\ \A k \in 1 .. Len(s.todo) : s.todo[k] \in Indices(c) /\ s.todo[k] \in Nat
      /\ s.left <= Len(s.todo)
  BY <1>1, <1>2, <1>3, <1>4 DEF RunInv, Buffers, Scanning
<1>6. applied \subseteq applied' /\ reported \subseteq reported'
  BY DEF WriteBatch, ReplayEvent, RecordMissing
<1>7. Settled \subseteq Settled'
  BY <1>6, Growth
<1>8. CASE WriteBatch(r)
  <2> DEFINE n == ChunkSize(r)
             zero == {s.todo[k] : k \in {m \in 1 .. n : FindsNoRow(Ev(r, m), RowsBefore(r, m))}}
             rest == SubSeq(s.todo, n + 1, Len(s.todo))
  <2>1. n \in 1 .. Len(s.todo) /\ n \in Nat
    BY <1>2, <1>8, ConstantFacts DEF ChunkSize, WriteBatch, Least
  <2>2. CASE /\ applied' = applied \cup {<<c, s.todo[k]>> : k \in 1 .. n}
             /\ run' = [run EXCEPT ![r] = AfterChunk(s, zero, rest)]
    <3>1. ASSUME NEW k \in 1 .. n PROVE <<c, s.todo[k]>> \in Settled'
      <4>1. k \in 1 .. Len(s.todo)
        BY <2>1, <1>2
      <4>2. <<c, s.todo[k]>> \in applied'
        BY <2>2
      <4> QED
        BY <4>1, <4>2, <1>4, <1>5, SettledWhen
    <3>2. zero \in SUBSET Nat
      BY <2>1, <1>2, <1>5
    <3>3. \A j \in zero : \E k \in 1 .. n : j = s.todo[k] /\ Stream[c][j].updates # None
      BY DEF FindsNoRow, Ev
    <3> HIDE DEF n, s
    <3>4. /\ rest \in Seq(Nat) /\ Len(rest) = Len(s.todo) - n
          /\ \A k \in 1 .. Len(rest) : rest[k] = s.todo[n + k]
      <4>1. \A i \in n + 1 .. Len(s.todo) : s.todo[i] \in Nat
        BY <2>1, <1>2, <1>5
      <4>2. /\ rest \in Seq(Nat)
            /\ Len(rest) = IF n + 1 <= Len(s.todo) THEN Len(s.todo) - (n + 1) + 1 ELSE 0
            /\ \A i \in 1 .. Len(s.todo) - (n + 1) + 1 : rest[i] = s.todo[(n + 1) + i - 1]
        BY <4>1, <2>1, <1>2, SubSeqProperties
      <4>3. Len(rest) = Len(s.todo) - n /\ Len(s.todo) - (n + 1) + 1 = Len(s.todo) - n
        BY <4>2, <2>1, <1>2
      <4>4. \A k \in 1 .. Len(rest) : rest[k] = s.todo[n + k]
        <5> TAKE k \in 1 .. Len(rest)
        <5>1. k \in Nat /\ k \in 1 .. Len(s.todo) - (n + 1) + 1 /\ (n + 1) + k - 1 = n + k
          BY <4>3, <2>1, <1>2
        <5> QED
          BY <5>1, <4>2
      <4> QED
        BY <4>2, <4>3, <4>4
    <3> DEFINE t == AfterChunk(s, zero, rest)
    <3> HIDE DEF zero, rest
    <3>5. Shortened(s, t, n, c)
      <4>1. n \in 0 .. Len(s.todo)
        BY <2>1, <1>2
      <4> HIDE DEF t
      <4> QED
        BY <4>1, <3>2, <3>3, <3>4, <1>1, <1>3, AfterChunkFacts DEF t
    <3>6. t \in RunStates
      BY <3>5 DEF Shortened
    <3> HIDE DEF t
    <3>7. WritesSome(r, t, n)
      BY <3>1, <3>5, <2>2 DEF WritesSome, t, s
    <3> QED
      BY <3>6, <3>7, <2>1, <1>3, <1>6 DEF s
  <2>3. CASE run' = [run EXCEPT ![r].left = n] /\ s.pc = "write" /\ s.left = 0
    <3> DEFINE t == [s EXCEPT !.left = n]
    <3> HIDE DEF n
    <3>1. /\ t \in RunStates /\ t.pc = "write" /\ t.ci = s.ci /\ t.head = s.head
          /\ t.oldest = s.oldest /\ t.saved = s.saved /\ t.last = s.last /\ t.from = s.from
          /\ t.to = s.to /\ t.cursor = s.cursor /\ t.held = s.held /\ t.reached = s.reached
          /\ t.next = s.next /\ t.left = n /\ t.todo = s.todo /\ t.zero = s.zero
      BY <2>1, <2>3, <1>1 DEF RunStates
    <3>2. run' = [run EXCEPT ![r] = t]
      BY <2>3
    <3> HIDE DEF t, s
    <3>3. /\ t.left <= Len(t.todo) /\ t.left # 0 /\ Len(t.todo) = Len(s.todo) - 0
          /\ \A k \in 1 .. Len(t.todo) : t.todo[k] = s.todo[0 + k]
      BY <3>1, <2>1, <1>2
    <3>4. t.pc \in Writing /\ 0 \in 0 .. Len(s.todo)
      BY <3>1, <1>2 DEF Writing
    <3>5. Shortened(s, t, 0, c)
      BY <3>1, <3>3, <3>4 DEF Shortened
    <3>6. WritesSome(r, t, 0)
      BY <3>2, <3>5 DEF WritesSome, s
    <3> QED
      BY <3>1, <3>6, <1>3, <1>6 DEF s
  <2> QED
    BY <1>8, <2>2, <2>3 DEF WriteBatch, At
<1>9. CASE ReplayEvent(r)
  <2>1. s.pc = "write" /\ s.left > 0
    BY <1>9 DEF ReplayEvent, At
  <2>2. 1 \in 1 .. Len(s.todo)
    BY <2>1, <1>1, <1>2, <1>5
  <2>3. ASSUME NEW zero \in SUBSET Nat, run' = [run EXCEPT ![r] = AfterPacket(s, zero)],
               \A j \in zero : j \in s.zero \/ (j = s.todo[1] /\ Stream[c][j].updates # None),
               <<c, s.todo[1]>> \in Settled'
        PROVE  \E t \in RunStates, n \in Nat : WritesSome(r, t, n)
    <3> DEFINE t == AfterPacket(s, zero)
    <3>1. Shortened(s, t, 1, c)
      BY <2>1, <2>3, <1>1, <1>5, AfterPacketFacts
    <3>2. t \in RunStates
      BY <3>1 DEF Shortened
    <3>3. \A k \in 1 .. 1 : <<c, s.todo[k]>> \in Settled'
      BY <2>3
    <3> HIDE DEF t
    <3>4. WritesSome(r, t, 1)
      BY <3>1, <3>3, <2>3 DEF WritesSome, t
    <3> QED
      BY <3>2, <3>4
  <2>4. CASE /\ applied' = applied \cup {<<c, s.todo[1]>>}
             /\ run' = [run EXCEPT ![r] = AfterPacket(s,
                   IF FindsNoRow(Ev(r, 1), rows) THEN s.zero \cup {s.todo[1]} ELSE s.zero)]
    <3> DEFINE zero == IF FindsNoRow(Ev(r, 1), rows) THEN s.zero \cup {s.todo[1]} ELSE s.zero
    <3>1. zero \in SUBSET Nat
      BY <2>2, <1>1, <1>5
    <3>2. \A j \in zero : j \in s.zero \/ (j = s.todo[1] /\ Stream[c][j].updates # None)
      BY DEF FindsNoRow, Ev
    <3>3. <<c, s.todo[1]>> \in Settled'
      BY <2>2, <2>4, <1>4, <1>5, SettledWhen
    <3>4. run' = [run EXCEPT ![r] = AfterPacket(s, zero)]
      BY <2>4
    <3> HIDE DEF zero
    <3> QED
      BY <2>3, <3>1, <3>2, <3>3, <3>4, <1>3, <1>6
  <2>5. CASE run' = [run EXCEPT ![r] = Deferred(s)]
    BY <2>5, <1>3, <1>6, <1>9
  <2>6. CASE /\ reported' = reported \cup {<<c, s.todo[1], "skip">>}
             /\ run' = [run EXCEPT ![r] = AfterPacket(s, s.zero)]
    <3>1. <<c, s.todo[1]>> \in Settled'
      BY <2>2, <2>6, <1>4, <1>5, SettledWhen
    <3> QED
      BY <2>3, <2>6, <3>1, <1>1, <1>3, <1>6
  <2> QED
    BY <2>4, <2>5, <2>6, <1>9 DEF ReplayEvent, Deferred
<1>10. CASE RecordMissing(r)
  <2> DEFINE t == [s EXCEPT !.pc = "write", !.zero = {}]
  <2>1. s.pc = "missing" /\ run' = [run EXCEPT ![r] = t]
    BY <1>10 DEF RecordMissing, At
  <2>2. s.left = 0
    BY <2>1 DEF RunInv, Buffers
  <2>3. /\ t \in RunStates /\ t.pc = "write" /\ t.ci = s.ci /\ t.head = s.head
        /\ t.oldest = s.oldest /\ t.saved = s.saved /\ t.last = s.last /\ t.from = s.from
        /\ t.to = s.to /\ t.cursor = s.cursor /\ t.held = s.held /\ t.reached = s.reached
        /\ t.next = s.next /\ t.left = 0 /\ t.todo = s.todo /\ t.zero = {}
    BY <2>2, <1>1 DEF RunStates, PCs
  <2> HIDE DEF t, s
  <2>4. /\ t.pc \in Writing /\ t.left <= Len(t.todo) /\ Len(t.todo) = Len(s.todo) - 0
        /\ 0 \in 0 .. Len(s.todo)
        /\ \A k \in 1 .. Len(t.todo) : t.todo[k] = s.todo[0 + k]
    BY <2>3, <1>2 DEF Writing
  <2>5. Shortened(s, t, 0, c)
    BY <2>3, <2>4 DEF Shortened
  <2>6. WritesSome(r, t, 0)
    BY <2>1, <2>5 DEF WritesSome, s
  <2> QED
    BY <2>3, <2>6, <1>3, <1>6 DEF s
<1> QED
  BY <1>8, <1>9, <1>10

\* The steps of writeEvents.
LEMMA WriteKeeps ==
  ASSUME ScanInv, NEW r \in Runs, WriteBatch(r) \/ ReplayEvent(r) \/ RecordMissing(r)
  PROVE  ScanInv'
<1> DEFINE s == run[r]
           c == Here(r)
<1>1. s \in RunStates /\ RunInv(s, Settled) /\ run \in [Runs -> RunStates]
  BY DEF ScanInv, Types, RunInv
<1>2. c = CONTRACTS[s.ci]
  BY DEF Here
<1>3. UNCHANGED <<head, oldest, lock, cp>>
  BY DEF WriteBatch, ReplayEvent, RecordMissing
<1>4. /\ s.pc \in Writing /\ applied \subseteq applied' /\ reported \subseteq reported'
      /\ \/ \E t \in RunStates, n \in Nat : WritesSome(r, t, n)
         \/ ReplayEvent(r) /\ run' = [run EXCEPT ![r] = Deferred(s)]
  BY <1>1, WriteStep
<1>5. Settled \subseteq Settled' /\ s.pc \notin {"idle", "read", "release"}
  BY <1>4, Growth DEF Writing
<1>6. CASE \E t \in RunStates, n \in Nat : WritesSome(r, t, n)
  <2>1. PICK t \in RunStates, n \in Nat : WritesSome(r, t, n)
    BY <1>6
  <2>2. Shortened(s, t, n, c) /\ \A k \in 1 .. n : <<c, s.todo[k]>> \in Settled'
    BY <2>1 DEF WritesSome
  <2>3. t.saved = s.saved
    BY <2>2 DEF Shortened
  <2> HIDE DEF s
  <2>4. RunInv(t, Settled')
    BY <2>2, <1>1, <1>2, <1>4, <1>5, ShortenedCovers
  <2> QED
    BY <2>1, <2>3, <2>4, <1>3, <1>4, <1>5, LocalKeeps DEF WritesSome, s
<1>7. CASE run' = [run EXCEPT ![r] = Deferred(s)]
  <2> DEFINE t == Deferred(s)
  <2>1. s.defer + 1 \in Nat /\ <<>> \in Seq(Nat) /\ {} \in SUBSET Nat /\ "end" \in PCs
    BY <1>1 DEF RunStates, PCs
  <2>2. /\ t \in RunStates /\ t.pc = "end" /\ t.ci = s.ci /\ t.head = s.head /\ t.oldest = s.oldest
        /\ t.saved = s.saved /\ t.last = s.last /\ t.left = 0 /\ t.todo = <<>> /\ t.zero = {}
    <3> DEFINE defer == s.defer + 1
    <3>1. defer \in Nat /\ t = [s EXCEPT !.pc = "end", !.defer = defer, !.todo = <<>>,
                                         !.left = 0, !.zero = {}]
      BY <2>1 DEF Deferred
    <3> HIDE DEF defer, s, t
    <3> QED
      BY <2>1, <3>1, <1>1 DEF RunStates
  <2> HIDE DEF t, s
  <2>3. Bounds(t)
    BY <2>2, <1>1, <1>4 DEF RunInv, Bounds, Active, Working, Scanning, Writing
  <2>4. Buffers(t, CONTRACTS[t.ci])
    BY <2>2 DEF Buffers, Scanning, Writing
  <2>5. Covers(t, CONTRACTS[t.ci], Settled')
    BY <2>2, <1>1, <1>4, <1>5 DEF RunInv, Covers, Passed, Working, Scanning, Writing
  <2>6. RunInv(t, Settled')
    BY <2>2, <2>3, <2>4, <2>5 DEF RunInv
  <2> QED
    BY <2>2, <2>6, <1>3, <1>4, <1>5, <1>7, LocalKeeps DEF t, s
<1> QED
  BY <1>4, <1>6, <1>7

\* Where a run is after a page: its ledger, its deferrals and its next state.
Moved(s) == s.reached > s.last
NextLast(s) == IF Moved(s) THEN s.reached ELSE s.last
NextDefer(s) == IF Moved(s) THEN 0 ELSE s.defer
NextFrom(s) == IF s.next = "window" THEN s.to + 1 ELSE s.from
NextTo(s) == IF s.next = "window" THEN Least(s.head, s.to + SCAN_LIMIT) ELSE s.to
Resumed(s) ==
    [s EXCEPT !.last = NextLast(s), !.defer = NextDefer(s),
              !.pc = IF s.next = "stop" THEN "end" ELSE "loop",
              !.from = NextFrom(s), !.to = NextTo(s)]

\* The fields of the state after a page.
LEMMA ResumedFields ==
  ASSUME NEW s \in RunStates
  PROVE  LET u == Resumed(s) IN
         /\ u \in RunStates /\ u.pc = (IF s.next = "stop" THEN "end" ELSE "loop")
         /\ u.ci = s.ci /\ u.head = s.head /\ u.oldest = s.oldest /\ u.saved = s.saved
         /\ u.last = NextLast(s) /\ u.defer = NextDefer(s) /\ u.from = NextFrom(s)
         /\ u.to = NextTo(s) /\ u.cursor = s.cursor /\ u.held = s.held
         /\ u.todo = s.todo /\ u.left = s.left /\ u.zero = s.zero
         /\ u.reached = s.reached /\ u.next = s.next
<1> DEFINE pc == IF s.next = "stop" THEN "end" ELSE "loop"
<1>1. /\ pc \in PCs /\ NextLast(s) \in Nat /\ NextDefer(s) \in Nat /\ NextFrom(s) \in Nat
      /\ NextTo(s) \in Nat
  BY ConstantFacts DEF RunStates, PCs, NextLast, NextDefer, NextFrom, NextTo, Least
<1>2. Resumed(s) = [s EXCEPT !.last = NextLast(s), !.defer = NextDefer(s), !.pc = pc,
                             !.from = NextFrom(s), !.to = NextTo(s)]
  BY DEF Resumed
<1> DEFINE last == NextLast(s)
           defer == NextDefer(s)
           from == NextFrom(s)
           to == NextTo(s)
           u == [s EXCEPT !.last = last, !.defer = defer, !.pc = pc, !.from = from, !.to = to]
<1> HIDE DEF pc, last, defer, from, to
<1>3. /\ u.pc = pc
      /\ u.ci = s.ci /\ u.head = s.head /\ u.oldest = s.oldest /\ u.saved = s.saved
      /\ u.last = last /\ u.defer = defer /\ u.from = from
      /\ u.to = to /\ u.cursor = s.cursor /\ u.held = s.held
      /\ u.todo = s.todo /\ u.left = s.left /\ u.zero = s.zero
      /\ u.reached = s.reached /\ u.next = s.next
  BY DEF RunStates
<1>4. u \in RunStates
  BY <1>1 DEF RunStates, last, defer, from, to
<1> HIDE DEF u
<1>5. Resumed(s) = u
  BY <1>2 DEF u, last, defer, from, to
<1> QED
  BY <1>3, <1>4, <1>5 DEF pc, last, defer, from, to

\* The run saves its new position if it moved, and goes on.
LEMMA AdvanceShape ==
  ASSUME NEW r \in Runs, run[r] \in RunStates, Advance(r)
  PROVE  LET s == run[r]
             state == [last |-> NextLast(s), defer |-> NextDefer(s)]
         IN /\ state \in CPs
            /\ IF Moved(s) THEN Save(r, Here(r), state, Resumed(s))
               ELSE run' = [run EXCEPT ![r] = Resumed(s)] /\ UNCHANGED <<cp, lock>>
<1> DEFINE s == run[r]
           moved == s.reached > s.last
           t == [s EXCEPT !.last = IF moved THEN s.reached ELSE s.last,
                          !.defer = IF moved THEN 0 ELSE s.defer]
           done == CASE s.next = "cursor" -> [t EXCEPT !.pc = "loop"]
                     [] s.next = "stop" -> [t EXCEPT !.pc = "end"]
                     [] s.next = "window" ->
                           [t EXCEPT !.pc = "loop", !.from = s.to + 1,
                                     !.to = Least(s.head, s.to + SCAN_LIMIT)]
<1>1. IF moved THEN Save(r, Here(r), [last |-> t.last, defer |-> t.defer], done)
      ELSE run' = [run EXCEPT ![r] = done] /\ UNCHANGED <<cp, lock>>
  BY DEF Advance
<1>2. t.last = NextLast(s) /\ t.defer = NextDefer(s)
  BY DEF RunStates, NextLast, NextDefer, Moved
<1>3. NextLast(s) \in Nat /\ NextDefer(s) \in Nat
  BY DEF RunStates, NextLast, NextDefer
<1>4. done = Resumed(s)
  <2>1. s.next \in {"stop", "cursor", "window"}
    BY DEF RunStates
  <2>2. s.next = "window" => done = Resumed(s)
    BY DEF Resumed, NextFrom, NextTo, NextLast, NextDefer, Moved
  <2>3. s.next = "stop" => done = Resumed(s)
    BY DEF Resumed, RunStates, NextFrom, NextTo, NextLast, NextDefer, Moved
  <2>4. s.next = "cursor" => done = Resumed(s)
    BY DEF Resumed, RunStates, NextFrom, NextTo, NextLast, NextDefer, Moved
  <2> QED
    BY <2>1, <2>2, <2>3, <2>4
<1> HIDE DEF done, t
<1> QED
  BY <1>1, <1>2, <1>3, <1>4 DEF CPs, Moved

\* A page whose queue is empty is accounted for: the run moves to the ledger it
\* reached, saves it and goes on.
LEMMA AdvanceKeeps ==
  ASSUME ScanInv, NEW r \in Runs, Advance(r)
  PROVE  ScanInv'
<1> DEFINE s == run[r]
           c == Here(r)
           last == NextLast(s)
           defer == NextDefer(s)
           from == NextFrom(s)
           to == NextTo(s)
           pc == IF s.next = "stop" THEN "end" ELSE "loop"
           done == Resumed(s)
<1>1. s \in RunStates /\ RunInv(s, Settled) /\ s.pc = "write" /\ s.todo = <<>>
      /\ UNCHANGED <<head, oldest, applied, reported>>
  BY DEF ScanInv, RunInv, Advance, At
<1>2. c = CONTRACTS[s.ci] /\ c \in Contracts /\ (c = Identity <=> s.ci = 1) /\ Identity \in Contracts
  BY <1>1, HereFacts, ContractFacts
<1>3. /\ s.last \in Nat /\ s.reached \in Nat /\ s.to \in Nat /\ s.head \in Nat /\ s.from \in Nat
      /\ s.cursor \in Nat /\ s.oldest \in Nat /\ s.left \in Nat /\ s.defer \in Nat
      /\ s.saved \in [Contracts -> CPs] /\ s.next \in {"stop", "cursor", "window"}
  BY <1>1 DEF RunStates
<1>4. last \in Nat /\ s.last <= last /\ (last = s.last \/ last = s.reached)
  BY <1>3 DEF NextLast, Moved
<1>5. /\ s.reached <= s.to /\ (s.next = "window" => s.reached = s.to)
      /\ (s.next = "cursor" <=> s.cursor # 0)
      /\ s.from <= s.last + 1 /\ s.to < s.from + SCAN_LIMIT /\ s.to <= s.head /\ s.last <= s.to
      /\ s.last <= s.head /\ s.oldest <= s.last + 1 /\ s.oldest <= s.head + 1
      /\ s.ci # 1 => s.head <= s.saved[Identity].last
  BY <1>1 DEF RunInv, Bounds, Active, Working, Scanning, Writing
<1>6. /\ s.left = 0 /\ s.zero = {}
      /\ s.cursor # 0 => s.cursor \in Indices(c) /\ s.from <= Stream[c][s.cursor].ledger
      /\ \A j \in s.held : j \in Indices(c) /\ j <= s.cursor /\ Stream[c][j].ledger <= s.to
  <2>1. Buffers(s, c) /\ Len(s.todo) = 0
    BY <1>1, <1>2 DEF RunInv
  <2>2. s.left = 0
    BY <2>1, <1>3 DEF Buffers
  <2> QED
    BY <2>1, <2>2, <1>1 DEF Buffers, Scanning, Writing
<1>7. /\ \A d \in Contracts : Passed(d, s.saved[d].last, Settled)
      /\ Passed(c, s.last, Settled)
      /\ \A j \in 1 .. s.cursor : <<c, j>> \in Settled \/ j \in s.held
      /\ Passed(c, s.reached, Settled)
  <2>1. Queued(s) = {} /\ Covers(s, c, Settled)
    BY <1>1, <1>2 DEF Queued, RunInv
  <2> QED
    BY <2>1, <1>1 DEF Covers, Passed, Working, Scanning, Writing
<1>8. Passed(c, last, Settled) /\ last <= s.to /\ last <= s.head
  BY <1>3, <1>4, <1>5, <1>7
<1>9. s.next = "window" => last = s.to
  BY <1>3, <1>5 DEF NextLast, Moved
<1> HIDE DEF s, c, last, defer
<1>10. from \in Nat /\ to \in Nat /\ pc \in {"end", "loop"}
  BY <1>3, ConstantFacts DEF NextFrom, NextTo, Least
<1>11. from <= last + 1 /\ to < from + SCAN_LIMIT /\ to <= s.head /\ last <= to
  BY <1>3, <1>4, <1>5, <1>8, <1>9, ConstantFacts DEF NextFrom, NextTo, Least
<1>12. /\ done \in RunStates /\ done.pc = pc /\ done.ci = s.ci /\ done.head = s.head
       /\ done.oldest = s.oldest /\ done.saved = s.saved /\ done.last = last
       /\ done.from = from /\ done.to = to /\ done.cursor = s.cursor /\ done.held = s.held
       /\ done.todo = s.todo /\ done.left = s.left /\ done.zero = s.zero
  BY <1>1, ResumedFields DEF last
<1> HIDE DEF from, to, pc
<1>13. ASSUME NEW u \in RunStates, SameButSaved(u, done),
              u.saved = s.saved \/ u.saved = [s.saved EXCEPT ![c] = [last |-> last, defer |-> defer]]
       PROVE  RunInv(u, Settled)
  <2>1. /\ u.pc = pc /\ u.ci = s.ci /\ u.head = s.head /\ u.oldest = s.oldest /\ u.last = last
        /\ u.from = from /\ u.to = to /\ u.cursor = s.cursor /\ u.held = s.held
        /\ u.todo = <<>> /\ u.left = 0 /\ u.zero = {}
    <3> HIDE DEF done
    <3> QED
      BY <1>1, <1>6, <1>12, <1>13 DEF SameButSaved
  <2>2. /\ u.ci # 1 => u.head <= u.saved[Identity].last
        /\ \A d \in Contracts : Passed(d, u.saved[d].last, Settled)
    BY <2>1, <1>2, <1>3, <1>5, <1>7, <1>8, <1>13
  <2>3. Bounds(u)
    BY <2>1, <2>2, <1>3, <1>4, <1>5, <1>8, <1>10, <1>11
       DEF Bounds, Active, Working, Scanning, Writing
  <2>4. Buffers(u, c)
    <3>1. \A j \in u.held : j \in Indices(c) /\ j <= u.cursor /\ Stream[c][j].ledger <= u.to
      <4> SUFFICES ASSUME NEW j \in s.held
                   PROVE  j \in Indices(c) /\ j <= s.cursor /\ Stream[c][j].ledger <= to
        BY <2>1
      <4>1. j \in Indices(c) /\ j <= s.cursor /\ Stream[c][j].ledger <= s.to
        BY <1>6
      <4>2. j \in Nat /\ j # 0
        BY <4>1, <1>2, StreamFacts
      <4>3. s.next # "window"
        BY <4>1, <4>2, <1>3, <1>5
      <4> QED
        BY <4>1, <4>3 DEF to, NextTo
    <3>2. u.cursor # 0 => u.cursor \in Indices(c) /\ u.from <= Stream[c][u.cursor].ledger
      BY <2>1, <1>5, <1>6 DEF from, NextFrom
    <3> QED
      BY <3>1, <3>2, <2>1, <1>10 DEF Buffers
  <2>5. Covers(u, c, Settled)
    BY <2>1, <2>2, <1>7, <1>8, <1>10 DEF Covers, Writing
  <2> QED
    BY <2>1, <2>3, <2>4, <2>5, <1>2 DEF RunInv
<1> HIDE DEF done
<1> DEFINE state == [last |-> last, defer |-> defer]
<1>14. /\ state \in CPs
       /\ IF Moved(s) THEN Save(r, c, state, done)
          ELSE run' = [run EXCEPT ![r] = done] /\ UNCHANGED <<cp, lock>>
  BY <1>1, AdvanceShape DEF s, c, last, defer, done
<1>15. state.last = last
  OBVIOUS
<1> HIDE DEF state
<1>16. CASE Moved(s)
  <2> DEFINE u == [done EXCEPT !.saved[c] = state]
  <2>1. u \in RunStates /\ SameButSaved(u, done) /\ u.saved = [done.saved EXCEPT ![c] = state]
    BY <1>14, <1>2, <1>12, SavedFields
  <2>2. RunInv(u, Settled) /\ u.saved = [s.saved EXCEPT ![c] = state]
    BY <2>1, <1>12, <1>13 DEF state
  <2>3. s.pc \in Working
    BY <1>1 DEF Working, Scanning, Writing
  <2> QED
    BY <2>2, <2>3, <1>1, <1>8, <1>14, <1>15, <1>16, SaveKeeps DEF s, c
<1>17. CASE ~Moved(s)
  <2>1. RunInv(done, Settled)
    BY <1>12, <1>13 DEF SameButSaved
  <2>2. Settled' = Settled
    BY <1>1 DEF Settled, Accounted
  <2> QED
    BY <2>1, <2>2, <1>1, <1>12, <1>14, <1>17, LocalKeeps DEF s
<1> QED
  BY <1>16, <1>17

-----------------------------------------------------------------------------
(* Theorems *)

\* Time, ledgers and retention touch nothing a run knows.
LEMMA EnvironmentKeeps ==
  ASSUME ScanInv, CloseLedger \/ RetentionMoves \/ LockAges \/ UNCHANGED vars
  PROVE  ScanInv'
<1>1. /\ UNCHANGED <<cp, applied, reported, run>> /\ head' \in Nat /\ oldest' \in Nat
      /\ lock' \in [owner : Runs \cup {None, Ghost}, stale : BOOLEAN] /\ lock'.owner = lock.owner
  <2>1. /\ head \in Nat /\ oldest \in Nat
        /\ lock \in [owner : Runs \cup {None, Ghost}, stale : BOOLEAN]
    BY DEF ScanInv, Types
  <2>2. CASE CloseLedger \/ RetentionMoves \/ UNCHANGED vars
    BY <2>1, <2>2 DEF CloseLedger, RetentionMoves, vars, db
  <2>3. CASE LockAges
    <3>1. UNCHANGED <<cp, applied, reported, run, head, oldest>>
          /\ lock' = [lock EXCEPT !.stale = TRUE]
      BY <2>3 DEF LockAges
    <3> QED
      BY <2>1, <3>1
  <2> QED
    BY <2>2, <2>3
<1>2. Settled' = Settled
  BY <1>1 DEF Settled, Accounted
<1>3. Types'
  BY <1>1 DEF ScanInv, Types
<1>4. HolderSeesCheckpoints'
  BY <1>1 DEF ScanInv, HolderSeesCheckpoints, HoldsLock, HasRead
<1>5. DependentsBehindIdentity'
  BY <1>1 DEF ScanInv, DependentsBehindIdentity
<1>6. NoSilentLoss'
  BY <1>1, <1>2, LossFacts DEF ScanInv
<1>7. \A r \in Runs : RunInv(run'[r], Settled')
  BY <1>1, <1>2 DEF ScanInv
<1> QED
  BY <1>3, <1>4, <1>5, <1>6, <1>7 DEF ScanInv

\* The empty tables and idle runs satisfy the invariant.
LEMMA ScanInvInit == Init => ScanInv
<1> SUFFICES ASSUME Init PROVE ScanInv
  OBVIOUS
<1>1. RunInv(Idle, Settled) /\ Idle \in RunStates
  BY IdleFacts DEF RunInv
<1>2. cp \in [Contracts -> CPs] /\ \A c \in Contracts : cp[c].last = 0
  BY DEF Init, CPs
<1>3. Types
  BY <1>1, <1>2 DEF Types, Init, NoLock
<1>4. \A r \in Runs : RunInv(run[r], Settled)
  BY <1>1 DEF Init
<1>5. HolderSeesCheckpoints
  BY ConstantFacts DEF HolderSeesCheckpoints, HoldsLock, Init, NoLock
<1>6. DependentsBehindIdentity
  BY <1>2, ContractFacts DEF DependentsBehindIdentity
<1>7. NoSilentLoss
  <2>1. ASSUME NEW c \in Contracts PROVE EventsOf(c, 0, cp[c].last) = {}
    BY <1>2, StreamFacts DEF EventsOf, Indices
  <2> QED
    BY <2>1 DEF NoSilentLoss
<1> QED
  BY <1>3, <1>4, <1>5, <1>6, <1>7 DEF ScanInv

\* Every step keeps the invariant.
LEMMA ScanInvNext == ScanInv /\ [Next]_vars => ScanInv'
<1> SUFFICES ASSUME ScanInv, [Next]_vars PROVE ScanInv'
  OBVIOUS
<1>1. CASE CloseLedger \/ RetentionMoves \/ LockAges \/ UNCHANGED vars
  BY <1>1, EnvironmentKeeps
<1>2. ASSUME NEW r \in Runs, AcquireLock(r) \/ StopScan(r) \/ Throw(r) \/ Crash(r)
      PROVE  ScanInv'
  BY <1>2, LockStepsKeep, StopStepsKeep
<1>3. ASSUME NEW r \in Runs, Step(r) PROVE ScanInv'
  <2>1. CASE ReadCheckpoints(r)
    BY <2>1, ReadKeeps
  <2>2. CASE \E latest \in Ledgers : GetHealth(r, latest)
    BY <2>2, HealthKeeps
  <2>3. CASE BeginContract(r)
    BY <2>3, BeginKeeps
  <2>4. CASE SaveClamp(r) \/ EndContract(r)
    BY <2>4, EndStepsKeep
  <2>5. ASSUME NEW latest \in Ledgers, GetEvents(r, latest) PROVE ScanInv'
    <3>1. latest \in Nat /\ run \in [Runs -> RunStates] /\ RunInv(run[r], Settled)
      BY ConstantFacts DEF Ledgers, ScanInv, Types
    <3>2. /\ run' = [run EXCEPT ![r] = run'[r]] /\ RunInv(run'[r], Settled')
          /\ run'[r].saved = run[r].saved
      BY <3>1, <2>5, GetEventsKeeps
    <3>3. /\ UNCHANGED <<head, oldest, lock, cp>> /\ applied \subseteq applied'
          /\ reported \subseteq reported' /\ run[r].pc = "loop"
      BY <2>5 DEF GetEvents, TakePage, At
    <3> QED
      BY <3>2, <3>3, LocalKeeps
  <2>6. CASE OutOfRange(r)
    BY <2>6, StopStepsKeep
  <2>7. CASE WriteBatch(r) \/ ReplayEvent(r) \/ RecordMissing(r)
    BY <2>7, WriteKeeps
  <2>8. CASE Advance(r)
    BY <2>8, AdvanceKeeps
  <2>9. CASE ReleaseLock(r)
    BY <2>9, LockStepsKeep
  <2> QED
    BY <1>3, <2>1, <2>2, <2>3, <2>4, <2>5, <2>6, <2>7, <2>8, <2>9 DEF Step
<1> QED
  BY <1>1, <1>2, <1>3 DEF Next

\* The invariant of the scan, on every behaviour of overlapping runs.
THEOREM ScanInvariant == Spec => []ScanInv
<1>1. Init => ScanInv
  BY ScanInvInit
<1>2. ScanInv /\ [Next]_vars => ScanInv'
  BY ScanInvNext
<1> QED
  BY <1>1, <1>2, PTL DEF Spec

\* As long as a run holds the lock, what it read or saved last is what the table
\* holds, however many runs that lost the lock are alive: saveCheckpoint never
\* refuses the holder.
THEOREM LockFencesCheckpoints == Spec => []HolderSeesCheckpoints
<1>1. ScanInv => HolderSeesCheckpoints
  BY DEF ScanInv
<1> QED
  BY <1>1, ScanInvariant, PTL

\* No contract is ever indexed past the ledger identity was indexed to.
THEOREM DependentsStayBehind == Spec => []DependentsBehindIdentity
<1>1. ScanInv => DependentsBehindIdentity
  BY DEF ScanInv
<1> QED
  BY <1>1, ScanInvariant, PTL

\* No checkpoint passes an event that was neither written, ignored on purpose nor
\* reported, whatever the page, batch and scan limits, the lag of the nodes and
\* the faults of the runs.
THEOREM NothingLost == Spec => []NoSilentLoss
<1>1. ScanInv => NoSilentLoss
  BY DEF ScanInv
<1> QED
  BY <1>1, ScanInvariant, PTL

\* A checkpoint never moves back, not even by a run that lost the lock.
THEOREM CheckpointsNeverFall == Spec => CheckpointsMonotone
<1>1. ScanInv /\ [Next]_vars => [\A c \in Contracts : cp[c].last <= cp'[c].last]_vars
  <2> SUFFICES ASSUME ScanInv, Next, NEW c \in Contracts
               PROVE  cp[c].last <= cp'[c].last
    OBVIOUS
  <2>1. cp \in [Contracts -> CPs] /\ cp[c].last \in Nat
    BY DEF ScanInv, Types, CPs
  <2>2. ASSUME NEW r \in Runs, NEW d, NEW state, NEW done, Save(r, d, state, done)
        PROVE  cp[c].last <= cp'[c].last
    BY <2>1, <2>2 DEF Save, SaveAccepted
  <2>3. CASE cp' = cp
    BY <2>1, <2>3
  <2>4. CASE \E r \in Runs : SaveClamp(r) \/ EndContract(r) \/ Advance(r)
    <3>1. PICK r \in Runs : SaveClamp(r) \/ EndContract(r) \/ Advance(r)
      BY <2>4
    <3>2. CASE cp' = cp
      BY <3>2, <2>3
    <3>3. CASE \E d, state, done : Save(r, d, state, done)
      BY <3>3, <2>2
    <3>4. ASSUME NEW d, NEW state, NEW done, SaveIfChanged(r, d, state, done)
          PROVE  cp[c].last <= cp'[c].last
      BY <3>4, <3>2, <3>3 DEF SaveIfChanged
    <3> QED
      BY <3>1, <3>2, <3>3, <3>4 DEF SaveClamp, EndContract, Advance
  <2>5. CloseLedger \/ RetentionMoves \/ LockAges => cp' = cp
    BY DEF CloseLedger, RetentionMoves, LockAges, db
  <2>6. \A r \in Runs : AcquireLock(r) \/ StopScan(r) \/ Throw(r) \/ Crash(r) => cp' = cp
    BY DEF AcquireLock, StopScan, Throw, Crash, db
  <2>7. \A r \in Runs : \/ ReadCheckpoints(r) \/ BeginContract(r) \/ OutOfRange(r)
                        \/ WriteBatch(r) \/ ReplayEvent(r) \/ RecordMissing(r) \/ ReleaseLock(r)
                        => cp' = cp
    BY DEF ReadCheckpoints, BeginContract, OutOfRange, WriteBatch, ReplayEvent, RecordMissing,
       ReleaseLock, db
  <2>8. ASSUME NEW r \in Runs, NEW latest \in Ledgers, GetHealth(r, latest) \/ GetEvents(r, latest)
        PROVE  cp' = cp
    <3>1. CASE GetHealth(r, latest)
      BY <3>1 DEF GetHealth, db
    <3>2. CASE GetEvents(r, latest)
      BY <3>2, Zenon DEF GetEvents, TakePage
    <3> QED
      BY <2>8, <3>1, <3>2
  <2> QED
    BY <2>3, <2>4, <2>5, <2>6, <2>7, <2>8 DEF Next, Step
<1> QED
  BY <1>1, ScanInvariant, PTL DEF Spec, CheckpointsMonotone

-----------------------------------------------------------------------------
(* Parents before children *)

\* The event that creates the row another one refers to: one event of identity or
\* of the same contract, not ignored, in an earlier place.
LEMMA CreatorFacts ==
  ASSUME NEW c \in Contracts, NEW i \in Indices(c), Parent(Stream[c][i]) # None
  PROVE  LET g == ParentOf(c, i) IN
         /\ g \in EventIds /\ g = <<g[1], g[2]>> /\ g[1] \in {Identity, c}
         /\ g[1] \in Contracts /\ g[2] \in Indices(g[1])
         /\ Stream[g[1]][g[2]].creates = Parent(Stream[c][i])
         /\ Stream[g[1]][g[2]].status # "ignored"
         /\ Precedes(g[1], g[2], c, i)
<1> DEFINE row == Parent(Stream[c][i])
           g == ParentOf(c, i)
           e == <<c, i>>
<1>1. e \in EventIds /\ e[1] = c /\ e[2] = i
  BY EventIdFacts
<1>2. PICK h \in EventIds : /\ Stream[h[1]][h[2]].creates = row
                            /\ Stream[h[1]][h[2]].status # "ignored"
                            /\ h[1] \in {Identity, c}
                            /\ Precedes(h[1], h[2], c, i)
  <2>1. \E h \in EventIds : /\ Stream[h[1]][h[2]].creates = Parent(Stream[e[1]][e[2]])
                            /\ Stream[h[1]][h[2]].status # "ignored"
                            /\ h[1] \in {Identity, e[1]}
                            /\ Precedes(h[1], h[2], e[1], e[2])
    <3> HIDE DEF e
    <3>1. Parent(Stream[e[1]][e[2]]) # None
      BY <1>1
    <3> QED
      BY <3>1, <1>1, StreamAssumption, Zenon
  <2> QED
    BY <2>1, <1>1
<1>3. g \in EventIds /\ Stream[g[1]][g[2]].creates = row
  BY <1>2 DEF ParentOf, Creator
<1> HIDE DEF g, row, e
<1>4. g = h
  <2>1. row # None
    BY DEF row
  <2>2. Stream[g[1]][g[2]].creates # None /\ Stream[g[1]][g[2]].creates = Stream[h[1]][h[2]].creates
    BY <2>1, <1>2, <1>3
  <2> QED
    BY <2>2, <1>3, StreamAssumption
<1>5. g = <<g[1], g[2]>> /\ g[1] \in Contracts /\ g[2] \in Indices(g[1])
  BY <1>3, EventIdFacts
<1> QED
  BY <1>2, <1>3, <1>4, <1>5 DEF g, row

\* What a run knows of the parents is kept by everything the other runs do.
LEMMA ParentsGrow ==
  ASSUME NEW s, NEW c, NEW A, NEW B, A \subseteq B, Parents(s, c, A)
  PROVE  Parents(s, c, B)
BY DEF Parents

\* The queue of a page has each event behind the parents that are not settled:
\* those of identity are, since the run's head is capped where identity stopped.
LEMMA PageParents ==
  ASSUME NEW r \in Runs, run \in [Runs -> RunStates], RunInv(run[r], Settled),
         NEW latest \in Nat, GetEvents(r, latest)
  PROVE  Parents(run'[r], Here(r), Settled')
<1> DEFINE t == run'[r]
           c == Here(r)
           ids == Queued(t)
<1>1. /\ RunInv(t, Settled') /\ t.pc = "write" /\ t.zero = {} /\ t.ci = run[r].ci
      /\ ids \in SUBSET Indices(c) /\ t.todo = ParentsFirst(c, ids)
      /\ \A i \in ids : i \in EventsOf(c, 0, t.reached)
  BY GetEventsKeeps
<1>2. c \in Contracts /\ c = CONTRACTS[t.ci] /\ (c = Identity <=> t.ci = 1)
  <2>1. run[r] \in RunStates
    OBVIOUS
  <2> QED
    BY <2>1, <1>1, HereFacts
<1>3. /\ \A i \in ids : \E k \in DOMAIN t.todo : t.todo[k] = i
      /\ \A k \in DOMAIN t.todo : \A g \in ids :
            ~Stream[c][t.todo[k]].registered /\ (Stream[c][g].registered \/ g < t.todo[k])
               => \E m \in 1 .. k - 1 : t.todo[m] = g
  <2> HIDE DEF ids, t, c
  <2> QED
    BY <1>1, <1>2, ParentsFirstFacts
<1> HIDE DEF t, c
<1>4. /\ t.reached \in Nat /\ t.to \in Nat /\ t.head \in Nat /\ t.saved \in [Contracts -> CPs]
      /\ t.reached <= t.to /\ t.to <= t.head /\ (t.ci # 1 => t.head <= t.saved[Identity].last)
  BY <1>1 DEF RunInv, RunStates, Bounds, Active, Working, Scanning, Writing
<1>5. /\ \A j \in EventsOf(c, 0, t.reached) : <<c, j>> \in Settled' \/ j \in ids
      /\ \A d \in Contracts : Passed(d, t.saved[d].last, Settled')
  BY <1>1, <1>2 DEF RunInv, Covers, Writing
<1>6. ASSUME NEW k \in DOMAIN t.todo, Parent(Stream[c][t.todo[k]]) # None
      PROVE  \/ ParentOf(c, t.todo[k]) \in Settled'
             \/ \E m \in 1 .. k - 1 : ParentOf(c, t.todo[k]) = <<c, t.todo[m]>>
  <2> DEFINE i == t.todo[k]
             g == ParentOf(c, i)
  <2>1. i \in ids
    BY DEF Queued
  <2>2. i \in Indices(c) /\ Stream[c][i].ledger <= t.reached /\ Stream[c][i].ledger \in Nat
    <3>1. i \in EventsOf(c, 0, t.reached)
      BY <2>1, <1>1
    <3> QED
      BY <3>1, <1>2, <1>4, StreamFacts DEF EventsOf, Indices
  <2> HIDE DEF i
  <2>3. /\ g = <<g[1], g[2]>> /\ g[1] \in {Identity, c} /\ g[1] \in Contracts
        /\ g[2] \in Indices(g[1]) /\ Precedes(g[1], g[2], c, i)
    BY <2>2, <1>2, <1>6, CreatorFacts DEF i
  <2> HIDE DEF g
  <2>4. Stream[g[1]][g[2]].ledger \in Nat /\ Stream[g[1]][g[2]].ledger <= Stream[c][i].ledger
    BY <2>3, StreamFacts DEF Precedes
  <2>5. CASE g[1] = c
    <3>1. g[2] \in EventsOf(c, 0, t.reached)
      BY <2>2, <2>3, <2>4, <2>5, <1>4 DEF EventsOf, Indices
    <3>2. CASE <<c, g[2]>> \in Settled'
      BY <3>2, <2>3, <2>5 DEF g, i
    <3>3. CASE g[2] \in ids
      <4>1. ~Stream[c][i].registered /\ (Stream[c][g[2]].registered \/ g[2] < i)
        BY <2>3, <2>5 DEF Precedes
      <4>2. PICK m \in 1 .. k - 1 : t.todo[m] = g[2]
        BY <4>1, <3>3, <1>3 DEF i
      <4>3. g = <<c, t.todo[m]>>
        BY <4>2, <2>3, <2>5
      <4> QED
        BY <4>3 DEF g, i
    <3> QED
      BY <3>1, <3>2, <3>3, <1>5
  <2>6. CASE g[1] # c
    <3>1. g[1] = Identity /\ t.ci # 1
      BY <2>3, <2>6, <1>2
    <3>2. t.saved[Identity].last \in Nat
      BY <3>1, <2>3, <1>4 DEF CPs
    <3>3. Stream[g[1]][g[2]].ledger <= t.saved[Identity].last
      BY <3>1, <3>2, <2>2, <2>4, <1>4
    <3>4. g[2] \in EventsOf(Identity, 0, t.saved[Identity].last)
      BY <3>1, <3>2, <3>3, <2>3, <2>4 DEF EventsOf, Indices
    <3>5. <<Identity, g[2]>> \in Settled'
      BY <3>1, <3>4, <2>3, <1>5 DEF Passed
    <3> QED
      BY <3>1, <3>5, <2>3 DEF g, i
  <2> QED
    BY <2>5, <2>6
<1> QED
  BY <1>1, <1>6 DEF Parents, t, c

\* Writing part of the queue settles the parents in it.
LEMMA ShortenedParents ==
  ASSUME NEW s, NEW c, NEW A, NEW B, A \subseteq B, s \in RunStates, s.pc \in Writing,
         Parents(s, c, A), Buffers(s, c), NEW t, NEW n, Shortened(s, t, n, c),
         \A k \in 1 .. n : <<c, s.todo[k]>> \in B
  PROVE  Parents(t, c, B)
<1>1. /\ Len(s.todo) \in Nat /\ Len(t.todo) \in Nat
      /\ DOMAIN s.todo = 1 .. Len(s.todo) /\ DOMAIN t.todo = 1 .. Len(t.todo)
  <2>1. s.todo \in Seq(Nat) /\ t.todo \in Seq(Nat)
    BY DEF Shortened, RunStates
  <2> QED
    BY <2>1
<1>2. n \in Nat /\ n <= Len(s.todo) /\ Len(t.todo) = Len(s.todo) - n
  BY <1>1 DEF Shortened
<1>3. \A k \in 1 .. Len(t.todo) : t.todo[k] = s.todo[n + k]
  BY DEF Shortened
<1>4. \A k \in 1 .. Len(s.todo) :
         Parent(Stream[c][s.todo[k]]) # None =>
            \/ ParentOf(c, s.todo[k]) \in A
            \/ \E m \in 1 .. k - 1 : ParentOf(c, s.todo[k]) = <<c, s.todo[m]>>
  BY <1>1 DEF Parents
<1>5. ASSUME NEW k \in 1 .. Len(t.todo), Parent(Stream[c][t.todo[k]]) # None
      PROVE  \/ ParentOf(c, t.todo[k]) \in B
             \/ \E m \in 1 .. k - 1 : ParentOf(c, t.todo[k]) = <<c, t.todo[m]>>
  <2>1. n + k \in 1 .. Len(s.todo) /\ t.todo[k] = s.todo[n + k]
    BY <1>1, <1>2, <1>3
  <2>2. CASE ParentOf(c, s.todo[n + k]) \in A
    BY <2>1, <2>2
  <2>3. ASSUME NEW m \in 1 .. (n + k) - 1, ParentOf(c, s.todo[n + k]) = <<c, s.todo[m]>>
        PROVE  \/ ParentOf(c, t.todo[k]) \in B
               \/ \E j \in 1 .. k - 1 : ParentOf(c, t.todo[k]) = <<c, t.todo[j]>>
    <3>1. CASE m <= n
      <4>1. m \in 1 .. n
        BY <3>1, <1>2
      <4> QED
        BY <4>1, <2>1, <2>3
    <3>2. CASE ~(m <= n)
      <4>1. m - n \in 1 .. k - 1 /\ m - n \in 1 .. Len(t.todo) /\ n + (m - n) = m
        BY <3>2, <1>1, <1>2
      <4>2. t.todo[m - n] = s.todo[m]
        BY <4>1, <1>3
      <4> QED
        BY <4>1, <4>2, <2>1, <2>3
    <3> QED
      BY <3>1, <3>2
  <2> QED
    BY <2>1, <2>2, <2>3, <1>4, <1>5
<1>6. ASSUME NEW j \in t.zero
      PROVE  j \in Indices(c) /\ Stream[c][j].updates # None /\ ParentOf(c, j) \in B
  <2>1. CASE j \in s.zero
    BY <2>1 DEF Parents
  <2>2. ASSUME NEW k \in 1 .. n, j = s.todo[k], Stream[c][j].updates # None
        PROVE  j \in Indices(c) /\ ParentOf(c, j) \in B
    <3>1. k \in 1 .. Len(s.todo)
      BY <1>1, <1>2
    <3>2. j \in Indices(c)
      BY <3>1, <2>2, <1>1 DEF Buffers, Scanning
    <3>3. Parent(Stream[c][j]) # None
      BY <2>2 DEF Parent
    <3>4. CASE ParentOf(c, j) \in A
      BY <3>2, <3>4
    <3>5. ASSUME NEW m \in 1 .. k - 1, ParentOf(c, j) = <<c, s.todo[m]>>
          PROVE  ParentOf(c, j) \in B
      <4>1. m \in 1 .. n
        BY <1>2
      <4> QED
        BY <4>1, <3>5
    <3> QED
      BY <3>1, <3>2, <3>3, <3>4, <3>5, <2>2, <1>4
  <2> QED
    BY <2>1, <2>2 DEF Shortened
<1> QED
  BY <1>1, <1>5, <1>6 DEF Parents

\* A row that is missing although the event that creates it is settled was given
\* up with that event.
LEMMA LostParent ==
  ASSUME RowsFollow, NEW c \in Contracts, NEW i \in Indices(c), Parent(Stream[c][i]) # None,
         ParentOf(c, i) \in Settled, Parent(Stream[c][i]) \notin rows
  PROVE  IsReported(ParentOf(c, i))
<1> DEFINE g == ParentOf(c, i)
<1>1. /\ g \in EventIds /\ g = <<g[1], g[2]>> /\ Stream[g[1]][g[2]].status # "ignored"
      /\ Stream[g[1]][g[2]].creates = Parent(Stream[c][i])
  BY CreatorFacts
<1> HIDE DEF g
<1>2. Accounted(g[1], g[2])
  BY DEF Settled, g
<1>3. g \notin applied
  BY <1>1 DEF RowsFollow
<1>4. PICK reason : <<g[1], g[2], reason>> \in reported
  BY <1>1, <1>2, <1>3 DEF Accounted
<1>5. IsReported(g)
  <2> DEFINE x == <<g[1], g[2], reason>>
  <2>1. x \in reported /\ <<x[1], x[2]>> = g
    BY <1>1, <1>4
  <2> QED
    BY <2>1 DEF IsReported
<1> QED
  BY <1>5 DEF g

\* What is given up for a missing row stays so; a step has to answer for the
\* events it gives up itself.
LEMMA GivenUpKeeps ==
  ASSUME GivenUpOnlyWithParent, reported \subseteq reported',
         \A x \in reported' \ reported :
            LET e == Stream[x[1]][x[2]]
            IN x[3] \in {"skip", "missing-parent"} /\ ~e.bad => IsReported(Creator(Parent(e)))
  PROVE  GivenUpOnlyWithParent'
<1>1. \A e : IsReported(e) => IsReported(e)'
  BY DEF IsReported
<1> SUFFICES ASSUME NEW x \in reported', x[3] \in {"skip", "missing-parent"},
                    ~Stream[x[1]][x[2]].bad
             PROVE  IsReported(Creator(Parent(Stream[x[1]][x[2]])))'
  BY DEF GivenUpOnlyWithParent
<1>2. IsReported(Creator(Parent(Stream[x[1]][x[2]])))
  BY DEF GivenUpOnlyWithParent
<1> QED
  BY <1>1, <1>2

\* Steps that write no rows and leave no run writing.
Quiet ==
    /\ UNCHANGED <<rows, applied>>
    /\ \A q \in Runs : run'[q] = run[q] \/ run'[q].pc \notin Writing

\* Such steps keep the parents in order if they answer for what they report.
LEMMA QuietKeeps ==
  ASSUME ParentInv, Quiet, reported \subseteq reported', GivenUpOnlyWithParent'
  PROVE  ParentInv'
<1>1. Settled \subseteq Settled'
  BY Growth DEF Quiet
<1>2. RowsFollow'
  BY DEF ParentInv, RowsFollow, Quiet
<1>3. ASSUME NEW q \in Runs PROVE Parents(run'[q], Here(q)', Settled')
  <2>1. CASE run'[q] = run[q]
    <3>1. Here(q)' = Here(q)
      BY <2>1 DEF Here
    <3>2. Parents(run[q], Here(q), Settled')
      BY <1>1, ParentsGrow DEF ParentInv
    <3> QED
      BY <2>1, <3>1, <3>2
  <2>2. CASE run'[q].pc \notin Writing
    BY <2>2 DEF Parents
  <2> QED
    BY <2>1, <2>2 DEF Quiet
<1> QED
  BY <1>2, <1>3 DEF ParentInv

\* A step of one run that ends outside writeEvents is quiet.
LEMMA QuietOne ==
  ASSUME NEW r \in Runs, run \in [Runs -> RunStates], NEW t, t.pc \notin Writing,
         run' = [run EXCEPT ![r] = t], UNCHANGED <<rows, applied>>
  PROVE  Quiet
BY DEF Quiet

\* A save leaves a run where it was to go, or gives up.
LEMMA QuietSave ==
  ASSUME NEW r \in Runs, run \in [Runs -> RunStates], NEW c \in Contracts, NEW state \in CPs,
         NEW done \in RunStates, done.pc \notin Writing, UNCHANGED <<rows, applied>>,
         Save(r, c, state, done) \/ SaveIfChanged(r, c, state, done)
  PROVE  Quiet
<1>1. CASE run' = [run EXCEPT ![r] = done]
  BY <1>1, QuietOne
<1>2. CASE Save(r, c, state, done)
  <2> DEFINE t == [done EXCEPT !.saved[c] = state]
             u == [run[r] EXCEPT !.pc = "release"]
  <2>1. t.pc \notin Writing
    BY SavedFields DEF SameButSaved
  <2>2. u.pc \notin Writing
    BY DEF RunStates, Writing
  <2>3. run' = [run EXCEPT ![r] = t] \/ run' = [run EXCEPT ![r] = u]
    BY <1>2 DEF Save
  <2> HIDE DEF t, u
  <2> QED
    BY <2>1, <2>2, <2>3, QuietOne
<1> QED
  BY <1>1, <1>2 DEF SaveIfChanged

\* The steps of runs outside writeEvents and getEvents, and of the environment.
LEMMA QuietSteps ==
  ASSUME ScanInv, NEW r \in Runs,
         \/ AcquireLock(r) \/ ReleaseLock(r) \/ Crash(r) \/ ReadCheckpoints(r)
         \/ (\E latest \in Ledgers : GetHealth(r, latest)) \/ BeginContract(r) \/ SaveClamp(r)
         \/ EndContract(r) \/ StopScan(r) \/ OutOfRange(r) \/ Throw(r) \/ Advance(r)
  PROVE  Quiet
<1> DEFINE s == run[r]
           c == Here(r)
<1>1. run \in [Runs -> RunStates] /\ s \in RunStates
  BY DEF ScanInv, Types
<1>2. c \in Contracts /\ (c = Identity <=> s.ci = 1)
  BY <1>1, HereFacts
<1>3. UNCHANGED <<rows, applied>>
  BY DEF AcquireLock, ReleaseLock, Crash, ReadCheckpoints, GetHealth, BeginContract, SaveClamp,
     EndContract, StopScan, OutOfRange, Throw, Advance, db
<1>4. CASE AcquireLock(r) \/ ReleaseLock(r) \/ Crash(r)
  <2>1. PICK t : /\ t = Idle \/ t = [Idle EXCEPT !.pc = "read"]
                 /\ run' = [run EXCEPT ![r] = t]
    BY <1>4 DEF AcquireLock, ReleaseLock, Crash
  <2>2. t.pc \in {"idle", "read"}
    BY <2>1, IdleFacts
  <2> QED
    BY <2>1, <2>2, <1>1, <1>3, QuietOne DEF Writing
<1>5. CASE ReadCheckpoints(r) \/ StopScan(r) \/ OutOfRange(r) \/ Throw(r)
  <2> DEFINE t1 == [s EXCEPT !.pc = "health", !.saved = cp]
             t2 == [s EXCEPT !.pc = "end"]
             t3 == [s EXCEPT !.pc = "release"]
  <2>1. t1.pc \notin Writing /\ t2.pc \notin Writing /\ t3.pc \notin Writing
    BY <1>1 DEF RunStates, Writing
  <2>2. \/ run' = [run EXCEPT ![r] = t1]
        \/ run' = [run EXCEPT ![r] = t2]
        \/ run' = [run EXCEPT ![r] = t3]
    BY <1>5 DEF ReadCheckpoints, StopScan, OutOfRange, Throw
  <2> HIDE DEF t1, t2, t3
  <2> QED
    BY <2>1, <2>2, <1>1, <1>3, QuietOne
<1>6. ASSUME NEW latest \in Ledgers, GetHealth(r, latest) PROVE Quiet
  <2> DEFINE pc == IF Aged(r) /\ ~AllowRetentionClamp THEN "release" ELSE "begin"
             t == [s EXCEPT !.pc = pc, !.head = latest, !.oldest = oldest]
  <2>1. run' = [run EXCEPT ![r] = t]
    BY <1>6 DEF GetHealth
  <2>2. pc \in {"begin", "release"}
    OBVIOUS
  <2> HIDE DEF pc
  <2>3. t.pc = pc
    BY <1>1 DEF RunStates
  <2> HIDE DEF t
  <2> QED
    BY <2>1, <2>2, <2>3, <1>1, <1>3, QuietOne DEF Writing
<1>7. CASE BeginContract(r)
  <2> DEFINE b == [s EXCEPT !.last = s.saved[c].last, !.defer = s.saved[c].defer]
  <2>1. b \in RunStates /\ b.ci = s.ci
    <3>1. s.saved[c].last \in Nat /\ s.saved[c].defer \in Nat
      BY <1>1, <1>2 DEF RunStates, CPs
    <3> QED
      BY <3>1, <1>1 DEF RunStates
  <2>2. \/ run' = [run EXCEPT ![r] = Outcome(b, c)]
        \/ run' = [run EXCEPT ![r] = [b EXCEPT !.last = b.oldest - 1, !.pc = "clamp"]]
        \/ run' = [run EXCEPT ![r] = Window(b)]
    BY <1>7 DEF BeginContract
  <2> HIDE DEF b
  <2>3. Outcome(b, c).pc \in {"begin", "release"}
    BY <2>1, <1>2, OutcomeFields
  <2>4. Window(b).pc = "loop"
    BY <2>1, WindowFields
  <2>5. [b EXCEPT !.last = b.oldest - 1, !.pc = "clamp"].pc = "clamp"
    BY <2>1 DEF RunStates
  <2>6. PICK t : run' = [run EXCEPT ![r] = t] /\ t.pc \in {"begin", "release", "clamp", "loop"}
    BY <2>2, <2>3, <2>4, <2>5
  <2> QED
    BY <2>6, <1>1, <1>3, QuietOne DEF Writing
<1>8. CASE SaveClamp(r) \/ EndContract(r)
  <2>1. State(r) \in CPs
    BY <1>1 DEF State, CPs, RunStates
  <2>2. Window(s) \in RunStates /\ Window(s).pc = "loop"
    BY <1>1, WindowFields
  <2>3. Outcome(s, c) \in RunStates /\ Outcome(s, c).pc \in {"begin", "release"}
    BY <1>1, <1>2, OutcomeFields
  <2>4. SaveIfChanged(r, c, State(r), Window(s)) \/ SaveIfChanged(r, c, State(r), Outcome(s, c))
    BY <1>8 DEF SaveClamp, EndContract
  <2> QED
    BY <2>1, <2>2, <2>3, <2>4, <1>1, <1>2, <1>3, QuietSave DEF Writing
<1>9. CASE Advance(r)
  <2>1. PICK done \in RunStates, state \in CPs :
           /\ done.pc \in {"loop", "end"}
           /\ Save(r, c, state, done) \/ run' = [run EXCEPT ![r] = done]
    <3>1. Resumed(s) \in RunStates /\ Resumed(s).pc \in {"loop", "end"}
      BY <1>1, ResumedFields
    <3> QED
      BY <3>1, <1>1, <1>9, AdvanceShape
  <2>2. done.pc \notin Writing
    BY <2>1 DEF Writing
  <2> QED
    BY <2>1, <2>2, <1>1, <1>2, <1>3, QuietOne, QuietSave
<1> QED
  BY <1>4, <1>5, <1>6, <1>7, <1>8, <1>9

\* A statement that is executed leaves the row of its event.
LEMMA WriteRows ==
  ASSUME RowsFollow, NEW r \in Runs, WriteBatch(r) \/ ReplayEvent(r) \/ RecordMissing(r)
  PROVE  RowsFollow'
<1> SUFFICES ASSUME NEW e \in EventIds, e \in applied', Stream[e[1]][e[2]].creates # None
             PROVE  Stream[e[1]][e[2]].creates \in rows'
  BY DEF RowsFollow
<1> DEFINE row == Stream[e[1]][e[2]].creates
<1>1. e \in applied => row \in rows
  BY DEF RowsFollow
<1>2. CASE UNCHANGED <<rows, applied>>
  BY <1>1, <1>2
<1>3. CASE WriteBatch(r) /\ ~UNCHANGED <<rows, applied>>
  <2> DEFINE n == ChunkSize(r)
  <2>1. /\ rows' = RowsBefore(r, n + 1)
        /\ applied' = applied \cup {<<Here(r), run[r].todo[k]>> : k \in 1 .. n}
    BY <1>3 DEF WriteBatch
  <2>2. n \in Nat /\ (n + 1) - 1 = n
    BY <1>3, ConstantFacts DEF WriteBatch, ChunkSize, Least
  <2> HIDE DEF n
  <2>3. rows' = rows \cup ({Ev(r, j).creates : j \in 1 .. n} \ {None})
    BY <2>1, <2>2 DEF RowsBefore
  <2>4. ASSUME NEW k \in 1 .. n, e = <<Here(r), run[r].todo[k]>>
        PROVE  row \in rows'
    <3>1. row = Ev(r, k).creates
      BY <2>4 DEF Ev
    <3> QED
      BY <3>1, <2>3
  <2> QED
    BY <2>1, <2>3, <2>4, <1>1
<1>4. CASE ReplayEvent(r) /\ ~UNCHANGED <<rows, applied>>
  <2>1. /\ rows' = rows \cup ({Ev(r, 1).creates} \ {None})
        /\ applied' = applied \cup {<<Here(r), run[r].todo[1]>>}
    BY <1>4 DEF ReplayEvent
  <2>2. CASE e = <<Here(r), run[r].todo[1]>>
    <3>1. row = Ev(r, 1).creates
      BY <2>2 DEF Ev
    <3> QED
      BY <3>1, <2>1
  <2> QED
    BY <2>1, <2>2, <1>1
<1> QED
  BY <1>2, <1>3, <1>4 DEF RecordMissing

\* writeEvents gives up an event for a missing row only when the event that
\* creates the row has been dealt with and left none.
LEMMA WriteAnswers ==
  ASSUME ScanInv, ParentInv, NEW r \in Runs, WriteBatch(r) \/ ReplayEvent(r) \/ RecordMissing(r)
  PROVE  GivenUpOnlyWithParent'
<1> DEFINE s == run[r]
           c == Here(r)
<1>1. s \in RunStates /\ RunInv(s, Settled) /\ run \in [Runs -> RunStates]
  BY DEF ScanInv, Types, RunInv
<1>2. c \in Contracts /\ c = CONTRACTS[s.ci]
  BY <1>1, HereFacts
<1>3. s.pc \in Writing /\ reported \subseteq reported'
  BY <1>1, WriteStep
<1>4. Parents(s, c, Settled) /\ RowsFollow
  BY DEF ParentInv
<1>5. ASSUME NEW i \in Indices(c), ReplayEvent(r), i = s.todo[1], Fails(Stream[c][i], rows),
             ~Stream[c][i].bad
      PROVE  IsReported(ParentOf(c, i))
  <2>1. Parent(Stream[c][i]) # None /\ Parent(Stream[c][i]) \notin rows
    BY <1>5 DEF Fails, Parent
  <2>2. 1 \in DOMAIN s.todo
    <3>1. s.left > 0 /\ s.left <= Len(s.todo) /\ s.left \in Nat /\ s.todo \in Seq(Nat)
      BY <1>1, <1>5 DEF ReplayEvent, RunInv, Buffers, RunStates
    <3> QED
      BY <3>1
  <2>3. ParentOf(c, i) \in Settled
    BY <2>1, <2>2, <1>3, <1>4, <1>5 DEF Parents
  <2> QED
    BY <2>1, <2>3, <1>2, <1>4, LostParent
<1>6. ASSUME NEW j \in s.zero, Stream[c][j].updates \notin rows
      PROVE  IsReported(ParentOf(c, j))
  <2>1. j \in Indices(c) /\ Stream[c][j].updates # None /\ ParentOf(c, j) \in Settled
    BY <1>3, <1>4 DEF Parents
  <2>2. Parent(Stream[c][j]) = Stream[c][j].updates
    BY <2>1, <1>2, StreamFacts DEF Parent, IsEvent
  <2> QED
    BY <2>1, <2>2, <1>2, <1>4, <1>6, LostParent
<1>7. ASSUME NEW x \in reported' \ reported, ~Stream[x[1]][x[2]].bad
      PROVE  IsReported(Creator(Parent(Stream[x[1]][x[2]])))
  <2>1. CASE ReplayEvent(r)
    <3>1. x = <<c, s.todo[1], "skip">> /\ Fails(Ev(r, 1), rows)
      BY <2>1, <1>7 DEF ReplayEvent
    <3>2. x[1] = c /\ x[2] = s.todo[1]
      BY <3>1
    <3>3. s.todo[1] \in Indices(c)
      <4>1. s.left > 0 /\ s.left <= Len(s.todo) /\ s.left \in Nat /\ s.todo \in Seq(Nat)
        BY <2>1, <1>1 DEF ReplayEvent, RunInv, Buffers, RunStates
      <4>2. 1 \in DOMAIN s.todo
        BY <4>1
      <4> QED
        BY <4>2, <1>1, <1>2, <1>3 DEF RunInv, Buffers, Scanning
    <3> QED
      BY <3>1, <3>2, <3>3, <2>1, <1>5, <1>7 DEF ParentOf, Ev
  <2>2. CASE RecordMissing(r)
    <3>1. PICK j \in s.zero : Stream[c][j].updates \notin rows /\ x = <<c, j, "missing-parent">>
      BY <2>2, <1>7 DEF RecordMissing
    <3>2. x[1] = c /\ x[2] = j
      BY <3>1
    <3> QED
      BY <3>1, <3>2, <1>6 DEF ParentOf
  <2>3. CASE WriteBatch(r)
    BY <2>3, <1>7 DEF WriteBatch
  <2> QED
    BY <2>1, <2>2, <2>3
<1> QED
  BY <1>3, <1>7, GivenUpKeeps DEF ParentInv

\* The steps of writeEvents keep the parents ahead.
LEMMA WriteParents ==
  ASSUME ScanInv, ParentInv, NEW r \in Runs, WriteBatch(r) \/ ReplayEvent(r) \/ RecordMissing(r)
  PROVE  ParentInv'
<1> DEFINE s == run[r]
           c == Here(r)
<1>1. s \in RunStates /\ RunInv(s, Settled) /\ run \in [Runs -> RunStates]
  BY DEF ScanInv, Types, RunInv
<1>2. c = CONTRACTS[s.ci] /\ Buffers(s, c)
  BY <1>1 DEF Here, RunInv
<1>3. /\ s.pc \in Writing /\ applied \subseteq applied' /\ reported \subseteq reported'
      /\ \/ \E t \in RunStates, n \in Nat : WritesSome(r, t, n)
         \/ ReplayEvent(r) /\ run' = [run EXCEPT ![r] = Deferred(s)]
  BY <1>1, WriteStep
<1>4. Settled \subseteq Settled'
  BY <1>3, Growth
<1>5. ASSUME NEW q \in Runs, q # r, NEW t, run' = [run EXCEPT ![r] = t]
      PROVE  Parents(run'[q], Here(q)', Settled')
  <2>1. run'[q] = run[q] /\ Here(q)' = Here(q)
    BY <1>1, <1>5 DEF Here
  <2>2. Parents(run[q], Here(q), Settled')
    BY <1>4, ParentsGrow DEF ParentInv
  <2> QED
    BY <2>1, <2>2
<1>6. ASSUME NEW t \in RunStates, NEW n \in Nat, WritesSome(r, t, n)
      PROVE  Parents(run'[r], Here(r)', Settled')
  <2>1. run'[r] = t
    BY <1>1, <1>6 DEF WritesSome
  <2>2. Shortened(s, t, n, c) /\ \A k \in 1 .. n : <<c, s.todo[k]>> \in Settled'
    BY <1>6 DEF WritesSome
  <2>3. Here(r)' = c
    BY <2>1, <2>2 DEF Here, Shortened
  <2>4. Parents(s, c, Settled)
    BY DEF ParentInv
  <2> HIDE DEF s, c
  <2>5. Parents(t, c, Settled')
    BY <2>2, <2>4, <1>1, <1>2, <1>3, <1>4, ShortenedParents
  <2> QED
    BY <2>1, <2>3, <2>5
<1>7. ASSUME run' = [run EXCEPT ![r] = Deferred(s)]
      PROVE  Parents(run'[r], Here(r)', Settled')
  <2>1. Deferred(s).pc = "end"
    BY <1>1 DEF Deferred, RunStates
  <2>2. run'[r] = Deferred(s)
    BY <1>1, <1>7
  <2> QED
    BY <2>1, <2>2 DEF Parents, Writing
<1>8. \A q \in Runs : Parents(run'[q], Here(q)', Settled')
  BY <1>3, <1>5, <1>6, <1>7 DEF WritesSome
<1>9. RowsFollow' /\ GivenUpOnlyWithParent'
  BY WriteRows, WriteAnswers DEF ParentInv
<1> QED
  BY <1>8, <1>9 DEF ParentInv

\* A page that is read has its parents in order and gives nothing up for a row.
LEMMA PageKeeps ==
  ASSUME ScanInv, ParentInv, NEW r \in Runs, NEW latest \in Ledgers, GetEvents(r, latest)
  PROVE  ParentInv'
<1>1. latest \in Nat /\ run \in [Runs -> RunStates] /\ RunInv(run[r], Settled)
  BY ConstantFacts DEF Ledgers, ScanInv, Types
<1>2. run' = [run EXCEPT ![r] = run'[r]] /\ run'[r].ci = run[r].ci
  BY <1>1, GetEventsKeeps
<1>3. UNCHANGED <<rows, applied>> /\ reported \subseteq reported'
  BY DEF GetEvents, TakePage
<1>4. Settled \subseteq Settled'
  BY <1>3, Growth
<1>5. ASSUME NEW x \in reported' \ reported PROVE x[3] = "unparseable"
  <2>1. PICK ids : reported' = reported \cup {<<Here(r), i, "unparseable">> : i \in ids}
    BY Zenon DEF GetEvents, TakePage
  <2> QED
    BY <2>1
<1>6. GivenUpOnlyWithParent'
  BY <1>3, <1>5, GivenUpKeeps DEF ParentInv
<1>7. ASSUME NEW q \in Runs PROVE Parents(run'[q], Here(q)', Settled')
  <2>1. CASE q = r
    <3>1. Here(r)' = Here(r)
      BY <1>2 DEF Here
    <3>2. Parents(run'[r], Here(r), Settled')
      BY <1>1, PageParents
    <3> QED
      BY <2>1, <3>1, <3>2
  <2>2. CASE q # r
    <3>1. run'[q] = run[q] /\ Here(q)' = Here(q)
      BY <2>2, <1>1, <1>2 DEF Here
    <3>2. Parents(run[q], Here(q), Settled')
      BY <1>4, ParentsGrow DEF ParentInv
    <3> QED
      BY <3>1, <3>2
  <2> QED
    BY <2>1, <2>2
<1>8. RowsFollow'
  BY <1>3 DEF ParentInv, RowsFollow
<1> QED
  BY <1>6, <1>7, <1>8 DEF ParentInv

\* No run writes and nothing is given up at the start.
LEMMA ParentInvInit == Init => ParentInv
<1> SUFFICES ASSUME Init PROVE ParentInv
  OBVIOUS
<1>1. \A r \in Runs : run[r].pc = "idle"
  BY IdleFacts DEF Init
<1>2. \A r \in Runs : Parents(run[r], Here(r), Settled)
  BY <1>1 DEF Parents, Writing
<1>3. RowsFollow /\ GivenUpOnlyWithParent
  BY DEF Init, RowsFollow, GivenUpOnlyWithParent
<1> QED
  BY <1>2, <1>3 DEF ParentInv

\* Every step keeps the parents ahead.
LEMMA ParentInvNext == ScanInv /\ ParentInv /\ [Next]_vars => ParentInv'
<1> SUFFICES ASSUME ScanInv, ParentInv, [Next]_vars PROVE ParentInv'
  OBVIOUS
<1>1. ASSUME Quiet, UNCHANGED reported PROVE ParentInv'
  <2>1. GivenUpOnlyWithParent'
    BY <1>1, GivenUpKeeps DEF ParentInv
  <2> QED
    BY <2>1, <1>1, QuietKeeps
<1>2. CASE CloseLedger \/ RetentionMoves \/ LockAges \/ UNCHANGED vars
  <2>1. UNCHANGED <<rows, applied, reported, run>>
    BY <1>2 DEF CloseLedger, RetentionMoves, LockAges, vars, db
  <2>2. Quiet
    BY <2>1 DEF Quiet
  <2> QED
    BY <2>1, <2>2, <1>1
<1>3. ASSUME NEW r \in Runs,
             \/ AcquireLock(r) \/ ReleaseLock(r) \/ Crash(r) \/ ReadCheckpoints(r)
             \/ (\E latest \in Ledgers : GetHealth(r, latest)) \/ SaveClamp(r)
             \/ EndContract(r) \/ StopScan(r) \/ OutOfRange(r) \/ Throw(r) \/ Advance(r)
      PROVE  ParentInv'
  <2>1. UNCHANGED reported
    BY <1>3 DEF AcquireLock, ReleaseLock, Crash, ReadCheckpoints, GetHealth, SaveClamp,
       EndContract, StopScan, OutOfRange, Throw, Advance, db
  <2>2. Quiet
    BY <1>3, QuietSteps
  <2> QED
    BY <2>1, <2>2, <1>1
<1>4. ASSUME NEW r \in Runs, BeginContract(r) PROVE ParentInv'
  <2>1. Quiet
    BY <1>4, QuietSteps
  <2>2. \/ reported' = reported
        \/ \E ids : reported' = reported \cup {<<Here(r), i, "retention-clamp">> : i \in ids}
    BY <1>4, Zenon DEF BeginContract
  <2>3. reported \subseteq reported' /\ \A x \in reported' \ reported : x[3] = "retention-clamp"
    BY <2>2
  <2>4. GivenUpOnlyWithParent'
    BY <2>3, GivenUpKeeps DEF ParentInv
  <2> QED
    BY <2>1, <2>3, <2>4, QuietKeeps
<1>5. ASSUME NEW r \in Runs, WriteBatch(r) \/ ReplayEvent(r) \/ RecordMissing(r)
      PROVE  ParentInv'
  BY <1>5, WriteParents
<1>6. ASSUME NEW r \in Runs, NEW latest \in Ledgers, GetEvents(r, latest)
      PROVE  ParentInv'
  BY <1>6, PageKeeps
<1> QED
  BY <1>2, <1>3, <1>4, <1>5, <1>6 DEF Next, Step

\* No event is given up because its agent, feedback or request row is missing
\* unless the event that creates the row was itself reported: parentsFirst, the
\* events held back at the end of a page and the cap on the head of the dependent
\* contracts suffice, whatever the limits, faults and overlapping runs.
THEOREM ParentsComeFirst == Spec => []GivenUpOnlyWithParent
<1>1. Init => ScanInv /\ ParentInv
  BY ScanInvInit, ParentInvInit
<1>2. (ScanInv /\ ParentInv) /\ [Next]_vars => (ScanInv /\ ParentInv)'
  BY ScanInvNext, ParentInvNext
<1>3. ScanInv /\ ParentInv => GivenUpOnlyWithParent
  BY DEF ParentInv
<1> QED
  BY <1>1, <1>2, <1>3, PTL DEF Spec

=============================================================================
