-------------------------- MODULE ResultStoreProofs --------------------------
(***************************************************************************)
(* Theorems about ResultStore, for any number of packets, workers, bytes,  *)
(* records, readers, attempts, kills and faults.                           *)
(***************************************************************************)
EXTENDS ResultStore, FiniteSetTheorems, WellFoundedInduction, TLAPS

Inside == {"scan", "temp", "linked"}
Storing == {"root", "lock", "wait"} \union Inside

\* Who is in the middle of a locked write holds the lock, and nobody else does.
LockInv ==
    /\ \A p \in Packets : at[p] \in Inside <=> holder = p
    /\ pc = "down" => \A p \in Packets : at[p] = "out"

\* A store without its lock file is empty; there is at most one temporary.
DiskInv ==
    /\ store # "ready" => records = {} /\ temps = {}
    /\ \A p \in Packets : at[p] = "wait" \/ at[p] \in Inside => store = "ready"
    /\ \A t, u \in temps : t = u
    /\ \A t \in temps : t.linked <=> t.id \in records
    /\ IsFiniteSet(records) /\ Cardinality(records) <= MaxRecords

\* How far the write under way has come.
WriteInv ==
    \A p \in Packets :
        /\ at[p] = "scan" => temps = {}
        /\ at[p] = "temp" => temps = {Temp(p, FALSE)} /\ Cardinality(records) < MaxRecords
        /\ at[p] = "linked" => temps = {Temp(p, TRUE)}

\* What is still to be stored is not there yet: identities are used once.
Fresh(p, s) == <<p, s, attempt>> \notin records

FreshInv ==
    /\ \A id \in records : id[3] <= attempt
    /\ \A p \in Packets, s \in Streams :
         pc = "map" /\ at[p] = "out" /\ ~failure /\ table[p] # "completed" => Fresh(p, s)
    /\ \A p \in Packets, s \in Streams :
         /\ at[p] \notin {"out", "done"} /\ kept[<<p, s>>] \in {"none", "held"}
         /\ at[p] = "linked" => s # Current(p)
         => Fresh(p, s)

\* What became of each stream, from the thread to its collection.
KeptInv ==
    /\ \A p \in Packets, s \in Streams : at[p] = "out" => kept[<<p, s>>] = "none"
    /\ \A p \in Packets : at[p] \in Storing => kept[<<p, Current(p)>>] = "held"
    /\ \A p \in Packets, s \in Streams : at[p] = "done" /\ ~hard[p] => kept[<<p, s>>] # "held"
    /\ \A p \in Packets, s \in Streams : kept[<<p, s>>] = "stored" => ~Fresh(p, s)
    /\ \A p \in Packets : result[p] = "raised" => hard[p]

\* A reader looks at ids that are there, or will find nothing and expect nothing;
\* one that missed the lock file will find it.
ReaderInv ==
    \A r \in Readers :
        /\ verdict[r] # "invalid" /\ Resolves(snapshot[r])
        /\ verdict[r] = "missing" => store = "ready" /\ reader[r] # "list"
        /\ reader[r] = "lock" => store = "ready"

\* Reservations are of running threads, and of one size; two for each packet
\* of the wave fit into the budget.
BudgetInv ==
    /\ \A p \in Packets, s \in Streams :
         <<p, s>> \in held => at[p] \notin {"out", "done"} /\ kept[<<p, s>>] # "none"
    /\ used = size * Cardinality(held)
    /\ size * (2 * Cardinality(Wave)) <= MaxTransient
    /\ BudgetNeverExhausted

IInv == /\ TypeOK /\ LockInv /\ DiskInv /\ WriteInv /\ FreshInv /\ KeptInv /\ Resolves(State) /\ ReaderInv
        /\ BudgetInv

-----------------------------------------------------------------------------
(* Arithmetic and cardinalities. *)

LEMMA Least ==
    ASSUME NEW S \in SUBSET Nat, S # {}
    PROVE  \E x \in S : \A y \in S : ~(y < x)
<1>1. IsWellFoundedOn(OpToRel(<, Nat), Nat)
  BY NatLessThanWellFounded
<1>2. PICK x \in S : \A y \in S : ~(<<y, x>> \in OpToRel(<, Nat))
  BY <1>1, WFMin
<1> QED
  BY <1>2 DEF OpToRel

LEMMA Division ==
    ASSUME NEW r \in Nat, NEW n \in Nat \ {0}
    PROVE  r \div n \in Nat /\ (r \div n) * n <= r
  OBVIOUS

LEMMA SmallerFactor ==
    ASSUME NEW a \in Nat, NEW b \in Nat, NEW n \in Nat, a <= b
    PROVE  a * n <= b * n /\ n * a <= n * b
  OBVIOUS

LEMMA OneMore ==
    ASSUME NEW a \in Nat, NEW n \in Nat
    PROVE  a * (n + 1) = a * n + a /\ a * n \in Nat
  OBVIOUS

LEMMA Less ==
    ASSUME NEW a \in Nat, NEW n \in Nat, NEW m \in Nat, m <= n
    PROVE  a * n - a * m = a * (n - m) /\ n - m \in Nat
  OBVIOUS

LEMMA AddOne ==
    ASSUME NEW S, NEW x, IsFiniteSet(S)
    PROVE  /\ IsFiniteSet(S \cup {x}) /\ Cardinality(S) \in Nat
           /\ Cardinality(S \cup {x}) \in Nat /\ Cardinality(S \cup {x}) <= Cardinality(S) + 1
<1>1. IsFiniteSet(S \cup {x}) /\ Cardinality(S) \in Nat /\ Cardinality(S \cup {x}) \in Nat
  BY FS_AddElement, FS_CardinalityType
<1>2. Cardinality(S \cup {x}) = IF x \in S THEN Cardinality(S) ELSE Cardinality(S) + 1
  BY FS_AddElement
<1> QED
  BY <1>1, <1>2

LEMMA PacketSets ==
    ASSUME NEW S \in SUBSET Packets
    PROVE  /\ IsFiniteSet(S) /\ Cardinality(S) \in Nat
           /\ Cardinality(S) = 0 <=> S = {}
<1>1. IsFiniteSet(Packets)
  BY StoreAssumption, FS_Interval DEF Packets
<1>2. IsFiniteSet(S)
  BY <1>1, FS_Subset
<1> QED
  BY <1>2, FS_CardinalityType, FS_EmptySet

LEMMA TwoStreams ==
    ASSUME NEW S \in SUBSET Packets
    PROVE  IsFiniteSet(S \X Streams) /\ Cardinality(S \X Streams) = 2 * Cardinality(S)
<1>1. IsFiniteSet({"out"}) /\ Cardinality({"out"}) = 1
  BY FS_Singleton
<1>2. IsFiniteSet(Streams) /\ Cardinality(Streams) = 2
  <2>1. Streams = {"out"} \cup {"err"}
    BY DEF Streams
  <2> QED
    BY <1>1, <2>1, FS_AddElement
<1>3. IsFiniteSet(S) /\ Cardinality(S) \in Nat
  BY PacketSets
<1>4. IsFiniteSet(S \X Streams) /\ Cardinality(S \X Streams) = Cardinality(S) * Cardinality(Streams)
  BY <1>2, <1>3, FS_Product
<1> QED
  BY <1>2, <1>3, <1>4

LEMMA SpoolSets ==
    ASSUME NEW S \in SUBSET Spools
    PROVE  IsFiniteSet(S) /\ Cardinality(S) \in Nat
<1>1. IsFiniteSet(Spools)
  BY TwoStreams DEF Spools
<1> QED
  BY <1>1, FS_Subset, FS_CardinalityType

LEMMA WaveNotEmpty ==
    ASSUME Pending # {}
    PROVE  FirstOf(Pending) \in SUBSET Packets /\ FirstOf(Pending) # {}
<1>1. Pending \in SUBSET Nat
  BY DEF Pending, Packets
<1>2. PICK k \in Pending : \A j \in Pending : ~(j < k)
  BY <1>1, Least
<1>3. {j \in Pending : j < k} = {}
  BY <1>2
<1>4. Cardinality({j \in Pending : j < k}) < Workers
  BY <1>3, FS_EmptySet, StoreAssumption
<1> QED
  BY <1>2, <1>4 DEF FirstOf, Pending

\* Two captures for each of n packets fit into the budget.
LEMMA ShareFits ==
    ASSUME NEW n \in Nat \ {0}
    PROVE  Share(n) \in Nat /\ Share(n) * (2 * n) <= MaxTransient
<1> DEFINE d == 2 * n
           q == MaxTransient \div d
<1>1. MaxTransient \in Nat /\ MaxCapture \in Nat /\ d \in Nat \ {0}
  BY StoreAssumption
<1>2. q \in Nat /\ q * d <= MaxTransient
  BY <1>1, Division
<1>3. Share(n) = IF MaxCapture < q THEN MaxCapture ELSE q
  BY DEF Share, Smaller
<1>4. Share(n) \in Nat /\ Share(n) <= q
  BY <1>1, <1>2, <1>3
<1> HIDE DEF q, d
<1>5. Share(n) * d <= q * d /\ Share(n) * d \in Nat /\ q * d \in Nat
  BY <1>1, <1>2, <1>4, SmallerFactor
<1>6. Share(n) * d <= MaxTransient
  BY <1>1, <1>2, <1>5
<1> QED
  BY <1>4, <1>6 DEF d
-----------------------------------------------------------------------------
LEMMA Initially == Init => IInv
<1> SUFFICES ASSUME Init PROVE IInv
  OBVIOUS
<1> USE StoreAssumption DEF Init, Nobody, Nothing, Start
<1>1. TypeOK
  <2>1. Start \in Snapshots /\ attempt \in 0..MaxAttempts
    BY DEF Snapshots
  <2>2. kills \in 0..MaxKills /\ faults \in 0..MaxFaults /\ used \in 0..MaxTransient
    OBVIOUS
  <2>3. reader \in [Readers -> {"out", "look", "list", "lock"}] /\ snapshot \in [Readers -> Snapshots]
    BY <2>1
  <2>4. kept \in [Spools -> {"none", "held", "budget", "lost", "stored", "quota", "storage"}]
    OBVIOUS
  <2> QED
    BY <2>1, <2>2, <2>3, <2>4 DEF TypeOK
<1>2. LockInv /\ FreshInv /\ KeptInv /\ ReaderInv
  BY DEF LockInv, FreshInv, KeptInv, ReaderInv, Resolves, Inside, Storing, Spools
<1>3. DiskInv /\ WriteInv
  BY FS_EmptySet DEF DiskInv, WriteInv, Inside
<1>4. Resolves(State)
  BY DEF Resolves, State
<1>5. BudgetInv
  BY FS_EmptySet, PacketSets DEF BudgetInv, Wave, BudgetNeverExhausted
<1> QED
  BY <1>1, <1>2, <1>3, <1>4, <1>5 DEF IInv
-----------------------------------------------------------------------------
(* What a step of one thread leaves alone. *)

LEMMA ReaderFrame ==
    ASSUME ReaderInv, UNCHANGED inspect, records \subseteq records',
           store = "ready" => store' = "ready"
    PROVE  ReaderInv'
  BY DEF ReaderInv, Resolves, inspect

LEMMA RefFrame ==
    ASSUME Resolves(State), UNCHANGED <<refs, attempt>>, records \subseteq records'
    PROVE  Resolves(State)'
  BY DEF Resolves, State

LEMMA SameIds ==
    ASSUME UNCHANGED <<kept, attempt>>, NEW q
    PROVE  /\ Current(q)' = Current(q)
           /\ \A b \in BOOLEAN : Temp(q, b)' = Temp(q, b)
  BY DEF Current, Left, Temp, Id

LEMMA OtherIds ==
    ASSUME TypeOK, NEW p \in Packets, NEW q \in Packets, q # p, NEW what,
           Note(p, what), UNCHANGED attempt
    PROVE  /\ Current(q)' = Current(q)
           /\ \A b \in BOOLEAN : Temp(q, b)' = Temp(q, b)
           /\ \A s \in Streams : kept'[<<q, s>>] = kept[<<q, s>>]
<1>1. \A s \in Streams : kept'[<<q, s>>] = kept[<<q, s>>]
  BY DEF Note, TypeOK, Spools
<1>2. Left(q)' = Left(q)
  BY <1>1 DEF Left
<1> QED
  BY <1>1, <1>2 DEF Current, Temp, Id

LEMMA CurrentIsStream ==
    ASSUME NEW p \in Packets
    PROVE  Current(p) \in Streams /\ <<p, Current(p)>> \in Spools
  BY DEF Current, Streams, Spools

LEMMA IdType ==
    ASSUME TypeOK, NEW p \in Packets
    PROVE  Id(p) \in Ids /\ \A b \in BOOLEAN : Temp(p, b) \in [id : Ids, linked : BOOLEAN]
<1>1. Id(p) \in Ids
  BY CurrentIsStream DEF Id, Ids, TypeOK
<1> QED
  BY <1>1 DEF Temp

\* A thread in the middle of its work takes a step of it.
StepsTo(p, label) ==
    /\ at[p] \notin {"out", "done"} /\ label \notin {"out", "done"} /\ Become(p, label)

LEMMA BudgetFrame ==
    ASSUME IInv, NEW p \in Packets, NEW label, StepsTo(p, label), UNCHANGED budget,
           \A x \in Spools : kept'[x] # "budget" /\ (kept[x] # "none" => kept'[x] # "none")
    PROVE  BudgetInv'
<1>1. Wave' = Wave
  BY DEF Wave, StepsTo, Become, IInv, TypeOK
<1>2. \A q \in Packets, s \in Streams :
        <<q, s>> \in held' => at'[q] \notin {"out", "done"} /\ kept'[<<q, s>>] # "none"
  BY DEF IInv, BudgetInv, StepsTo, Become, TypeOK, budget, Spools
<1> QED
  BY <1>1, <1>2 DEF IInv, BudgetInv, BudgetNeverExhausted, budget

LEMMA BudgetSame ==
    ASSUME IInv, NEW p \in Packets, NEW label, StepsTo(p, label), UNCHANGED <<kept, budget>>
    PROVE  BudgetInv'
  BY BudgetFrame DEF IInv, BudgetInv, BudgetNeverExhausted

LEMMA WriteSame ==
    ASSUME WriteInv, UNCHANGED <<records, temps, kept, attempt>>,
           \A p \in Packets : at'[p] \in Inside => at'[p] = at[p]
    PROVE  WriteInv'
<1> SUFFICES ASSUME NEW p \in Packets
             PROVE  /\ at'[p] = "scan" => temps' = {}
                    /\ at'[p] = "temp" => temps' = {Temp(p, FALSE)'}
                                          /\ Cardinality(records') < MaxRecords
                    /\ at'[p] = "linked" => temps' = {Temp(p, TRUE)'}
  BY DEF WriteInv
<1>1. Temp(p, TRUE)' = Temp(p, TRUE) /\ Temp(p, FALSE)' = Temp(p, FALSE)
  BY SameIds
<1> QED
  BY <1>1 DEF WriteInv, Inside

\* The thread that writes is the only one.
LEMMA WriteOf ==
    ASSUME LockInv', NEW p \in Packets, holder' = p,
           at'[p] = "scan" => temps' = {},
           at'[p] = "temp" => temps' = {Temp(p, FALSE)'} /\ Cardinality(records') < MaxRecords,
           at'[p] = "linked" => temps' = {Temp(p, TRUE)'}
    PROVE  WriteInv'
<1>1. \A q \in Packets : at'[q] \in Inside => q = p
  BY DEF LockInv
<1> QED
  BY <1>1 DEF WriteInv, Inside

\* Nobody writes.
LEMMA WriteNone ==
    ASSUME LockInv', holder' = None
    PROVE  WriteInv'
  BY StoreAssumption DEF LockInv, WriteInv, Inside

-----------------------------------------------------------------------------
(* One lemma per action. *)

LEMMA MakeRootKeeps ==
    ASSUME IInv, NEW p \in Packets, MakeRoot(p)
    PROVE  IInv'
<1> USE DEF IInv, MakeRoot, Become, state, main, budget, inspect, counts
<1>1. TypeOK'
  BY DEF TypeOK
<1>2. LockInv' /\ DiskInv'
  BY DEF LockInv, DiskInv, Inside, TypeOK
<1>6. WriteInv'
  BY WriteSame DEF Inside, TypeOK
<1>3. FreshInv' /\ KeptInv'
  BY SameIds DEF FreshInv, KeptInv, Fresh, Storing, Inside, TypeOK
<1>4. Resolves(State)' /\ ReaderInv'
  BY RefFrame, ReaderFrame
<1>5. BudgetInv'
  BY BudgetSame DEF StepsTo
<1> QED
  BY <1>1, <1>2, <1>3, <1>4, <1>5, <1>6 DEF IInv

LEMMA MakeLockKeeps ==
    ASSUME IInv, NEW p \in Packets, MakeLock(p)
    PROVE  IInv'
<1> USE DEF IInv, MakeLock, Become, state, main, budget, inspect, counts
<1>1. TypeOK'
  BY DEF TypeOK
<1>2. LockInv' /\ DiskInv'
  BY DEF LockInv, DiskInv, Inside, TypeOK
<1>6. WriteInv'
  BY WriteSame DEF Inside, TypeOK
<1>3. FreshInv' /\ KeptInv'
  BY SameIds DEF FreshInv, KeptInv, Fresh, Storing, Inside, TypeOK
<1>4. Resolves(State)' /\ ReaderInv'
  BY RefFrame, ReaderFrame
<1>5. BudgetInv'
  BY BudgetSame DEF StepsTo
<1> QED
  BY <1>1, <1>2, <1>3, <1>4, <1>5, <1>6 DEF IInv

LEMMA LockKeeps ==
    ASSUME IInv, NEW p \in Packets, Lock(p)
    PROVE  IInv'
<1> USE DEF IInv, Lock, Become, Unlocked, Recover, state, main, budget, inspect, counts
<1>1. TypeOK'
  BY DEF TypeOK
<1>2. LockInv'
  BY StoreAssumption DEF LockInv, Inside, TypeOK
<1>3. DiskInv'
  BY DEF DiskInv, Inside, TypeOK
<1>7. WriteInv'
  BY <1>2, WriteOf DEF TypeOK
<1>4. FreshInv' /\ KeptInv'
  BY SameIds DEF FreshInv, KeptInv, Fresh, Storing, Inside, TypeOK
<1>5. Resolves(State)' /\ ReaderInv'
  BY RefFrame, ReaderFrame
<1>6. BudgetInv'
  BY BudgetSame DEF StepsTo
<1> QED
  BY <1>1, <1>2, <1>3, <1>4, <1>5, <1>6, <1>7 DEF IInv

LEMMA StageKeeps ==
    ASSUME IInv, NEW p \in Packets, Stage(p)
    PROVE  IInv'
<1> USE DEF IInv, Stage, Become, state, main, budget, inspect, counts
<1>1. TypeOK'
  BY IdType DEF TypeOK
<1>2. LockInv'
  BY DEF LockInv, Inside, TypeOK
<1>3. DiskInv' /\ WriteInv'
  <2>1. temps' = {Temp(p, FALSE)} /\ store = "ready"
    BY DEF DiskInv, WriteInv, Inside
  <2>2. Id(p) \notin records
    BY CurrentIsStream DEF FreshInv, KeptInv, Fresh, Storing, Inside, Id
  <2>3. \A t \in temps' : t.linked <=> t.id \in records'
    BY <2>1, <2>2 DEF Temp
  <2>4. DiskInv'
    BY <2>1, <2>3 DEF DiskInv, Inside, TypeOK
  <2>5. temps' = {Temp(p, FALSE)'}
    BY <2>1, SameIds
  <2>6. at'[p] = "temp" /\ holder' = p
    BY DEF LockInv, Inside, TypeOK
  <2> QED
    BY <1>2, <2>4, <2>5, <2>6, WriteOf
<1>4. FreshInv' /\ KeptInv'
  BY SameIds DEF FreshInv, KeptInv, Fresh, Storing, Inside, TypeOK
<1>5. Resolves(State)' /\ ReaderInv'
  BY RefFrame, ReaderFrame
<1>6. BudgetInv'
  BY BudgetSame DEF StepsTo
<1> QED
  BY <1>1, <1>2, <1>3, <1>4, <1>5, <1>6 DEF IInv

LEMMA LinkKeeps ==
    ASSUME IInv, NEW p \in Packets, Link(p)
    PROVE  IInv'
<1> USE DEF IInv, Link, Become, state, main, budget, inspect, counts
<1>1. TypeOK'
  BY IdType DEF TypeOK
<1>2. LockInv'
  BY DEF LockInv, Inside, TypeOK
<1>3. DiskInv' /\ WriteInv'
  <2>1. temps = {Temp(p, FALSE)} /\ store = "ready" /\ Cardinality(records) < MaxRecords
    BY DEF DiskInv, WriteInv, Inside
  <2>2. IsFiniteSet(records)
    BY DEF DiskInv
  <2>3. /\ IsFiniteSet(records') /\ Cardinality(records) \in Nat
        /\ Cardinality(records') \in Nat /\ Cardinality(records') <= Cardinality(records) + 1
    BY <2>2, AddOne
  <2>4. IsFiniteSet(records') /\ Cardinality(records') <= MaxRecords
    BY <2>1, <2>3, StoreAssumption
  <2>5. temps' = {Temp(p, TRUE)}
    BY <2>1
  <2>6. \A t \in temps' : t.linked <=> t.id \in records'
    BY <2>5 DEF Temp
  <2>7. DiskInv'
    BY <2>1, <2>4, <2>5, <2>6 DEF DiskInv, Inside, TypeOK
  <2>8. temps' = {Temp(p, TRUE)'}
    BY <2>5, SameIds
  <2>9. at'[p] = "linked" /\ holder' = p
    BY DEF LockInv, Inside, TypeOK
  <2> QED
    BY <1>2, <2>7, <2>8, <2>9, WriteOf
<1>4. FreshInv'
  <2>1. \A q \in Packets, s \in Streams : Fresh(q, s) /\ ~(q = p /\ s = Current(p)) => Fresh(q, s)'
    BY DEF Fresh, Id
  <2>2. \A id \in records' : id[3] <= attempt'
    BY DEF FreshInv, Id, TypeOK
  <2> QED
    BY <2>1, <2>2, SameIds DEF FreshInv, TypeOK
<1>5. KeptInv'
  BY SameIds DEF KeptInv, Fresh, Storing, Inside, TypeOK
<1>6. Resolves(State)' /\ ReaderInv'
  BY RefFrame, ReaderFrame
<1>7. BudgetInv'
  BY BudgetSame DEF StepsTo
<1> QED
  BY <1>1, <1>2, <1>3, <1>4, <1>5, <1>6, <1>7 DEF IInv

-----------------------------------------------------------------------------
(* The three ways a stream or a thread is done with. *)

\* A stream gets its reason or its id.
LEMMA NoteKeeps ==
    ASSUME IInv, NEW p \in Packets, at[p] \in Storing,
           NEW what \in {"stored", "quota", "storage"}, Note(p, what),
           what = "stored" => Id(p) \in records,
           Become(p, "keep"),
           UNCHANGED <<records, attempt, pc, failure, table, result, hard, budget>>
    PROVE  /\ kept' \in [Spools -> {"none", "held", "budget", "lost", "stored", "quota",
                                    "storage"}]
           /\ FreshInv' /\ KeptInv' /\ BudgetInv'
<1> USE DEF IInv, Become, Note
<1>1. kept' \in [Spools -> {"none", "held", "budget", "lost", "stored", "quota", "storage"}]
  BY CurrentIsStream DEF TypeOK
<1>2. at' \in [Packets -> {"out", "run", "keep", "root", "lock", "wait", "scan", "temp", "linked",
                          "done"}]
  BY DEF TypeOK
<1>3. \A q \in Packets, s \in Streams :
        kept'[<<q, s>>] = IF q = p /\ s = Current(p) THEN what ELSE kept[<<q, s>>]
  BY CurrentIsStream DEF TypeOK, Spools
<1>4. \A q \in Packets : q # p => at'[q] = at[q] /\ Current(q)' = Current(q)
  BY OtherIds DEF TypeOK
<1>5. at'[p] = "keep" /\ at[p] \notin {"out", "done"}
  BY DEF TypeOK, Storing, Inside
<1>6. FreshInv'
  <2>1. \A id \in records' : id[3] <= attempt'
    BY DEF FreshInv
  <2>2. \A q \in Packets, s \in Streams :
          pc' = "map" /\ at'[q] = "out" /\ ~failure' /\ table'[q] # "completed" => Fresh(q, s)'
    BY <1>4, <1>5 DEF FreshInv, Fresh
  <2>3. ASSUME NEW q \in Packets, NEW s \in Streams,
               at'[q] \notin {"out", "done"}, kept'[<<q, s>>] \in {"none", "held"},
               at'[q] = "linked" => s # Current(q)'
        PROVE  Fresh(q, s)'
    <3>1. CASE q = p
      BY <1>3, <1>5, <2>3, <3>1 DEF FreshInv, Fresh
    <3>2. CASE q # p
      BY <1>3, <1>4, <2>3, <3>2 DEF FreshInv, Fresh
    <3> QED
      BY <3>1, <3>2
  <2> QED
    BY <2>1, <2>2, <2>3 DEF FreshInv
<1>7. KeptInv'
  <2>1. \A q \in Packets : at'[q] \in Storing => kept'[<<q, Current(q)'>>] = "held"
    BY <1>3, <1>4, <1>5, CurrentIsStream DEF KeptInv, Storing, Inside
  <2>2. \A q \in Packets, s \in Streams : kept'[<<q, s>>] = "stored" => ~Fresh(q, s)'
    BY <1>3 DEF KeptInv, Fresh, Id
  <2>3. \A q \in Packets, s \in Streams :
          /\ at'[q] = "out" => kept'[<<q, s>>] = "none"
          /\ at'[q] = "done" /\ ~hard'[q] => kept'[<<q, s>>] # "held"
    <3> SUFFICES ASSUME NEW q \in Packets, NEW s \in Streams
                 PROVE  /\ at'[q] = "out" => kept'[<<q, s>>] = "none"
                        /\ at'[q] = "done" /\ ~hard'[q] => kept'[<<q, s>>] # "held"
      OBVIOUS
    <3>1. CASE q = p
      <4>1. at'[q] # "out" /\ at'[q] # "done"
        BY <1>5, <3>1
      <4> QED
        BY ONLY <4>1
    <3>2. CASE q # p
      <4>1. at'[q] = at[q] /\ kept'[<<q, s>>] = kept[<<q, s>>] /\ hard'[q] = hard[q]
        BY <1>3, <1>4, <3>2
      <4>2. /\ at[q] = "out" => kept[<<q, s>>] = "none"
            /\ at[q] = "done" /\ ~hard[q] => kept[<<q, s>>] # "held"
        BY DEF KeptInv
      <4> QED
        BY ONLY <4>1, <4>2
    <3> QED
      BY <3>1, <3>2
  <2> QED
    BY <2>1, <2>2, <2>3 DEF KeptInv
<1>8. BudgetInv'
  <2>1. \A x \in Spools : kept'[x] # "budget" /\ (kept[x] # "none" => kept'[x] # "none")
    BY DEF BudgetInv, BudgetNeverExhausted, TypeOK
  <2> QED
    BY <1>5, <2>1, BudgetFrame DEF StepsTo
<1> QED
  BY <1>1, <1>6, <1>7, <1>8

\* Reservations are given back once.
LEMMA ReleaseKeeps ==
    ASSUME IInv, NEW S, Release(S), size' = size
    PROVE  /\ held' = held \ S /\ held' \subseteq Spools
           /\ used' = size * Cardinality(held') /\ used' \in 0..MaxTransient
<1>1. held \in SUBSET Spools /\ held' = held \ S /\ size \in Nat /\ used \in 0..MaxTransient
  BY DEF IInv, TypeOK, Release
<1>2. IsFiniteSet(held) /\ Cardinality(held) \in Nat
  BY <1>1, SpoolSets
<1>3. /\ Cardinality(held') = Cardinality(held) - Cardinality(held \cap S)
      /\ Cardinality(held \cap S) <= Cardinality(held)
  BY <1>1, <1>2, FS_Difference, FS_Intersection
<1>4. Cardinality(held \cap S) \in Nat /\ Cardinality(held') \in Nat
  BY <1>1, SpoolSets
<1>5. used' = size * Cardinality(held) - size * Cardinality(held \cap S)
  BY DEF IInv, BudgetInv, Release
<1>6. used' = size * Cardinality(held')
  BY <1>1, <1>2, <1>3, <1>4, <1>5, Less
<1>7. size * Cardinality(held') <= size * Cardinality(held)
  BY <1>1, <1>2, <1>3, <1>4, SmallerFactor
<1>8. used = size * Cardinality(held) /\ size * Cardinality(held') \in Nat
  BY <1>1, <1>4, OneMore DEF IInv, BudgetInv
<1> QED
  BY <1>1, <1>6, <1>7, <1>8, StoreAssumption

\* An exception ends the thread.
LEMMA RaisedKeeps ==
    ASSUME IInv, NEW p \in Packets, at[p] \notin {"out", "done"},
           result' = [result EXCEPT ![p] = "raised"], hard' = [hard EXCEPT ![p] = TRUE],
           Release(Of(p)), Become(p, "done"),
           UNCHANGED <<records, attempt, pc, failure, table, kept, size>>
    PROVE  /\ held' \subseteq Spools /\ used' \in 0..MaxTransient
           /\ FreshInv' /\ KeptInv' /\ BudgetInv'
<1> USE DEF IInv, Become
<1>1. held' = held \ Of(p) /\ held' \subseteq Spools /\ used' = size * Cardinality(held')
      /\ used' \in 0..MaxTransient
  BY ReleaseKeeps
<1>2. FreshInv'
  BY SameIds DEF FreshInv, Fresh, TypeOK
<1>3. KeptInv'
  BY SameIds DEF KeptInv, Fresh, Storing, Inside, TypeOK
<1>4. BudgetInv'
  <2>1. Wave' = Wave
    BY DEF Wave, TypeOK
  <2>2. \A q \in Packets, s \in Streams :
          <<q, s>> \in held' => at'[q] \notin {"out", "done"} /\ kept'[<<q, s>>] # "none"
    BY <1>1 DEF BudgetInv, Of, TypeOK
  <2> QED
    BY <1>1, <2>1, <2>2 DEF BudgetInv, BudgetNeverExhausted
<1> QED
  BY <1>1, <1>2, <1>3, <1>4

-----------------------------------------------------------------------------
LEMMA OverQuotaKeeps ==
    ASSUME IInv, NEW p \in Packets, OverQuota(p)
    PROVE  IInv'
<1> USE DEF IInv, OverQuota, Become, Unlock, state, main, inspect, counts
<1>1. FreshInv' /\ KeptInv' /\ BudgetInv'
      /\ kept' \in [Spools -> {"none", "held", "budget", "lost", "stored", "quota", "storage"}]
  BY NoteKeeps DEF Storing, Inside, disk, budget
<1>2. TypeOK'
  BY <1>1 DEF TypeOK, disk, budget
<1>3. LockInv'
  BY StoreAssumption DEF LockInv, Inside, TypeOK
<1>4. DiskInv' /\ WriteInv'
  BY <1>3, WriteNone DEF DiskInv, Inside, TypeOK, disk
<1>5. Resolves(State)' /\ ReaderInv'
  BY RefFrame, ReaderFrame DEF disk
<1> QED
  BY <1>1, <1>2, <1>3, <1>4, <1>5 DEF IInv

LEMMA FinishKeeps ==
    ASSUME IInv, NEW p \in Packets, Finish(p)
    PROVE  IInv'
<1> USE DEF IInv, Finish, Become, Unlock, state, main, inspect, counts
<1>1. Id(p) \in records /\ store = "ready"
  <2>1. temps = {Temp(p, TRUE)} /\ store = "ready"
    BY DEF WriteInv, DiskInv, Inside
  <2>2. Temp(p, TRUE) \in temps /\ Temp(p, TRUE).linked /\ Temp(p, TRUE).id = Id(p)
    BY <2>1 DEF Temp
  <2> QED
    BY <2>1, <2>2 DEF DiskInv
<1>2. FreshInv' /\ KeptInv' /\ BudgetInv'
      /\ kept' \in [Spools -> {"none", "held", "budget", "lost", "stored", "quota", "storage"}]
  BY <1>1, NoteKeeps DEF Storing, Inside
<1>3. TypeOK'
  BY <1>2 DEF TypeOK, budget
<1>4. LockInv'
  BY StoreAssumption DEF LockInv, Inside, TypeOK
<1>5. DiskInv' /\ WriteInv'
  BY <1>1, <1>4, WriteNone DEF DiskInv, Inside, TypeOK
<1>6. Resolves(State)' /\ ReaderInv'
  BY RefFrame, ReaderFrame
<1> QED
  BY <1>2, <1>3, <1>4, <1>5, <1>6 DEF IInv

LEMMA FailKeeps ==
    ASSUME IInv, NEW p \in Packets, Fail(p)
    PROVE  IInv'
<1> USE DEF IInv, Fail, Become, Unwind, state, main, inspect
<1>1. /\ FreshInv' /\ KeptInv' /\ BudgetInv'
      /\ kept' \in [Spools -> {"none", "held", "budget", "lost", "stored", "quota", "storage"}]
      /\ held' \subseteq Spools /\ used' \in 0..MaxTransient
      /\ result' \in [Packets -> {"none", "good", "bad", "raised"}]
      /\ hard' \in [Packets -> BOOLEAN]
      /\ at'[p] \in {"keep", "done"} /\ Become(p, at'[p])
  <2>1. CASE Note(p, "storage") /\ Become(p, "keep") /\ UNCHANGED <<result, hard, held, used>>
    BY <2>1, NoteKeeps DEF Storing, Inside, budget, TypeOK
  <2>2. CASE /\ result' = [result EXCEPT ![p] = "raised"] /\ hard' = [hard EXCEPT ![p] = TRUE]
             /\ Discard(p) /\ Become(p, "done") /\ UNCHANGED kept
    BY <2>2, RaisedKeeps DEF Discard, TypeOK
  <2> QED
    BY <2>1, <2>2
<1>2. temps' \subseteq temps
  OBVIOUS
<1>3. TypeOK'
  <2>1. at' \in [Packets -> {"out", "run", "keep", "root", "lock", "wait", "scan", "temp", "linked",
                            "done"}]
    BY <1>1 DEF TypeOK
  <2>2. holder' \in Packets \cup {None} /\ faults' \in 0..MaxFaults /\ temps' \subseteq temps
    BY <1>2, StoreAssumption DEF TypeOK
  <2>3. UNCHANGED <<store, records, status, attempt, table, refs, pc, failure, size, reader,
                    snapshot, verdict, kills>>
    OBVIOUS
  <2> QED
    BY <1>1, <2>1, <2>2, <2>3 DEF TypeOK
<1>4. LockInv' /\ (holder' = None \/ (holder' = holder /\ holder # p))
  BY <1>1, StoreAssumption DEF LockInv, Inside, TypeOK
<1>5. DiskInv'
  BY <1>1, <1>2 DEF DiskInv, Inside, TypeOK
<1>6. WriteInv'
  <2>1. CASE holder' = None
    BY <1>4, <2>1, WriteNone
  <2>2. CASE holder' = holder /\ holder # p /\ holder # None
    <3>1. PICK q \in Packets : q = holder /\ q # p
      BY <2>2 DEF TypeOK
    <3>2. at[p] \notin Inside /\ UNCHANGED temps
      BY <3>1 DEF LockInv, Inside
    <3>3. at'[q] = at[q] /\ Temp(q, TRUE)' = Temp(q, TRUE) /\ Temp(q, FALSE)' = Temp(q, FALSE)
      <4>1. at'[q] = at[q] /\ UNCHANGED attempt
        BY <1>1, <3>1 DEF TypeOK
      <4>2. CASE UNCHANGED kept
        BY <4>1, <4>2, SameIds
      <4>3. CASE Note(p, "storage")
        BY <3>1, <4>1, <4>3, OtherIds
      <4> QED
        BY <4>1, <4>2, <4>3
    <3> QED
      BY <1>4, <2>2, <3>1, <3>2, <3>3, WriteOf DEF WriteInv
  <2> QED
    BY <1>4, <2>1, <2>2
<1>7. Resolves(State)' /\ ReaderInv'
  BY RefFrame, ReaderFrame
<1> QED
  BY <1>1, <1>3, <1>4, <1>5, <1>6, <1>7 DEF IInv

-----------------------------------------------------------------------------
(* The agent of a packet, and its captures. *)

\* The identity a thread stores under depends on its own streams alone.
LEMMA SameStreams ==
    ASSUME NEW q \in Packets, UNCHANGED attempt,
           \A s \in Streams : kept'[<<q, s>>] = kept[<<q, s>>]
    PROVE  Current(q)' = Current(q) /\ \A b \in BOOLEAN : Temp(q, b)' = Temp(q, b)
<1>1. Left(q)' = Left(q)
  BY DEF Left
<1> QED
  BY <1>1 DEF Current, Temp, Id

\* A thread outside the lock, that stays outside, says nothing about the disk.
LEMMA OutsideKeeps ==
    ASSUME IInv, NEW p \in Packets, NEW label, Become(p, label), at[p] \notin Inside,
           label \notin Inside, label = "wait" => store = "ready", pc = "map",
           UNCHANGED <<disk, pc, holder, attempt>>,
           \A q \in Packets, s \in Streams : q # p => kept'[<<q, s>>] = kept[<<q, s>>]
    PROVE  LockInv' /\ DiskInv' /\ WriteInv'
<1> USE DEF IInv, Become, disk
<1>1. \A q \in Packets : at'[q] = IF q = p THEN label ELSE at[q]
  BY DEF TypeOK
<1>2. LockInv'
  BY <1>1 DEF LockInv
<1>3. DiskInv'
  BY <1>1 DEF DiskInv
<1>4. WriteInv'
  <2>1. ASSUME NEW q \in Packets, at'[q] \in Inside
        PROVE  q # p /\ at'[q] = at[q] /\ Temp(q, TRUE)' = Temp(q, TRUE)
               /\ Temp(q, FALSE)' = Temp(q, FALSE)
    <3>1. q # p /\ at'[q] = at[q]
      BY <1>1, <2>1
    <3> QED
      BY <3>1, SameStreams
  <2> QED
    BY <2>1 DEF WriteInv, Inside
<1> QED
  BY <1>2, <1>3, <1>4

LEMMA OverflowKeeps ==
    ASSUME IInv, NEW p \in Packets, NEW s \in Streams, Overflow(p, s)
    PROVE  IInv'
<1> USE DEF IInv, Overflow, state, main, inspect, counts
<1> DEFINE x == <<p, s>>
<1>1. x \in Spools /\ x \notin held /\ at[p] = "run"
  BY DEF Spools, BudgetInv
<1>2. held \subseteq Wave \X Streams /\ x \in Wave \X Streams
  BY <1>1 DEF Wave, BudgetInv, TypeOK, Spools
<1>3. /\ IsFiniteSet(held \cup {x}) /\ Cardinality(held) \in Nat
      /\ Cardinality(held \cup {x}) = Cardinality(held) + 1
  <2>1. IsFiniteSet(held)
    BY SpoolSets DEF TypeOK
  <2> QED
    BY <1>1, <2>1, FS_AddElement, FS_CardinalityType
<1>4. Cardinality(held) + 1 <= 2 * Cardinality(Wave) /\ Cardinality(Wave) \in Nat
  <2>1. Wave \in SUBSET Packets
    BY DEF Wave
  <2>2. /\ IsFiniteSet(Wave \X Streams) /\ Cardinality(Wave) \in Nat
        /\ Cardinality(Wave \X Streams) = 2 * Cardinality(Wave)
    BY <2>1, TwoStreams, PacketSets
  <2>3. held \cup {x} \subseteq Wave \X Streams
    BY <1>2
  <2>4. Cardinality(held \cup {x}) <= Cardinality(Wave \X Streams)
    BY <2>2, <2>3, FS_Subset
  <2> QED
    BY <1>3, <2>2, <2>4
<1>5. used + size = size * (Cardinality(held) + 1) /\ used \in Nat /\ size \in Nat
  <2>1. used = size * Cardinality(held) /\ size \in Nat /\ used \in Nat
    BY DEF BudgetInv, TypeOK
  <2> QED
    BY <1>3, <2>1, OneMore
<1>6. used + size <= MaxTransient
  <2>1. size * (Cardinality(held) + 1) <= size * (2 * Cardinality(Wave))
    BY <1>3, <1>4, <1>5, SmallerFactor
  <2>2. size * (2 * Cardinality(Wave)) <= MaxTransient
    BY DEF BudgetInv
  <2>3. size * (2 * Cardinality(Wave)) \in Nat /\ size * (Cardinality(held) + 1) \in Nat
    BY <1>3, <1>4, <1>5, OneMore
  <2> QED
    BY <1>5, <2>1, <2>2, <2>3, StoreAssumption
<1>7. kept' = [kept EXCEPT ![x] = "held"] /\ held' = held \cup {x} /\ used' = used + size
  BY <1>5, <1>6, StoreAssumption
<1>8. \A y \in Spools : kept'[y] = IF y = x THEN "held" ELSE kept[y]
  BY <1>7 DEF TypeOK
<1>9. \A q \in Packets : q # p => Current(q)' = Current(q)
  BY <1>8, SameStreams DEF Spools
<1> HIDE DEF x
<1>10. TypeOK'
  BY <1>1, <1>5, <1>6, <1>7, StoreAssumption DEF TypeOK, disk
<1>11. LockInv' /\ DiskInv' /\ WriteInv'
  <2>1. Become(p, "run") /\ pc = "map"
    BY <1>1 DEF Become, LockInv, TypeOK
  <2> QED
    BY <1>1, <1>8, <2>1, OutsideKeeps DEF Inside, Spools, x
<1>12. FreshInv'
  BY <1>1, <1>8, <1>9 DEF FreshInv, Fresh, Spools, x, disk
<1>13. KeptInv'
  BY <1>1, <1>8, <1>9, CurrentIsStream DEF KeptInv, Fresh, Spools, Storing, Inside, x, disk
<1>14. Resolves(State)' /\ ReaderInv'
  BY RefFrame, ReaderFrame DEF disk
<1>15. BudgetInv'
  <2>1. Wave' = Wave
    BY DEF Wave
  <2>2. \A y \in Spools : kept'[y] # "budget"
    BY <1>8 DEF BudgetInv, BudgetNeverExhausted
  <2>3. \A q \in Packets, z \in Streams :
          <<q, z>> \in held' => at'[q] \notin {"out", "done"} /\ kept'[<<q, z>>] # "none"
    BY <1>1, <1>7, <1>8 DEF BudgetInv, Spools, x
  <2>4. used' = size' * Cardinality(held')
    BY <1>3, <1>5, <1>7
  <2> QED
    BY <2>1, <2>2, <2>3, <2>4 DEF BudgetInv, BudgetNeverExhausted
<1> QED
  BY <1>10, <1>11, <1>12, <1>13, <1>14, <1>15

LEMMA EndRunKeeps ==
    ASSUME IInv, NEW p \in Packets, EndRun(p)
    PROVE  IInv'
<1> USE DEF IInv, EndRun, state, main, inspect, counts
<1>1. Resolves(State)' /\ ReaderInv'
  BY RefFrame, ReaderFrame DEF disk
<1>2. at[p] = "run" /\ pc = "map"
  BY DEF LockInv, TypeOK
<1>3. CASE /\ result' = [result EXCEPT ![p] = "raised"] /\ hard' = [hard EXCEPT ![p] = TRUE]
           /\ Release(Of(p)) /\ Become(p, "done") /\ UNCHANGED kept
  <2>1. FreshInv' /\ KeptInv' /\ BudgetInv' /\ held' \subseteq Spools /\ used' \in 0..MaxTransient
    BY <1>2, <1>3, RaisedKeeps DEF disk
  <2>2. LockInv' /\ DiskInv' /\ WriteInv'
    BY <1>2, <1>3, OutsideKeeps DEF Inside
  <2>3. TypeOK'
    BY <1>3, <2>1 DEF TypeOK, Become, disk
  <2> QED
    BY <1>1, <2>1, <2>2, <2>3
<1>4. ASSUME NEW outcome \in {"good", "bad"}, NEW S \in SUBSET (held \cap Of(p)),
             result' = [result EXCEPT ![p] = outcome],
             kept' = [x \in Spools |-> IF x \in S THEN "lost" ELSE kept[x]],
             Release(S), Become(p, "keep"), UNCHANGED hard
      PROVE  IInv'
  <2>1. /\ held' = held \ S /\ held' \subseteq Spools
        /\ used' = size * Cardinality(held') /\ used' \in 0..MaxTransient
    BY <1>4, ReleaseKeeps
  <2>2. \A q \in Packets, s \in Streams :
          kept'[<<q, s>>] = IF <<q, s>> \in S THEN "lost" ELSE kept[<<q, s>>]
    BY <1>4 DEF Spools
  <2>3. \A q \in Packets, s \in Streams : q # p => kept'[<<q, s>>] = kept[<<q, s>>]
    BY <1>4, <2>2 DEF Of
  <2>4. \A q \in Packets : q # p => Current(q)' = Current(q)
    BY <2>3, SameStreams
  <2>5. \A q \in Packets : at'[q] = IF q = p THEN "keep" ELSE at[q]
    BY <1>4 DEF Become, TypeOK
  <2>6. LockInv' /\ DiskInv' /\ WriteInv'
    BY <1>2, <1>4, <2>3, OutsideKeeps DEF Inside
  <2>7. TypeOK'
    BY <1>4, <2>1 DEF TypeOK, Become, disk
  <2>8. FreshInv'
    BY <1>2, <2>2, <2>4, <2>5 DEF FreshInv, Fresh, disk
  <2>9. KeptInv'
    <3>1. \A q \in Packets : at'[q] \in Storing => q # p /\ at[q] \in Storing
      BY <2>5 DEF Storing, Inside
    <3>2. \A q \in Packets : at'[q] \in Storing => kept'[<<q, Current(q)'>>] = "held"
      BY <2>3, <2>4, <3>1, CurrentIsStream DEF KeptInv
    <3>3. \A q \in Packets : result'[q] = "raised" => hard'[q]
      BY <1>4 DEF KeptInv, TypeOK
    <3> QED
      BY <1>4, <2>2, <2>3, <2>5, <3>2, <3>3 DEF KeptInv, Fresh, disk
  <2>10. BudgetInv'
    <3>1. Wave' = Wave
      BY <1>2, <2>5 DEF Wave
    <3>2. \A x \in Spools : kept'[x] # "budget"
      BY <1>4 DEF BudgetInv, BudgetNeverExhausted
    <3>3. \A q \in Packets, s \in Streams :
            <<q, s>> \in held' => at'[q] \notin {"out", "done"} /\ kept'[<<q, s>>] # "none"
      BY <2>1, <2>2, <2>5 DEF BudgetInv
    <3> QED
      BY <2>1, <3>1, <3>2, <3>3 DEF BudgetInv, BudgetNeverExhausted
  <2> QED
    BY <1>1, <2>6, <2>7, <2>8, <2>9, <2>10
<1> QED
  BY <1>3, <1>4

LEMMA KeepKeeps ==
    ASSUME IInv, NEW p \in Packets, Keep(p)
    PROVE  IInv'
<1> USE DEF IInv, Keep, state, main, inspect, counts
<1>1. Resolves(State)' /\ ReaderInv'
  BY RefFrame, ReaderFrame DEF disk
<1>2. at[p] = "keep" /\ pc = "map"
  BY DEF LockInv, TypeOK
<1>3. CASE Left(p) = {}
  <2>1. /\ held' = held \ Of(p) /\ held' \subseteq Spools
        /\ used' = size * Cardinality(held') /\ used' \in 0..MaxTransient
    BY <1>3, ReleaseKeeps DEF Discard
  <2>2. \A q \in Packets : at'[q] = IF q = p THEN "done" ELSE at[q]
    BY <1>3 DEF Become, TypeOK
  <2>3. TypeOK'
    BY <1>3, <2>1 DEF TypeOK, Become, disk
  <2>4. LockInv' /\ DiskInv' /\ WriteInv'
    BY <1>2, <1>3, OutsideKeeps DEF Inside
  <2>5. FreshInv'
    BY <1>2, <2>2, SameIds DEF FreshInv, Fresh, disk
  <2>6. KeptInv'
    BY <1>2, <1>3, <2>2, SameIds DEF KeptInv, Fresh, Left, Storing, Inside, disk
  <2>7. BudgetInv'
    <3>1. Wave' = Wave
      BY <1>2, <2>2 DEF Wave
    <3>2. \A q \in Packets, s \in Streams :
            <<q, s>> \in held' => at'[q] \notin {"out", "done"} /\ kept'[<<q, s>>] # "none"
      BY <2>1, <2>2 DEF BudgetInv, Of
    <3> QED
      BY <2>1, <3>1, <3>2 DEF BudgetInv, BudgetNeverExhausted
  <2> QED
    BY <1>1, <2>3, <2>4, <2>5, <2>6, <2>7
<1>4. CASE Left(p) # {}
  <2>1. PICK label \in {"wait", "root"} : Become(p, label) /\ (label = "wait" => store = "ready")
    BY <1>4
  <2>2. UNCHANGED <<kept, held, used, size>>
    BY <1>4
  <2>3. \A q \in Packets : at'[q] = IF q = p THEN label ELSE at[q]
    BY <2>1 DEF Become, TypeOK
  <2>4. kept[<<p, Current(p)>>] = "held"
    BY <1>4 DEF Current, Left, Streams
  <2>5. TypeOK'
    BY <2>1, <2>2 DEF TypeOK, Become, disk
  <2>6. LockInv' /\ DiskInv' /\ WriteInv'
    BY <1>2, <2>1, <2>2, OutsideKeeps DEF Inside
  <2>7. FreshInv'
    BY <1>2, <2>2, <2>3, SameIds DEF FreshInv, Fresh, disk
  <2>8. KeptInv'
    BY <1>2, <2>2, <2>3, <2>4, SameIds DEF KeptInv, Fresh, disk
  <2>9. BudgetInv'
    BY <1>2, <2>1, <2>2, BudgetSame DEF StepsTo, budget
  <2> QED
    BY <1>1, <2>5, <2>6, <2>7, <2>8, <2>9
<1> QED
  BY <1>3, <1>4

-----------------------------------------------------------------------------
(* The conductor. *)

LEMMA CollectKeeps ==
    ASSUME IInv, NEW p \in Packets, Collect(p)
    PROVE  IInv'
<1> USE DEF IInv, Collect, Unlocked, budget, inspect, counts
<1>1. \A q \in Packets : /\ at'[q] = IF q = p THEN "out" ELSE at[q]
                         /\ result'[q] = IF q = p THEN "none" ELSE result[q]
                         /\ hard'[q] = IF q = p THEN FALSE ELSE hard[q]
  BY DEF TypeOK
<1>2. \A q \in Packets, s \in Streams :
        kept'[<<q, s>>] = IF q = p THEN "none" ELSE kept[<<q, s>>]
  BY DEF Spools, Of
<1>3. \A q \in Packets : q # p => Current(q)' = Current(q)
  BY <1>2, SameStreams
<1>4. Stored(p) \subseteq records /\ Stored(p) \subseteq Ids
      /\ \A id \in Stored(p) : id[3] = attempt
  <2>1. ASSUME NEW s \in Streams, kept[<<p, s>>] = "stored"
        PROVE  <<p, s, attempt>> \in records /\ <<p, s, attempt>> \in Ids
    BY <2>1 DEF KeptInv, Fresh, Ids, TypeOK
  <2>2. \A id \in Stored(p) :
          \E s \in Streams : kept[<<p, s>>] = "stored" /\ id = <<p, s, attempt>>
    BY DEF Stored
  <2>3. \A s : <<p, s, attempt>>[3] = attempt
    OBVIOUS
  <2> HIDE DEF IInv, Collect
  <2> QED
    BY <2>1, <2>2, <2>3, Zenon
<1>5. TypeOK'
  <2>1. table' \in [Packets -> {"pending", "failed", "completed"}]
    BY DEF TypeOK
  <2>2. failure' \in BOOLEAN /\ refs' \subseteq Ids
    BY <1>4 DEF TypeOK
  <2>3. /\ at' \in [Packets -> {"out", "run", "keep", "root", "lock", "wait", "scan", "temp",
                                "linked", "done"}]
        /\ result' \in [Packets -> {"none", "good", "bad", "raised"}]
        /\ hard' \in [Packets -> BOOLEAN]
    BY DEF TypeOK
  <2>4. kept' \in [Spools -> {"none", "held", "budget", "lost", "stored", "quota", "storage"}]
    BY DEF TypeOK
  <2> QED
    BY <2>1, <2>2, <2>3, <2>4 DEF TypeOK, disk
<1>6. LockInv'
  BY <1>1 DEF LockInv, Inside
<1>7. DiskInv' /\ WriteInv'
  BY <1>1, <1>6, WriteNone DEF DiskInv, Inside, disk
<1>8. FreshInv'
  <2>1. \A q \in Packets, s \in Streams :
          /\ at'[q] \notin {"out", "done"} /\ kept'[<<q, s>>] \in {"none", "held"}
          /\ at'[q] = "linked" => s # Current(q)'
          => Fresh(q, s)'
    BY <1>1, <1>2, <1>3 DEF FreshInv, Fresh, disk
  <2>2. ~failure' => ~failure /\ table'[p] = "completed"
    BY DEF TypeOK
  <2>3. \A q \in Packets, s \in Streams :
          pc' = "map" /\ at'[q] = "out" /\ ~failure' /\ table'[q] # "completed" => Fresh(q, s)'
    BY <1>1, <2>2 DEF FreshInv, Fresh, TypeOK, disk
  <2> QED
    BY <2>1, <2>3 DEF FreshInv, disk
<1>9. KeptInv'
  <2>1. ASSUME NEW q \in Packets, at'[q] \in Storing
        PROVE  kept'[<<q, Current(q)'>>] = "held"
    <3>1. q # p /\ at[q] \in Storing
      BY <1>1, <2>1 DEF Storing, Inside
    <3> QED
      BY <1>2, <1>3, <3>1, CurrentIsStream DEF KeptInv
  <2>2. ASSUME NEW q \in Packets, NEW s \in Streams
        PROVE  /\ at'[q] = "out" => kept'[<<q, s>>] = "none"
               /\ at'[q] = "done" /\ ~hard'[q] => kept'[<<q, s>>] # "held"
               /\ kept'[<<q, s>>] = "stored" => ~Fresh(q, s)'
               /\ result'[q] = "raised" => hard'[q]
    <3>1. CASE q = p
      <4>1. at'[q] = "out" /\ kept'[<<q, s>>] = "none" /\ result'[q] = "none"
        BY <1>1, <1>2, <3>1
      <4> HIDE DEF IInv, Collect
      <4> QED
        BY <4>1
    <3>2. CASE q # p
      <4>1. /\ at'[q] = at[q] /\ kept'[<<q, s>>] = kept[<<q, s>>] /\ hard'[q] = hard[q]
            /\ result'[q] = result[q]
        BY <1>1, <1>2, <3>2
      <4>2. Fresh(q, s)' = Fresh(q, s)
        BY DEF Fresh, disk
      <4>3. /\ at[q] = "out" => kept[<<q, s>>] = "none"
            /\ at[q] = "done" /\ ~hard[q] => kept[<<q, s>>] # "held"
            /\ kept[<<q, s>>] = "stored" => ~Fresh(q, s)
            /\ result[q] = "raised" => hard[q]
        BY DEF KeptInv
      <4> HIDE DEF IInv, Collect
      <4> QED
        BY <4>1, <4>2, <4>3
    <3> QED
      BY <3>1, <3>2
  <2>3. Streams # {}
    BY DEF Streams
  <2> QED
    BY <2>1, <2>2, <2>3 DEF KeptInv
<1>10. Resolves(State)'
  BY <1>4 DEF Resolves, State, disk
<1>11. ReaderInv'
  BY ReaderFrame DEF disk
<1>12. BudgetInv'
  <2>1. Wave' \subseteq Wave /\ Wave \in SUBSET Packets
    BY <1>1 DEF Wave
  <2>2. /\ Cardinality(Wave') \in Nat /\ Cardinality(Wave) \in Nat
        /\ Cardinality(Wave') <= Cardinality(Wave)
    BY <2>1, PacketSets, FS_Subset
  <2>3. size \in Nat /\ size * (2 * Cardinality(Wave)) <= MaxTransient
    BY DEF BudgetInv, TypeOK
  <2>4. /\ size * (2 * Cardinality(Wave')) <= size * (2 * Cardinality(Wave))
        /\ size * (2 * Cardinality(Wave')) \in Nat /\ size * (2 * Cardinality(Wave)) \in Nat
    BY <2>2, <2>3, SmallerFactor, OneMore
  <2>5. size' * (2 * Cardinality(Wave')) <= MaxTransient
    BY <2>3, <2>4, StoreAssumption
  <2>6. \A q \in Packets, s \in Streams :
          <<q, s>> \in held' => at'[q] \notin {"out", "done"} /\ kept'[<<q, s>>] # "none"
    BY <1>1, <1>2 DEF BudgetInv
  <2>7. \A x \in Spools : kept'[x] # "budget"
    BY DEF BudgetInv, BudgetNeverExhausted
  <2> QED
    BY <2>5, <2>6, <2>7 DEF BudgetInv, BudgetNeverExhausted
<1> QED
  BY <1>5, <1>6, <1>7, <1>8, <1>9, <1>10, <1>11, <1>12

LEMMA StartWaveKeeps ==
    ASSUME IInv, StartWave
    PROVE  IInv'
<1> USE DEF IInv, StartWave, disk, state, main, inspect, counts
<1> DEFINE wave == FirstOf(Pending)
<1>1. wave \in SUBSET Packets /\ wave # {} /\ \A p \in wave : table[p] # "completed"
  BY WaveNotEmpty DEF FirstOf, Pending
<1>2. \A p \in Packets : at[p] = "out" /\ at'[p] = IF p \in wave THEN "run" ELSE "out"
  BY DEF Wave
<1>3. held = {} /\ \A q \in Packets, s \in Streams : kept[<<q, s>>] = "none"
  BY <1>2 DEF BudgetInv, KeptInv, TypeOK, Spools
<1>4. Wave' = wave /\ size' = Share(Cardinality(wave))
  BY <1>1, <1>2 DEF Wave
<1>5. Cardinality(wave) \in Nat \ {0}
  BY <1>1, PacketSets
<1>6. size' \in Nat /\ size' * (2 * Cardinality(wave)) <= MaxTransient
  BY <1>4, <1>5, ShareFits
<1> HIDE DEF wave
<1>7. TypeOK'
  <2>1. at' \in [Packets -> {"out", "run", "keep", "root", "lock", "wait", "scan", "temp", "linked",
                             "done"}]
    BY DEF TypeOK
  <2> QED
    BY <1>6, <2>1 DEF TypeOK
<1>8. LockInv' /\ DiskInv'
  BY <1>2 DEF LockInv, DiskInv, Inside, TypeOK
<1>9. WriteInv'
  BY <1>2 DEF WriteInv
<1>10. FreshInv' /\ KeptInv'
  BY <1>1, <1>2, <1>3 DEF FreshInv, KeptInv, Fresh, Storing, Inside
<1>11. Resolves(State)' /\ ReaderInv'
  BY RefFrame, ReaderFrame
<1>12. BudgetInv'
  <2>1. Cardinality(held') = 0 /\ used' = size * 0
    BY <1>3, FS_EmptySet DEF BudgetInv
  <2>2. used' = size' * Cardinality(held')
    BY <1>6, <2>1 DEF TypeOK
  <2> QED
    BY <1>3, <1>4, <1>6, <2>2 DEF BudgetInv, BudgetNeverExhausted
<1> QED
  BY <1>7, <1>8, <1>9, <1>10, <1>11, <1>12

LEMMA EndMapKeeps ==
    ASSUME IInv, EndMap
    PROVE  IInv'
<1> USE DEF IInv, EndMap, disk, threads, budget, inspect, counts
<1>1. \A p \in Packets : at[p] = "out"
  BY DEF Wave
<1>2. TypeOK'
  BY DEF TypeOK
<1>3. LockInv' /\ DiskInv' /\ WriteInv'
  BY <1>1 DEF LockInv, DiskInv, WriteInv, Inside
<1>4. FreshInv' /\ KeptInv'
  BY <1>1 DEF FreshInv, KeptInv, Fresh, Storing, Inside
<1>5. Resolves(State)' /\ ReaderInv'
  BY RefFrame, ReaderFrame
<1>6. BudgetInv'
  <2>1. Wave' = Wave
    BY DEF Wave
  <2> QED
    BY <2>1 DEF BudgetInv, BudgetNeverExhausted
<1> QED
  BY <1>2, <1>3, <1>4, <1>5, <1>6

LEMMA KillKeeps ==
    ASSUME IInv, Kill
    PROVE  IInv'
<1> USE DEF IInv, Kill, Nobody, Nothing, disk, state, inspect
<1>1. TypeOK'
  <2>1. /\ held' \subseteq Spools /\ used' \in 0..MaxTransient /\ size' \in Nat
        /\ kills' \in 0..MaxKills
    BY StoreAssumption DEF TypeOK
  <2>2. /\ at' \in [Packets -> {"out", "run", "keep", "root", "lock", "wait", "scan", "temp",
                                "linked", "done"}]
        /\ result' \in [Packets -> {"none", "good", "bad", "raised"}]
        /\ hard' \in [Packets -> BOOLEAN]
        /\ kept' \in [Spools -> {"none", "held", "budget", "lost", "stored", "quota", "storage"}]
    OBVIOUS
  <2> QED
    BY <2>1, <2>2 DEF TypeOK
<1>2. LockInv' /\ DiskInv' /\ WriteInv'
  BY StoreAssumption DEF LockInv, DiskInv, WriteInv, Inside
<1>3. FreshInv' /\ KeptInv'
  BY DEF FreshInv, KeptInv, Fresh, Storing, Inside, Spools
<1>4. Resolves(State)' /\ ReaderInv'
  BY RefFrame, ReaderFrame
<1>5. BudgetInv'
  <2>1. Wave' = {} /\ Cardinality(held') = 0 /\ Cardinality({}) = 0
    BY FS_EmptySet DEF Wave
  <2> QED
    BY <2>1, StoreAssumption DEF BudgetInv, BudgetNeverExhausted
<1> QED
  BY <1>1, <1>2, <1>3, <1>4, <1>5

LEMMA ResumeKeeps ==
    ASSUME IInv, Resume
    PROVE  IInv'
<1> USE DEF IInv, Resume, Restarts, disk, threads, budget, inspect, counts
<1>1. (\A p \in Packets : at[p] = "out") /\ attempt \in Nat
      /\ attempt' \in {attempt, attempt + 1} /\ refs' \subseteq refs
  BY StoreAssumption DEF LockInv, TypeOK
<1>2. TypeOK'
  BY StoreAssumption DEF TypeOK
<1>3. LockInv' /\ DiskInv' /\ WriteInv'
  BY <1>1 DEF LockInv, DiskInv, WriteInv, Inside
<1>4. FreshInv'
  <2>1. CASE attempt' = attempt /\ pc' = "down"
    BY <1>1, <2>1 DEF FreshInv, Fresh
  <2>2. CASE attempt' = attempt + 1
    <3>1. \A id \in records : id[3] \in Nat /\ id[3] < attempt'
      BY <1>1, <2>2 DEF FreshInv, TypeOK, Ids
    <3>2. \A q, s : Fresh(q, s)'
      BY <1>1, <2>2, <3>1 DEF Fresh
    <3> QED
      BY <1>1, <3>1, <3>2 DEF FreshInv
  <2> QED
    BY <2>1, <2>2
<1>5. KeptInv'
  BY <1>1 DEF KeptInv, Storing, Inside
<1>6. Resolves(State)' /\ ReaderInv'
  BY ReaderFrame DEF Resolves, State
<1>7. BudgetInv'
  <2>1. Wave' = Wave
    BY DEF Wave
  <2> QED
    BY <2>1 DEF BudgetInv, BudgetNeverExhausted
<1> QED
  BY <1>2, <1>3, <1>4, <1>5, <1>6, <1>7

-----------------------------------------------------------------------------
(* The readers. *)

LEMMA AllListable ==
    ASSUME IInv
    PROVE  Listable
<1>1. CASE temps = {}
  BY <1>1, FS_EmptySet DEF IInv, DiskInv, Listable
<1>2. CASE temps # {}
  <2>1. PICK t \in temps : temps = {t}
    BY <1>2 DEF IInv, DiskInv
  <2> QED
    BY <2>1, FS_Singleton DEF IInv, DiskInv, Listable
<1> QED
  BY <1>1, <1>2

LEMMA InspectKeeps ==
    ASSUME IInv, NEW r \in Readers, Inspect(r)
    PROVE  IInv'
<1> USE DEF IInv, disk, state, main, threads, budget, counts
<1>1. UNCHANGED <<disk, state, main, threads, budget, holder, counts>>
  BY DEF Inspect
<1>2. Start \in Snapshots /\ State \in Snapshots
  BY StoreAssumption DEF Start, State, Snapshots, TypeOK
<1>3. Resolves(State) /\ Resolves(Start)
  BY DEF Resolves, Start
<1>4. /\ reader' \in [Readers -> {"out", "look", "list", "lock"}]
      /\ snapshot' \in [Readers -> Snapshots] /\ verdict' \in [Readers -> {"valid", "missing", "invalid"}]
      /\ \A z \in Readers : z # r => /\ reader'[z] = reader[z] /\ snapshot'[z] = snapshot[z]
                                     /\ verdict'[z] = verdict[z]
      /\ verdict'[r] # "invalid" /\ (reader'[r] = "lock" => store = "ready")
      /\ verdict'[r] = "missing" => store = "ready" /\ reader'[r] # "list"
      /\ snapshot'[r] \in {Start, State, snapshot[r]}
  <2>1. ASSUME NEW accepted, accepted = TRUE, Judges(r, accepted)
        PROVE  <1>4
    BY <1>2, <2>1 DEF Judges, Reports, ReaderInv, TypeOK
  <2>2. CASE /\ reader[r] = "out" /\ UNCHANGED verdict
             /\ reader' = [reader EXCEPT ![r] = "look"]
             /\ snapshot' = [snapshot EXCEPT ![r] = State]
    BY <1>2, <2>2 DEF ReaderInv, TypeOK
  <2>3. CASE store # "ready" /\ Judges(r, snapshot[r].refs = {})
    <3>1. snapshot[r].refs = {}
      BY <2>3 DEF ReaderInv, Resolves, DiskInv, TypeOK, Snapshots
    <3> QED
      BY <2>1, <2>3, <3>1
  <2>4. CASE /\ reader[r] = "look" /\ store # "absent" /\ UNCHANGED <<snapshot, verdict>>
             /\ reader' = [reader EXCEPT ![r] = IF store = "ready" THEN "lock" ELSE "list"]
    BY <1>2, <2>4 DEF ReaderInv, TypeOK
  <2>5. CASE store = "ready" /\ Reports(r, "missing")
    BY <1>2, <2>5 DEF Reports, ReaderInv, TypeOK
  <2>6. CASE Judges(r, Listable /\ Resolves(snapshot[r]))
    <3>1. Listable /\ Resolves(snapshot[r])
      BY AllListable DEF ReaderInv
    <3> QED
      BY <2>1, <2>6, <3>1
  <2> QED
    BY <2>2, <2>3, <2>4, <2>5, <2>6 DEF Inspect
<1>5. TypeOK'
  BY <1>1, <1>4 DEF TypeOK
<1>6. LockInv' /\ DiskInv'
  BY <1>1 DEF LockInv, DiskInv
<1>7. WriteInv'
  BY <1>1, WriteSame
<1>8. FreshInv' /\ KeptInv'
  BY <1>1, SameIds DEF FreshInv, KeptInv, Fresh
<1>9. Resolves(State)'
  BY <1>1, RefFrame
<1>10. ReaderInv'
  BY <1>1, <1>3, <1>4 DEF ReaderInv, Resolves
<1>11. BudgetInv'
  <2>1. Wave' = Wave
    BY <1>1 DEF Wave
  <2> QED
    BY <1>1, <2>1 DEF BudgetInv, BudgetNeverExhausted
<1> QED
  BY <1>5, <1>6, <1>7, <1>8, <1>9, <1>10, <1>11

LEMMA StutterKeeps ==
    ASSUME IInv, UNCHANGED vars
    PROVE  IInv'
<1> USE DEF IInv, vars, disk, state, main, threads, budget, inspect, counts
<1>1. TypeOK' /\ LockInv' /\ DiskInv'
  BY DEF TypeOK, LockInv, DiskInv
<1>2. WriteInv'
  BY WriteSame
<1>3. FreshInv' /\ KeptInv'
  BY SameIds DEF FreshInv, KeptInv, Fresh
<1>4. Resolves(State)' /\ ReaderInv'
  BY RefFrame, ReaderFrame
<1>5. BudgetInv'
  <2>1. Wave' = Wave
    BY DEF Wave
  <2> QED
    BY <2>1 DEF BudgetInv, BudgetNeverExhausted
<1> QED
  BY <1>1, <1>2, <1>3, <1>4, <1>5

LEMMA Invariant == Spec => []IInv
<1>1. Init => IInv
  BY Initially
<1>2. IInv /\ [Next]_vars => IInv'
  <2> SUFFICES ASSUME IInv, [Next]_vars PROVE IInv'
    OBVIOUS
  <2>1. CASE Resume
    BY <2>1, ResumeKeeps
  <2>2. CASE StartWave
    BY <2>2, StartWaveKeeps
  <2>3. CASE EndMap
    BY <2>3, EndMapKeeps
  <2>4. CASE Kill
    BY <2>4, KillKeeps
  <2>5. ASSUME NEW p \in Packets, Collect(p) \/ Thread(p) \/ Fail(p)
        PROVE  IInv'
    BY <2>5, CollectKeeps, FailKeeps, EndRunKeeps, KeepKeeps, MakeRootKeeps, MakeLockKeeps,
       OverQuotaKeeps, StageKeeps, LinkKeeps, FinishKeeps, LockKeeps DEF Thread
  <2>6. ASSUME NEW p \in Packets, NEW s \in Streams, Overflow(p, s)
        PROVE  IInv'
    BY <2>6, OverflowKeeps
  <2>7. ASSUME NEW r \in Readers, Inspect(r)
        PROVE  IInv'
    BY <2>7, InspectKeeps
  <2>8. CASE UNCHANGED vars
    BY <2>8, StutterKeeps
  <2> QED
    BY <2>1, <2>2, <2>3, <2>4, <2>5, <2>6, <2>7, <2>8 DEF Next
<1> QED
  BY <1>1, <1>2, PTL DEF Spec

-----------------------------------------------------------------------------
(* What holds in every state. *)

\* Every reachable state is well typed: the budget never runs below zero or
\* above its bound (_reserve_capture, process.py).
THEOREM TypeCorrect == Spec => []TypeOK
<1>1. IInv => TypeOK
  BY DEF IInv
<1> QED
  BY <1>1, Invariant, PTL

\* verify() calls the run's own work tampering only where a reader's look falls
\* between the first writer's directory and lock file, never twice, and never to
\* the next conductor; state.json names no container that is not there
\* (results.py, state.py).
THEOREM InspectionAccepts == Spec => []InspectAccepts
<1>1. IInv => InspectAccepts
  <2> SUFFICES ASSUME IInv
               PROVE  /\ \A r \in Readers :
                           /\ verdict[r] # "invalid"
                           /\ verdict[r] = "missing" => store = "ready" /\ reader[r] # "list"
                      /\ Accepts(State) /\ Resolves(State)
    BY DEF InspectAccepts
  <2>1. \A r \in Readers :
          /\ verdict[r] # "invalid"
          /\ verdict[r] = "missing" => store = "ready" /\ reader[r] # "list"
    BY DEF IInv, ReaderInv
  <2>2. Resolves(State)
    BY DEF IInv
  <2>3. Accepts(State)
    <3>1. CASE store = "ready"
      BY <2>2, <3>1, AllListable DEF Accepts
    <3>2. CASE store # "ready"
      <4>1. records = {}
        BY <3>2 DEF IInv, DiskInv
      <4>2. State.refs = {}
        BY <2>2, <4>1 DEF Resolves, State
      <4> QED
        BY <3>2, <4>2 DEF Accepts
    <3> QED
      BY <3>1, <3>2
  <2> QED
    BY <2>1, <2>2, <2>3
<1> QED
  BY <1>1, Invariant, PTL

\* No stream of a wave is ever refused a capture for want of budget: the share
\* capture_limit_for_parallelism computes suffices for any number of workers,
\* and every reservation is given back before the next wave.
THEOREM BudgetSuffices == Spec => []BudgetNeverExhausted
<1>1. IInv => BudgetNeverExhausted
  BY DEF IInv, BudgetInv
<1> QED
  BY <1>1, Invariant, PTL

\* Storing overflow never decides a packet's outcome, and what a packet says
\* is stored is there (preserve_process_overflow).
THEOREM CaptureOptional == Spec => []CaptureIsOptional
<1>1. IInv => CaptureIsOptional
  <2> SUFFICES ASSUME IInv, NEW p \in Packets, at[p] = "done", ~hard[p]
               PROVE  /\ result[p] # "raised"
                      /\ \A s \in Streams :
                           /\ kept[<<p, s>>] # "held"
                           /\ (kept[<<p, s>>] = "stored" => <<p, s, attempt>> \in records)
    BY DEF CaptureIsOptional
  <2> QED
    BY DEF IInv, KeptInv, Fresh
<1> QED
  BY <1>1, Invariant, PTL
=============================================================================
