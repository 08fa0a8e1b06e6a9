-------------------------- MODULE TaskQueueProofs --------------------------
(* Proof that the queue of TaskManager lists the queued tasks exactly.     *)
EXTENDS TaskManagerProofs, SequenceTheorems

Holds(q, t) == \E i \in DOMAIN q : q[i] = t
Distinct(q) == \A i, j \in DOMAIN q : q[i] = q[j] => i = j

-----------------------------------------------------------------------------
(* The sequence operators the queue is changed with.                       *)

LEMMA AppendLists ==
  ASSUME NEW q \in Seq(Task), NEW t \in Task
  PROVE  /\ \A u : Holds(Append(q, t), u) <=> u = t \/ Holds(q, u)
         /\ Distinct(q) /\ ~Holds(q, t) => Distinct(Append(q, t))
<1> DEFINE r == Append(q, t)
<1>1. /\ DOMAIN q = 1..Len(q) /\ Len(q) \in Nat
      /\ DOMAIN r = 1..(Len(q) + 1)
      /\ r[Len(q) + 1] = t /\ \A i \in 1..Len(q) : r[i] = q[i]
  OBVIOUS
<1> HIDE DEF r
<1>2. \A u : Holds(r, u) <=> u = t \/ Holds(q, u)
  <2>1. \A i \in DOMAIN r : i = Len(q) + 1 \/ i \in DOMAIN q
    BY <1>1
  <2>2. Len(q) + 1 \in DOMAIN r /\ \A i \in DOMAIN q : i \in DOMAIN r
    BY <1>1
  <2> QED
    BY <1>1, <2>1, <2>2 DEF Holds
<1>3. ASSUME Distinct(q), ~Holds(q, t)
      PROVE  Distinct(r)
  <2> SUFFICES ASSUME NEW i \in DOMAIN r, NEW j \in DOMAIN r, r[i] = r[j]
               PROVE  i = j
    BY DEF Distinct
  <2>1. (i = Len(q) + 1 \/ i \in DOMAIN q) /\ (j = Len(q) + 1 \/ j \in DOMAIN q)
    BY <1>1
  <2> QED
    BY <1>1, <1>3, <2>1 DEF Distinct, Holds
<1> QED
  BY <1>2, <1>3 DEF r

LEMMA TailLists ==
  ASSUME NEW q \in Seq(Task), q # <<>>
  PROVE  /\ Head(q) \in Task /\ Tail(q) \in Seq(Task) /\ Holds(q, Head(q))
         /\ \A u : Holds(q, u) <=> u = Head(q) \/ Holds(Tail(q), u)
         /\ Distinct(q) => Distinct(Tail(q)) /\ ~Holds(Tail(q), Head(q))
<1> DEFINE r == Tail(q)
<1>1. /\ DOMAIN q = 1..Len(q) /\ Len(q) \in Nat \ {0} /\ Head(q) = q[1] /\ Head(q) \in Task
      /\ r \in Seq(Task) /\ DOMAIN r = 1..(Len(q) - 1)
      /\ \A i \in 1..(Len(q) - 1) : r[i] = q[i + 1]
  OBVIOUS
<1> HIDE DEF r
<1>2. \A i \in DOMAIN q : i = 1 \/ (i - 1 \in DOMAIN r /\ q[i] = r[i - 1])
  <2> SUFFICES ASSUME NEW i \in DOMAIN q, i # 1
               PROVE  i - 1 \in DOMAIN r /\ q[i] = r[i - 1]
    OBVIOUS
  <2>1. i - 1 \in 1..(Len(q) - 1) /\ (i - 1) + 1 = i
    BY <1>1
  <2> QED
    BY <1>1, <2>1
<1>3. \A i \in DOMAIN r : i + 1 \in DOMAIN q /\ i + 1 # 1 /\ q[i + 1] = r[i]
  BY <1>1
<1>4. 1 \in DOMAIN q
  BY <1>1
<1>5. \A u : Holds(q, u) <=> u = Head(q) \/ Holds(r, u)
  BY <1>1, <1>2, <1>3, <1>4 DEF Holds
<1>6. ASSUME Distinct(q)
      PROVE  Distinct(r) /\ ~Holds(r, Head(q))
  <2>1. Distinct(r)
    <3> SUFFICES ASSUME NEW i \in DOMAIN r, NEW j \in DOMAIN r, r[i] = r[j]
                 PROVE  i = j
      BY DEF Distinct
    <3>1. i + 1 = j + 1
      BY <1>3, <1>6 DEF Distinct
    <3> QED
      BY <1>1, <3>1
  <2>2. ~Holds(r, Head(q))
    BY <1>1, <1>3, <1>4, <1>6 DEF Distinct, Holds
  <2> QED
    BY <2>1, <2>2
<1> QED
  BY <1>1, <1>4, <1>5, <1>6 DEF r, Holds

LEMMA RemoveAtLists ==
  ASSUME NEW q \in Seq(Task), NEW i \in DOMAIN q, Distinct(q)
  PROVE  /\ \A u : Holds(RemoveAt(q, i), u) <=> Holds(q, u) /\ u # q[i]
         /\ Distinct(RemoveAt(q, i))
<1> DEFINE r == RemoveAt(q, i)
<1>1. /\ DOMAIN q = 1..Len(q) /\ Len(q) \in Nat /\ i \in 1..Len(q)
      /\ DOMAIN r = 1..(Len(q) - 1)
      /\ \A k \in 1..(Len(q) - 1) : r[k] = IF k < i THEN q[k] ELSE q[k + 1]
  <2> DEFINE before == SubSeq(q, 1, i - 1)
             after == SubSeq(q, i + 1, Len(q))
  <2>1. DOMAIN q = 1..Len(q) /\ Len(q) \in Nat /\ i \in 1..Len(q)
    OBVIOUS
  <2>2. /\ before \in Seq(Task) /\ Len(before) = i - 1
        /\ \A k \in 1..(i - 1) : before[k] = q[k]
    <3>1. /\ before \in Seq(Task)
          /\ Len(before) = IF 1 <= i - 1 THEN i - 1 - 1 + 1 ELSE 0
          /\ \A k \in 1..(i - 1 - 1 + 1) : before[k] = q[1 + k - 1]
      BY <2>1, SubSeqProperties
    <3> HIDE DEF before
    <3> QED
      BY <2>1, <3>1
  <2>3. /\ after \in Seq(Task) /\ Len(after) = Len(q) - i
        /\ \A k \in 1..(Len(q) - i) : after[k] = q[i + k]
    <3>1. /\ after \in Seq(Task)
          /\ Len(after) = IF i + 1 <= Len(q) THEN Len(q) - (i + 1) + 1 ELSE 0
          /\ \A k \in 1..(Len(q) - (i + 1) + 1) : after[k] = q[i + 1 + k - 1]
      BY <2>1, SubSeqProperties
    <3> HIDE DEF after
    <3>2. Len(q) - (i + 1) + 1 = Len(q) - i /\ \A k \in Int : i + 1 + k - 1 = i + k
      BY <2>1
    <3>3. Len(after) = Len(q) - i
      BY <2>1, <3>1
    <3>4. ASSUME NEW k \in 1..(Len(q) - i)
          PROVE  after[k] = q[i + k]
      <4>1. k \in 1..(Len(q) - (i + 1) + 1)
        BY <3>2
      <4>2. after[k] = q[i + 1 + k - 1]
        BY <3>1, <4>1
      <4>3. i + 1 + k - 1 = i + k
        BY <2>1
      <4> QED
        BY <4>2, <4>3
    <3> QED
      BY <3>1, <3>3, <3>4
  <2>4. r = before \o after
    BY DEF RemoveAt
  <2> HIDE DEF before, after, r
  <2>5. /\ r \in Seq(Task) /\ Len(r) = Len(before) + Len(after)
        /\ \A k \in 1..(Len(before) + Len(after)) :
             r[k] = IF k <= Len(before) THEN before[k] ELSE after[k - Len(before)]
    BY <2>2, <2>3, <2>4, ConcatProperties
  <2>6. Len(r) = Len(q) - 1 /\ DOMAIN r = 1..(Len(q) - 1)
    BY <2>1, <2>2, <2>3, <2>5
  <2>7. ASSUME NEW k \in 1..(Len(q) - 1)
        PROVE  r[k] = IF k < i THEN q[k] ELSE q[k + 1]
    <3>1. CASE k < i
      BY <2>1, <2>2, <2>3, <2>5, <3>1
    <3>2. CASE ~(k < i)
      <4>1. k - (i - 1) \in 1..(Len(q) - i) /\ i + (k - (i - 1)) = k + 1
        BY <2>1, <3>2
      <4>2. r[k] = after[k - (i - 1)]
        BY <2>1, <2>2, <2>3, <2>5, <3>2
      <4> QED
        BY <2>3, <3>2, <4>1, <4>2
    <3> QED
      BY <3>1, <3>2
  <2> QED
    BY <2>1, <2>6, <2>7
<1> HIDE DEF r
<1>2. \A k \in DOMAIN r : \E m \in DOMAIN q : m # i /\ q[m] = r[k]
  <2> SUFFICES ASSUME NEW k \in DOMAIN r
               PROVE  \E m \in DOMAIN q : m # i /\ q[m] = r[k]
    OBVIOUS
  <2>1. k \in DOMAIN q /\ k + 1 \in DOMAIN q /\ (k < i \/ k + 1 # i) /\ (k < i => k # i)
    BY <1>1
  <2> QED
    BY <1>1, <2>1
<1>3. \A m \in DOMAIN q : m # i => \E k \in DOMAIN r : q[m] = r[k]
  <2> SUFFICES ASSUME NEW m \in DOMAIN q, m # i
               PROVE  \E k \in DOMAIN r : q[m] = r[k]
    OBVIOUS
  <2>1. CASE m < i
    BY <1>1, <2>1
  <2>2. CASE m > i
    <3>1. m - 1 \in 1..(Len(q) - 1) /\ ~(m - 1 < i) /\ (m - 1) + 1 = m
      BY <1>1, <2>2
    <3> QED
      BY <1>1, <3>1
  <2> QED
    BY <1>1, <2>1, <2>2
<1>4. \A u : Holds(r, u) <=> Holds(q, u) /\ u # q[i]
  <2>1. ASSUME NEW u, Holds(r, u)
        PROVE  Holds(q, u) /\ u # q[i]
    BY <1>2, <2>1 DEF Holds, Distinct
  <2>2. ASSUME NEW u, Holds(q, u), u # q[i]
        PROVE  Holds(r, u)
    BY <1>3, <2>2 DEF Holds
  <2> QED
    BY <2>1, <2>2
<1>5. Distinct(r)
  <2> SUFFICES ASSUME NEW k \in DOMAIN r, NEW m \in DOMAIN r, r[k] = r[m]
               PROVE  k = m
    BY DEF Distinct
  <2> DEFINE at(x) == IF x < i THEN x ELSE x + 1
  <2>1. at(k) \in DOMAIN q /\ at(m) \in DOMAIN q /\ r[k] = q[at(k)] /\ r[m] = q[at(m)]
    BY <1>1
  <2>2. at(k) = at(m)
    BY <2>1 DEF Distinct
  <2> QED
    BY <1>1, <2>2
<1> QED
  BY <1>4, <1>5 DEF r

\* As many distinct elements of a finite set as it has are all of them.
LEMMA ListingLists ==
  ASSUME NEW S \in SUBSET Task, NEW q \in SetToSeqs(S)
  PROVE  Distinct(q) /\ \A u : Holds(q, u) <=> u \in S
<1> DEFINE n == Cardinality(S)
<1>1. IsFiniteSet(S) /\ n \in Nat
  BY FiniteAssumption, FS_Subset, FS_CardinalityType
<1>2. /\ q \in [1..n -> S] /\ DOMAIN q = 1..n
      /\ \A i, j \in 1..n : i # j => q[i] # q[j]
  BY DEF SetToSeqs
<1>3. ASSUME NEW u \in S
      PROVE  Holds(q, u)
  <2> SUFFICES ASSUME ~Holds(q, u)
               PROVE  FALSE
    OBVIOUS
  <2>1. q \in [1..n -> S \ {u}]
    BY <1>2 DEF Holds
  <2>2. IsFiniteSet(S \ {u}) /\ Cardinality(S \ {u}) = n - 1
    BY <1>1, <1>3, FS_RemoveElement
  <2>3. IsFiniteSet(1..n) /\ Cardinality(1..n) = n
    BY <1>1, FS_Interval
  <2>4. \E x, y \in 1..n : x # y /\ q[x] = q[y]
    BY <1>1, <2>1, <2>2, <2>3, FS_PigeonHole
  <2> QED
    BY <1>2, <2>4
<1>4. \A u : Holds(q, u) => u \in S
  BY <1>2 DEF Holds
<1> QED
  BY <1>2, <1>3, <1>4 DEF Distinct

-----------------------------------------------------------------------------
(* Every step keeps the queue exact.                                       *)

Exact(m, q) == Distinct(q) /\ \A t \in Task : m[t] = "queued" <=> Holds(q, t)

LEMMA ExactMeansExact == QueueIsExact <=> Exact(mem, queue)
BY DEF QueueIsExact, Exact, Distinct, Holds

\* The tasks that are QUEUED stay the same, and so does the queue.
LEMMA SameQueued ==
  ASSUME Exact(mem, queue), queue' = queue,
         \A t \in Task : mem'[t] = "queued" <=> mem[t] = "queued"
  PROVE  Exact(mem', queue')
BY DEF Exact

\* Loading a record of a running process does not make it queued.
LEMMA LoadedIsNotQueued ==
  ASSUME Shape, Durable, phase = "up", NEW t \in Task
  PROVE  /\ \A u \in Task : Loaded(t)[u] = "queued" <=> mem[u] = "queued"
         /\ View(t) = "queued" <=> mem[t] = "queued"
         /\ View(t) = "absent" => mem[t] = "absent"
BY DEF Loaded, View, Durable, QueuedIsLoaded, Shape, TypeOK

LEMMA RequestExact ==
  ASSUME Shape, Durable, Exact(mem, queue), NEW t \in Task, Request(t)
  PROVE  Exact(mem', queue')
<1>0. /\ mem \in [Task -> Record] /\ queue \in Seq(Task) /\ phase = "up"
      /\ Loaded(t) \in [Task -> Record] /\ AfterFailedWrite(t) = Loaded(t)
  BY RequestEffect, ViewType DEF Shape, TypeOK, AfterFailedWrite
<1>1. /\ \A u \in Task : Loaded(t)[u] = "queued" <=> mem[u] = "queued"
      /\ View(t) = "queued" <=> mem[t] = "queued"
      /\ View(t) = "absent" => mem[t] = "absent"
  BY <1>0, LoadedIsNotQueued
\* The task was not queued and is put at the tail.
<1>2. ASSUME mem[t] # "queued", mem' = [mem EXCEPT ![t] = "queued"],
             queue' = Append(queue, t)
      PROVE  Exact(mem', queue')
  <2>1. ~Holds(queue, t)
    BY <1>2 DEF Exact
  <2> QED
    BY <1>0, <1>2, <2>1, AppendLists DEF Exact
<1>3. ASSUME mem' = Loaded(t), queue' = queue
      PROVE  Exact(mem', queue')
  BY <1>1, <1>3, SameQueued
<1>4. CASE AddTask(t)
  <2>1. CASE UNCHANGED <<mem, queue>>
    BY <2>1, SameQueued
  <2>2. CASE mem' = [mem EXCEPT ![t] = "queued"] /\ queue' = Append(queue, t)
    BY <1>1, <1>2, <1>4, <2>2 DEF AddTask
  <2> QED
    BY <1>4, <2>1, <2>2 DEF AddTask
<1>5. CASE AddKnownTask(t)
  BY <1>3, <1>5 DEF AddKnownTask
<1>6. CASE GetTask(t)
  <2>1. mem' = Evict(Loaded(t), endedBefore) /\ queue' = queue
    BY <1>6 DEF GetTask
  <2>2. \A u \in Task : mem'[u] = "queued" <=> Loaded(t)[u] = "queued"
    BY <1>0, <2>1, EvictEffect DEF Terminal, Resumable
  <2> QED
    BY <1>1, <2>1, <2>2, SameQueued
<1>7. CASE ResumeTask(t)
  <2>1. CASE mem' = Loaded(t) /\ queue' = queue
    BY <1>3, <2>1
  <2>2. CASE /\ View(t) \in ResumableStatus /\ mem' = [mem EXCEPT ![t] = "queued"]
             /\ queue' = IF t \in ToSet(queue) THEN queue ELSE Append(queue, t)
    <3>1. mem[t] # "queued"
      BY <1>1, <2>2 DEF ResumableStatus, Resumable
    <3>2. t \notin ToSet(queue)
      BY <3>1 DEF Exact, Holds, ToSet
    <3> QED
      BY <1>2, <2>2, <3>1, <3>2
  <2> QED
    BY <1>0, <1>7, <2>1, <2>2 DEF ResumeTask
<1>8. CASE CancelQueued(t)
  <2>1. CASE mem' = Loaded(t) /\ queue' = queue
    BY <1>3, <2>1
  <2>2. ASSUME NEW i \in DOMAIN queue, queue[i] = t, queue' = RemoveAt(queue, i),
               mem' = [mem EXCEPT ![t] = "canceled"]
        PROVE  Exact(mem', queue')
    BY <1>0, <2>2, RemoveAtLists DEF Exact
  <2> QED
    BY <1>0, <1>8, <2>1, <2>2 DEF CancelQueued
<1>9. CASE CancelRunning(t)
  BY <1>3, <1>9 DEF CancelRunning
<1>10. CASE CancelTerminal(t)
  BY <1>3, <1>10 DEF CancelTerminal
<1> QED
  BY <1>4, <1>5, <1>6, <1>7, <1>8, <1>9, <1>10 DEF Request

LEMMA PopExact ==
  ASSUME Shape, Exact(mem, queue), NEW w \in Worker, Pop(w)
  PROVE  Exact(mem', queue')
<1>0. mem \in [Task -> Record] /\ queue \in Seq(Task)
  BY DEF Shape, TypeOK
<1>1. CASE PopBegin(w)
  BY <1>1, SameQueued DEF PopBegin, memVars
<1>2. ASSUME PopSkip(w) \/ \E t \in Task : PopClaim(w, t)
      PROVE  queue # <<>>
  BY <1>2, NobodyAssumption DEF PopSkip, PopClaim, Shape, ScanIsLocal, NoScan
<1>3. CASE PopSkip(w)
  <2> DEFINE t == Head(queue)
             rest == Tail(queue)
  <2>1. /\ t \in Task /\ rest \in Seq(Task) /\ Holds(queue, t)
        /\ \A u : Holds(queue, u) <=> u = t \/ Holds(rest, u)
        /\ Distinct(rest) /\ ~Holds(rest, t)
    BY <1>0, <1>2, <1>3, TailLists DEF Exact
  <2>2. mem' = mem /\ queue' = Append(rest, t)
    BY <1>3, <2>1 DEF PopSkip, Skipped, Exact
  <2> HIDE DEF t, rest
  <2> QED
    BY <2>1, <2>2, AppendLists DEF Exact
<1>4. ASSUME NEW t \in Task, PopClaim(w, t)
      PROVE  Exact(mem', queue')
  <2>1. /\ t = Head(queue) /\ \A u : Holds(queue, u) <=> u = t \/ Holds(Tail(queue), u)
        /\ Distinct(Tail(queue)) /\ ~Holds(Tail(queue), t)
    BY <1>0, <1>2, <1>4, TailLists DEF Exact, PopClaim
  <2>2. CASE mem' = ClaimedMem(t) /\ queue' = Tail(queue)
    BY <1>0, <2>1, <2>2 DEF ClaimedMem, Exact
  <2>3. CASE UNCHANGED <<mem, queue>>
    BY <2>3, SameQueued
  <2> QED
    BY <1>4, <2>2, <2>3 DEF PopClaim
<1> QED
  BY <1>1, <1>3, <1>4 DEF Pop

LEMMA StartExact ==
  ASSUME Shape, Exact(mem, queue), Start
  PROVE  Exact(mem', queue')
<1>1. PICK failed \in SUBSET {t \in Task : disk[t] \in {"queued", "running"}} :
        LET m == RecoveredMem(failed) IN
        \/ mem' = m /\ \E idx \in {index, <<>>} : queue' \in RecoveredQueues(m, idx)
        \/ UNCHANGED memVars
  BY DEF Start
<1>2. CASE UNCHANGED memVars
  BY <1>2, SameQueued DEF memVars
<1>3. ASSUME NEW m, NEW idx, mem' = m, queue' \in RecoveredQueues(m, idx)
      PROVE  Exact(mem', queue')
  <2>1. queue' \in SetToSeqs({t \in Task : m[t] = "queued"})
    BY <1>3 DEF RecoveredQueues
  <2>2. Distinct(queue') /\ \A u : Holds(queue', u) <=> u \in {t \in Task : m[t] = "queued"}
    BY <2>1, ListingLists
  <2> QED
    BY <1>3, <2>2 DEF Exact
<1> QED
  BY <1>1, <1>2, <1>3

LEMMA ExactStep ==
  ASSUME Shape, Durable, Exact(mem, queue), [Next]_vars
  PROVE  Exact(mem', queue')
<1>1. CASE UNCHANGED vars
  BY <1>1, SameQueued DEF vars, memVars
<1>2. ASSUME NEW t \in Task, Request(t)
      PROVE  Exact(mem', queue')
  BY <1>2, RequestExact
<1>3. ASSUME NEW w \in Worker, Pop(w)
      PROVE  Exact(mem', queue')
  BY <1>3, PopExact
<1>4. ASSUME NEW w \in Worker, Execute(w)
      PROVE  Exact(mem', queue')
  <2>1. CASE Finalize(w)
    <3>1. PICK t \in Task : t = worker[w].task /\ Executing(w) /\ mem[t] = "running"
      BY <2>1, FinalizeEffect DEF Durable, ExecutionIsDurable
    <3>2. /\ mem'[t] \in {"absent", Outcome(w)} /\ Outcome(w) \in Terminal
          /\ \A u \in Task \ {t} : mem'[u] = mem[u] \/ (mem[u] \in Terminal /\ mem'[u] = "absent")
      BY <2>1, <3>1, FinalizeEffect, OutcomeType
    <3>3. \A u \in Task : mem'[u] = "queued" <=> mem[u] = "queued"
      BY <3>1, <3>2 DEF Terminal, Resumable
    <3>4. queue' = queue
      BY <2>1 DEF Finalize
    <3> QED
      BY <3>3, <3>4, SameQueued
  <2>2. CASE ~Finalize(w)
    <3>1. UNCHANGED <<mem, queue>>
      BY <1>4, <2>2, ExecutionMoves DEF Execute, execOthers, memVars, Shape
    <3> QED
      BY <3>1, SameQueued
  <2> QED
    BY <2>1, <2>2
<1>5. ASSUME NEW w \in Worker, RetryPersist(w)
      PROVE  Exact(mem', queue')
  BY <1>5, SameQueued DEF RetryPersist, memVars
<1>6. CASE Start
  BY <1>6, StartExact
<1>7. CASE Shutdown \/ \E t \in Task : OrphanLands(t)
  BY <1>7, SameQueued DEF Shutdown, OrphanLands, memVars
<1>8. CASE Closed \/ Crash
  <2>1. queue' = <<>> /\ \A t \in Task : mem'[t] = "absent"
    BY <1>8 DEF Closed, Crash, MemoryLost
  <2> QED
    BY <2>1 DEF Exact, Distinct, Holds
<1> QED
  BY <1>1, <1>2, <1>3, <1>4, <1>5, <1>6, <1>7, <1>8 DEF Next

\* The queue lists the tasks that are QUEUED in memory, each once: through
\* submissions, resumes, cancellations, rotations, failed writes and recoveries.
THEOREM QueueStaysExact == Spec => []QueueIsExact
<1>1. Init => Exact(mem, queue)
  BY DEF Init, Exact, Distinct, Holds
<1>2. Shape /\ Durable /\ Exact(mem, queue) /\ [Next]_vars => Exact(mem, queue)'
  BY ExactStep
<1>3. Spec => []Exact(mem, queue)
  BY <1>1, <1>2, DurableInvariant, PTL DEF Spec
<1> QED
  BY <1>3, ExactMeansExact, PTL
=============================================================================
