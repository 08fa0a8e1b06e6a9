------------------------- MODULE TaskManagerProofs -------------------------
(* Proofs about TaskManager.                                               *)
EXTENDS TaskManager, FiniteSetTheorems, TLAPS

-----------------------------------------------------------------------------
(* What the helpers of the model return and preserve.                      *)

LEMMA StatusTypes ==
  /\ Resumable \subseteq Terminal /\ Terminal \subseteq Record
  /\ {"queued", "running", "absent"} \subseteq Record
BY DEF Resumable, Terminal, Status, Record

LEMMA FreshWorkerTypes ==
  /\ Idle \in WorkerState /\ Paused \in WorkerState
  /\ \A t \in Task : Execution(t) \in WorkerState
<1>1. Idle \in WorkerState
  BY DEF Idle, WorkerState, Results
<1>2. Paused \in WorkerState
  BY DEF Idle, Paused, WorkerState, Results
<1>3. \A t \in Task : Execution(t) \in WorkerState
  BY DEF Idle, Execution, WorkerState, Results
<1> QED
  BY <1>1, <1>2, <1>3

LEMMA WorkerUpdateTypes ==
  ASSUME NEW s \in WorkerState
  PROVE  /\ [s EXCEPT !.pc = "turn"] \in WorkerState
         /\ [s EXCEPT !.pc = "receipt"] \in WorkerState
         /\ \A b \in BOOLEAN : [s EXCEPT !.cancel = b] \in WorkerState
         /\ [s EXCEPT !.cancel = TRUE] \in WorkerState
BY DEF WorkerState

LEMMA WorkerResultTypes ==
  ASSUME NEW s \in WorkerState, NEW r \in Results
  PROVE  /\ [s EXCEPT !.pc = "done", !.result = r] \in WorkerState
         /\ [s EXCEPT !.pc = "done", !.result = r, !.cancel = TRUE] \in WorkerState
<1>1. [s EXCEPT !.pc = "done", !.result = r] \in WorkerState
  BY DEF WorkerState
<1>2. [s EXCEPT !.pc = "done", !.result = r, !.cancel = TRUE] \in WorkerState
  BY DEF WorkerState
<1> QED
  BY <1>1, <1>2

LEMMA CancelKeepsPosition ==
  ASSUME NEW s \in WorkerState, NEW b
  PROVE  [s EXCEPT !.cancel = b].pc = s.pc /\ [s EXCEPT !.cancel = b].task = s.task
BY DEF WorkerState

LEMMA MoveKeepsTask ==
  ASSUME NEW s \in WorkerState
  PROVE  /\ \A r \in Results :
              LET n == [s EXCEPT !.pc = "done", !.result = r] IN
              n.task = s.task /\ n.pc = "done"
         /\ LET n == [s EXCEPT !.pc = "done", !.result = "timeout", !.cancel = TRUE] IN
            n.task = s.task /\ n.pc = "done"
         /\ LET n == [s EXCEPT !.pc = "turn"] IN n.task = s.task /\ n.pc = "turn"
         /\ LET n == [s EXCEPT !.pc = "receipt"] IN n.task = s.task /\ n.pc = "receipt"
<1>1. ASSUME NEW r \in Results
      PROVE  LET n == [s EXCEPT !.pc = "done", !.result = r] IN
             n.task = s.task /\ n.pc = "done"
  BY DEF WorkerState
<1>2. LET n == [s EXCEPT !.pc = "done", !.result = "timeout", !.cancel = TRUE] IN
      n.task = s.task /\ n.pc = "done"
  BY DEF WorkerState
<1>3. LET n == [s EXCEPT !.pc = "turn"] IN n.task = s.task /\ n.pc = "turn"
  BY DEF WorkerState
<1>4. LET n == [s EXCEPT !.pc = "receipt"] IN n.task = s.task /\ n.pc = "receipt"
  BY DEF WorkerState
<1> QED
  BY <1>1, <1>2, <1>3, <1>4

LEMMA BecomesType ==
  ASSUME NEW w \in Worker, NEW s \in WorkerState, worker \in [Worker -> WorkerState],
         Becomes(w, s)
  PROVE  /\ worker' \in [Worker -> WorkerState]
         /\ worker'[w] = s /\ \A v \in Worker \ {w} : worker'[v] = worker[v]
BY DEF Becomes

LEMMA IndexTypes ==
  ASSUME index \in Seq(Task), faults \in Nat,
         NEW q \in Seq(Task), PersistIndexBestEffort(q)
  PROVE  index' \in Seq(Task) /\ faults' \in Nat
BY DEF PersistIndexBestEffort, PersistIndex, PersistIndexFails, Fault, NoFault

LEMMA CommitType ==
  ASSUME disk \in [Task -> Record], NEW m \in [Task -> Record], NEW S, Commit(m, S)
  PROVE  disk' \in [Task -> Record]
BY DEF Commit

LEMMA PersistAllTypes ==
  ASSUME TypeOK, NEW m \in [Task -> Record], NEW q \in Seq(Task),
         PersistAll(m, q) \/ PersistAllFails(m)
  PROVE  disk' \in [Task -> Record] /\ index' \in Seq(Task) /\ faults' \in Nat
<1>1. CASE PersistAll(m, q)
  <2>1. disk' \in [Task -> Record]
    BY <1>1, CommitType DEF PersistAll, TypeOK
  <2>2. PersistIndexBestEffort(q)
    BY <1>1 DEF PersistAll
  <2> QED
    BY <2>1, <2>2, IndexTypes DEF TypeOK
<1>2. CASE PersistAllFails(m)
  <2>1. \E S : Commit(m, S)
    BY <1>2 DEF PersistAllFails
  <2>2. disk' \in [Task -> Record]
    BY <2>1, CommitType DEF TypeOK
  <2> QED
    BY <1>2, <2>2 DEF PersistAllFails, Fault, TypeOK
<1> QED
  BY <1>1, <1>2

LEMMA ViewType ==
  ASSUME TypeOK, NEW t \in Task
  PROVE  View(t) \in Record /\ Loaded(t) \in [Task -> Record]
BY DEF TypeOK, View, Loaded

LEMMA EvictType ==
  ASSUME NEW m \in [Task -> Record], NEW before
  PROVE  Evict(m, before) \in [Task -> Record]
BY StatusTypes DEF Evict

LEMMA EndedType ==
  ASSUME TypeOK, NEW o \in Seq(Task)
  PROVE  Ended(o) \subseteq Task \X Task
BY DEF TypeOK, Ended, ToSet

LEMMA RemoveAtType ==
  ASSUME NEW S, NEW s \in Seq(S), NEW i \in DOMAIN s
  PROVE  RemoveAt(s, i) \in Seq(S)
BY DEF RemoveAt

LEMMA ListingType ==
  ASSUME NEW S \in SUBSET Task, NEW q \in SetToSeqs(S)
  PROVE  q \in Seq(Task)
<1>1. Cardinality(S) \in Nat
  BY FiniteAssumption, FS_Subset, FS_CardinalityType
<1>2. q \in [1..Cardinality(S) -> S]
  BY DEF SetToSeqs
<1> QED
  BY <1>1, <1>2

LEMMA OutcomeType == \A w \in Worker : Outcome(w) \in Terminal
BY DEF Outcome, Terminal, Resumable

-----------------------------------------------------------------------------
(* Types, and the shape of a dead process and of a pop loop.               *)

Shape == TypeOK /\ ExecutionHasTask /\ ScanIsLocal /\ DownIsEmpty

LEMMA ShapeInit == Init => Shape
<1> SUFFICES ASSUME Init PROVE Shape
  OBVIOUS
<1>1. NoScan \in [by : Worker \cup {Nobody}, left : Nat]
  BY DEF NoScan
<1>3. [t \in Task |-> "absent"] \in [Task -> Record] /\ <<>> \in Seq(Task)
  BY StatusTypes
<1>4. [w \in Worker |-> Idle] \in [Worker -> WorkerState]
  BY FreshWorkerTypes
<1>2. TypeOK
  BY <1>1, <1>3, <1>4 DEF Init, TypeOK
<1> QED
  BY <1>2 DEF Init, Shape, ExecutionHasTask, ScanIsLocal, DownIsEmpty, Executing, Idle

\* Requests change neither the position of a worker nor the pop loop.
LEMMA RequestShape ==
  ASSUME Shape, NEW t \in Task, Request(t)
  PROVE  Shape'
<1> USE DEF Shape
<1>0. /\ \A r \in Status : [mem EXCEPT ![t] = r] \in [Task -> Record]
      /\ \A r \in Record : [disk EXCEPT ![t] = r] \in [Task -> Record]
      /\ Append(queue, t) \in Seq(Task)
      /\ AfterFailedWrite(t) \in [Task -> Record] /\ Loaded(t) \in [Task -> Record]
      /\ View(t) \in Record
      /\ {"queued", "canceled"} \subseteq Status /\ Status \subseteq Record
  BY ViewType DEF TypeOK, Status, Record, Terminal, Resumable, AfterFailedWrite
<1>1. CASE AddTask(t)
  <2>1. /\ mem' \in [Task -> Record] /\ disk' \in [Task -> Record]
        /\ queue' \in Seq(Task) /\ index' \in Seq(Task) /\ faults' \in Nat
    <3>1. queue' \in Seq(Task)
      BY <1>0, <1>1 DEF AddTask, TypeOK
    <3>2. mem' \in [Task -> Record]
      BY <1>0, <1>1 DEF AddTask, TypeOK
    <3>3. disk' \in [Task -> Record]
      BY <1>0, <1>1 DEF AddTask, TypeOK, diskVars
    <3>4. index' \in Seq(Task) /\ faults' \in Nat
      BY <3>1, <1>1, IndexTypes DEF AddTask, TypeOK, diskVars, Fault
    <3> QED BY <3>1, <3>2, <3>3, <3>4
  <2> QED
    BY <1>1, <2>1 DEF AddTask, Serving, TypeOK, ExecutionHasTask, ScanIsLocal, DownIsEmpty,
       Executing, execVars, receiptVars, boundVars
<1>2. CASE AddKnownTask(t) \/ GetTask(t)
  <2>1. mem' \in [Task -> Record]
    BY <1>0, <1>2, EvictType DEF AddKnownTask, GetTask
  <2> QED
    BY <1>2, <2>1 DEF AddKnownTask, GetTask, Serving, TypeOK, ExecutionHasTask, ScanIsLocal,
       DownIsEmpty, Executing, execVars, diskVars, receiptVars, boundVars
<1>3. CASE ResumeTask(t)
  <2>1. /\ mem' \in [Task -> Record] /\ disk' \in [Task -> Record]
        /\ queue' \in Seq(Task) /\ index' \in Seq(Task) /\ faults' \in Nat
        /\ resumes' \in Nat /\ endedBefore' \subseteq Task \X Task
    <3>1. queue' \in Seq(Task)
      BY <1>0, <1>3 DEF ResumeTask, TypeOK
    <3>2. mem' \in [Task -> Record]
      BY <1>0, <1>3 DEF ResumeTask, TypeOK
    <3>3. disk' \in [Task -> Record]
      BY <1>0, <1>3 DEF ResumeTask, TypeOK, diskVars
    <3>4. index' \in Seq(Task) /\ faults' \in Nat
      BY <3>1, <1>3, IndexTypes DEF ResumeTask, TypeOK, diskVars, Fault
    <3>5. resumes' \in Nat
      BY <1>3 DEF ResumeTask, TypeOK
    <3>6. endedBefore' \subseteq Task \X Task
      BY <1>3 DEF ResumeTask, TypeOK, Reopened
    <3> QED
      BY <3>1, <3>2, <3>3, <3>4, <3>5, <3>6
  <2> QED
    BY <1>3, <2>1 DEF ResumeTask, Serving, TypeOK, ExecutionHasTask, ScanIsLocal, DownIsEmpty,
       Executing, execVars, receiptVars
<1>4. CASE CancelQueued(t)
  <2>1. <<t>> \in Seq(Task)
    OBVIOUS
  <2>2. endedBefore' \subseteq Task \X Task
    BY <1>4, <2>1, EndedType DEF CancelQueued, TypeOK
  <2>3. queue' \in Seq(Task)
    BY <1>4, RemoveAtType DEF CancelQueued, TypeOK
  <2>4. /\ mem' \in [Task -> Record] /\ disk' \in [Task -> Record]
        /\ index' \in Seq(Task) /\ faults' \in Nat
    <3>1. mem' \in [Task -> Record]
      BY <1>0, <1>4 DEF CancelQueued, TypeOK
    <3>2. disk' \in [Task -> Record]
      BY <1>0, <1>4 DEF CancelQueued, TypeOK, diskVars
    <3>3. index' \in Seq(Task) /\ faults' \in Nat
      BY <2>3, <1>4, IndexTypes DEF CancelQueued, TypeOK, diskVars, Fault
    <3> QED
      BY <3>1, <3>2, <3>3
  <2> QED
    BY <1>4, <2>2, <2>3, <2>4 DEF CancelQueued, Serving, TypeOK, ExecutionHasTask,
       ScanIsLocal, DownIsEmpty, Executing, execVars, receiptVars, boundVars
<1>5. CASE CancelRunning(t)
  <2>1. worker' \in [Worker -> WorkerState]
    <3>1. worker' = worker \/
            worker' = [w \in Worker |-> IF w = token[t] THEN [worker[w] EXCEPT !.cancel = TRUE]
                                                        ELSE worker[w]]
      BY <1>5 DEF CancelRunning
    <3>2. \A w \in Worker : [worker[w] EXCEPT !.cancel = TRUE] \in WorkerState
      BY WorkerUpdateTypes DEF TypeOK
    <3>3. worker \in [Worker -> WorkerState]
      BY DEF TypeOK
    <3> QED
      BY <3>1, <3>2, <3>3
  <2>2. \A w \in Worker : worker'[w].pc = worker[w].pc /\ worker'[w].task = worker[w].task
    <3>1. worker' = worker \/
            worker' = [w \in Worker |-> IF w = token[t] THEN [worker[w] EXCEPT !.cancel = TRUE]
                                                        ELSE worker[w]]
      BY <1>5 DEF CancelRunning
    <3>2. \A w \in Worker : LET c == [worker[w] EXCEPT !.cancel = TRUE] IN
                              c.pc = worker[w].pc /\ c.task = worker[w].task
      BY CancelKeepsPosition DEF TypeOK
    <3> QED
      BY <3>1, <3>2
  <2>3. /\ mem' \in [Task -> Record] /\ disk' \in [Task -> Record]
        /\ index' \in Seq(Task) /\ faults' \in Nat /\ asked' \subseteq Task
    <3>1. index' \in Seq(Task) /\ faults' \in Nat
      BY <1>5, IndexTypes DEF CancelRunning, TypeOK, diskVars, Fault
    <3> QED
      BY <1>0, <1>5, <3>1 DEF CancelRunning, TypeOK, diskVars
  <2> QED
    BY <1>5, <2>1, <2>2, <2>3 DEF CancelRunning, Serving, TypeOK, ExecutionHasTask,
       ScanIsLocal, DownIsEmpty, Executing, receiptVars, boundVars
<1>6. CASE CancelTerminal(t)
  <2>1. /\ mem' \in [Task -> Record] /\ disk' \in [Task -> Record]
        /\ index' \in Seq(Task) /\ faults' \in Nat
    <3>1. index' \in Seq(Task) /\ faults' \in Nat
      BY <1>6, IndexTypes DEF CancelTerminal, TypeOK, diskVars, Fault
    <3> QED
      BY <1>0, <1>6, <3>1 DEF CancelTerminal, TypeOK, diskVars
  <2> QED
    BY <1>6, <2>1 DEF CancelTerminal, Serving, TypeOK, ExecutionHasTask, ScanIsLocal,
       DownIsEmpty, Executing, execVars, receiptVars, boundVars
<1> QED
  BY <1>1, <1>2, <1>3, <1>4, <1>5, <1>6 DEF Request

\* The pop loop: an iteration that does not end it leaves iterations and a queue.
LEMMA PopShape ==
  ASSUME Shape, NEW w \in Worker, Pop(w)
  PROVE  Shape'
<1> USE DEF Shape
<1>0. w # Nobody
  BY NobodyAssumption
<1>1. CASE PopBegin(w)
  <2>1. scan' \in [by : Worker \cup {Nobody}, left : Nat] /\ scan'.left > 0 /\ scan'.by = w
    BY <1>1 DEF PopBegin, TypeOK
  <2> QED
    BY <1>1, <2>1 DEF PopBegin, Serving, TypeOK, ExecutionHasTask, ScanIsLocal, DownIsEmpty,
       Executing, memVars, execVars, diskVars, receiptVars, boundVars
<1>2. scan.by = w => scan # NoScan
  BY <1>0 DEF NoScan
<1>3. CASE PopSkip(w)
  <2>1. phase = "up" /\ queue # <<>> /\ scan.left > 0 /\ worker[w].pc = "loop"
    BY <1>2, <1>3 DEF PopSkip, ScanIsLocal
  <2>2. queue' \in Seq(Task)
    BY <1>3, <2>1 DEF PopSkip, Skipped, TypeOK
  <2>3. index' \in Seq(Task) /\ faults' \in Nat
    BY <1>3, <2>2 DEF PopSkip, TypeOK, PersistIndex, PersistIndexFails, Fault, NoFault
  <2>4. /\ worker' \in [Worker -> WorkerState]
        /\ worker' = worker \/ (worker'[w] = Paused /\ scan' = NoScan)
        /\ \A v \in Worker \ {w} : worker'[v] = worker[v]
    BY <1>3, FreshWorkerTypes, BecomesType DEF PopSkip, TypeOK
  <2>5. ExecutionHasTask'
    BY <2>4 DEF ExecutionHasTask, Executing, Paused, Idle
  <2>6. /\ scan' \in [by : Worker \cup {Nobody}, left : Nat]
        /\ scan' = NoScan \/ (scan'.by = w /\ scan'.left > 0 /\ queue' # <<>> /\ worker' = worker)
    <3>1. CASE scan' = NoScan
      BY <3>1 DEF NoScan
    <3>2. CASE scan' # NoScan
      <4>1. /\ scan' = [scan EXCEPT !.left = @ - 1] /\ scan.left # 1 /\ scan.by = w
            /\ queue' # <<>> /\ worker' = worker
        BY <1>3, <3>2 DEF PopSkip
      <4>2. scan \in [by : Worker \cup {Nobody}, left : Nat]
        BY DEF TypeOK
      <4>3. scan.left - 1 \in Nat /\ scan.left - 1 > 0
        BY <2>1, <4>1, <4>2
      <4> QED
        BY <4>1, <4>2, <4>3
    <3> QED
      BY <3>1, <3>2
  <2>7. phase' = "up"
    BY <1>3, <2>1 DEF PopSkip
  <2>8. ScanIsLocal' /\ DownIsEmpty'
    BY <2>1, <2>6, <2>7 DEF ScanIsLocal, DownIsEmpty
  <2>9. TypeOK'
    BY <1>3, <2>2, <2>3, <2>4, <2>6, <2>7 DEF PopSkip, TypeOK, receiptVars, boundVars
  <2> QED
    BY <2>5, <2>8, <2>9
<1>4. ASSUME NEW t \in Task, PopClaim(w, t)
      PROVE  Shape'
  <2>1. phase = "up" /\ queue # <<>> /\ worker[w].pc = "loop"
    BY <1>2, <1>4 DEF PopClaim, ScanIsLocal
  <2>2. ClaimedMem(t) \in [Task -> Record]
    BY StatusTypes DEF ClaimedMem, TypeOK
  <2>3. mem' \in [Task -> Record] /\ queue' \in Seq(Task) /\ asked' \subseteq Task
    <3>1. mem' \in {mem, ClaimedMem(t)} /\ queue' \in {queue, Tail(queue)}
          /\ asked' \in {asked, asked \ {t}}
      BY <1>4 DEF PopClaim
    <3>2. Tail(queue) \in Seq(Task)
      BY <2>1 DEF TypeOK
    <3> QED
      BY <2>2, <3>1, <3>2 DEF TypeOK
  <2>4. disk' \in [Task -> Record] /\ index' \in Seq(Task) /\ faults' \in Nat
    BY <1>4, <2>2, <2>3, PersistAllTypes DEF PopClaim
  <2>5. token' \in [Task -> Worker \cup {Nobody}]
    BY <1>4 DEF PopClaim, TypeOK
  <2>6. /\ worker' \in [Worker -> WorkerState]
        /\ worker'[w] \in {Paused, Execution(t)}
        /\ \A v \in Worker \ {w} : worker'[v] = worker[v]
    BY <1>4, FreshWorkerTypes, BecomesType DEF PopClaim, TypeOK
  <2>7. ExecutionHasTask'
    BY <2>6 DEF ExecutionHasTask, Executing, Paused, Execution, Idle
  <2>8. scan' = NoScan /\ phase' = "up"
    BY <1>4, <2>1 DEF PopClaim
  <2>9. TypeOK'
    BY <1>4, <2>3, <2>4, <2>5, <2>6, <2>8
    DEF PopClaim, TypeOK, receiptVars, boundVars, NoScan
  <2> QED
    BY <2>7, <2>8, <2>9 DEF ScanIsLocal, DownIsEmpty
<1> QED
  BY <1>1, <1>3, <1>4 DEF Pop

\* A step of an execution moves its worker, which keeps its task.
LEMMA ExecutionMoves ==
  ASSUME TypeOK, NEW w \in Worker,
         ExecuteBegin(w) \/ TurnEnds(w) \/ ReceiptWritten(w) \/ ReceiptAbandoned(w)
  PROVE  /\ worker' \in [Worker -> WorkerState]
         /\ worker'[w].task = worker[w].task
         /\ \A v \in Worker \ {w} : worker'[v] = worker[v]
         /\ phase # "down" /\ scan = NoScan /\ Executing(w) /\ UNCHANGED execOthers
         /\ Executing(w)'
<1>0. worker[w] \in WorkerState /\ worker \in [Worker -> WorkerState]
  BY DEF TypeOK
<1>1. \E s \in WorkerState :
        /\ s.task = worker[w].task /\ s.pc \in {"turn", "receipt", "done"}
        /\ Becomes(w, s)
  <2>1. \/ \E x \in Results : Returns(w, x)
        \/ TimesOut(w)
        \/ Becomes(w, [worker[w] EXCEPT !.pc = "turn"])
        \/ Becomes(w, [worker[w] EXCEPT !.pc = "receipt"])
    BY DEF ExecuteBegin, TurnEnds, ReceiptWritten, ReceiptAbandoned, Results
  <2>2. ASSUME NEW x \in Results, Returns(w, x)
        PROVE  \E s \in WorkerState : /\ s.task = worker[w].task /\ s.pc = "done"
                                      /\ Becomes(w, s)
    BY <1>0, <2>2, MoveKeepsTask, WorkerResultTypes DEF Returns
  <2>3. CASE TimesOut(w)
    <3>1. "timeout" \in Results
      BY DEF Results
    <3> QED
      BY <1>0, <2>3, <3>1, MoveKeepsTask, WorkerResultTypes DEF TimesOut
  <2>4. CASE Becomes(w, [worker[w] EXCEPT !.pc = "turn"])
    BY <1>0, <2>4, MoveKeepsTask, WorkerUpdateTypes
  <2>5. CASE Becomes(w, [worker[w] EXCEPT !.pc = "receipt"])
    BY <1>0, <2>5, MoveKeepsTask, WorkerUpdateTypes
  <2> QED
    BY <2>1, <2>2, <2>3, <2>4, <2>5
<1>2. /\ worker' \in [Worker -> WorkerState]
      /\ worker'[w].task = worker[w].task
      /\ worker'[w].pc \in {"turn", "receipt", "done"}
      /\ \A v \in Worker \ {w} : worker'[v] = worker[v]
  BY <1>0, <1>1, BecomesType
<1>3. phase # "down" /\ scan = NoScan /\ Executing(w) /\ UNCHANGED execOthers
  BY DEF ExecuteBegin, TurnEnds, ReceiptWritten, ReceiptAbandoned, Running, Executing
<1> QED
  BY <1>2, <1>3 DEF Executing

\* An execution keeps its task; only its worker moves.
LEMMA ExecuteShape ==
  ASSUME Shape, NEW w \in Worker, Execute(w) \/ RetryPersist(w)
  PROVE  Shape'
<1> USE DEF Shape
<1>0. worker[w] \in WorkerState /\ worker \in [Worker -> WorkerState]
  BY DEF TypeOK
<1>1. CASE ExecuteBegin(w) \/ TurnEnds(w) \/ ReceiptWritten(w) \/ ReceiptAbandoned(w)
  <2>3. /\ worker' \in [Worker -> WorkerState]
        /\ worker'[w].task = worker[w].task
        /\ \A v \in Worker \ {w} : worker'[v] = worker[v]
    BY <1>1, ExecutionMoves
  <2>4. phase # "down" /\ scan = NoScan /\ Executing(w) /\ UNCHANGED execOthers
    BY <1>1, ExecutionMoves
  <2>5. ExecutionHasTask'
    BY <2>3, <2>4 DEF ExecutionHasTask, Executing
  <2>6. worker[w].task \in Task
    BY <2>4 DEF ExecutionHasTask
  <2>7. /\ receipt' \subseteq Task /\ recorded' \subseteq Task
        /\ orphans' \in [Task -> Nat] /\ faults' \in Nat
    <3>1. /\ receipt' \in {receipt, receipt \cup {worker[w].task}}
          /\ recorded' \in {recorded, recorded \cup {worker[w].task}}
      BY <1>1 DEF ExecuteBegin, TurnEnds, ReceiptWritten, ReceiptAbandoned, receiptVars
    <3>2. orphans' = orphans \/ orphans' = [orphans EXCEPT ![worker[w].task] = @ + 1]
      BY <1>1 DEF ExecuteBegin, TurnEnds, ReceiptWritten, ReceiptAbandoned, receiptVars
    <3>3. faults' = faults \/ faults' = faults + 1
      BY <1>1 DEF ExecuteBegin, TurnEnds, ReceiptWritten, ReceiptAbandoned, Fault, NoFault
    <3>4. orphans' \in [Task -> Nat]
      BY <2>6, <3>2 DEF TypeOK
    <3> QED
      BY <2>6, <3>1, <3>3, <3>4 DEF TypeOK
  <2> QED
    BY <2>3, <2>4, <2>5, <2>7
    DEF execOthers, memVars, diskVars, boundVars, TypeOK, ScanIsLocal, DownIsEmpty
<1>2. CASE Finalize(w)
  <2>1. phase # "down" /\ scan = NoScan /\ Executing(w) /\ worker[w].task \in Task
    BY <1>2 DEF Finalize, Running, Executing, ExecutionHasTask
  <2>2. FinalMem(w) \in [Task -> Record]
    BY StatusTypes, OutcomeType DEF FinalMem, TypeOK
  <2>3. mem' \in [Task -> Record]
    BY <1>2, <2>2, EvictType DEF Finalize
  <2>4. disk' \in [Task -> Record] /\ index' \in Seq(Task) /\ faults' \in Nat
    <3>1. queue \in Seq(Task) /\ disk \in [Task -> Record] /\ faults \in Nat
      BY DEF TypeOK
    <3>2. CASE PersistAll(FinalMem(w), queue) \/ PersistAllFails(FinalMem(w))
      BY <2>2, <3>1, <3>2, PersistAllTypes
    <3>3. CASE Commit(FinalMem(w), Dirty(FinalMem(w))) /\ index' = queue /\ Fault
      BY <2>2, <3>1, <3>3, CommitType DEF Fault
    <3> QED
      BY <1>2, <3>2, <3>3 DEF Finalize
  <2>5. /\ worker' \in [Worker -> WorkerState] /\ ~Executing(w)'
        /\ \A v \in Worker \ {w} : worker'[v] = worker[v]
    <3>1. Becomes(w, Idle) \/ Becomes(w, Paused)
      BY <1>2 DEF Finalize
    <3> QED
      BY <1>0, <3>1, FreshWorkerTypes, BecomesType DEF Executing, Idle, Paused
  <2>6. endedBefore' \subseteq Task \X Task
    <3>1. <<worker[w].task>> \in Seq(Task)
      BY <2>1
    <3> QED
      BY <1>2, <3>1, EndedType DEF Finalize
  <2>7. receipt' \subseteq Task
    BY <1>2 DEF Finalize, ReceiptAfterCommit, ReceiptAfterFailure, TypeOK
  <2>8. token' \in [Task -> Worker \cup {Nobody}]
    BY <1>2 DEF Finalize, TypeOK
  <2>9. ExecutionHasTask'
    BY <2>5 DEF ExecutionHasTask, Executing
  <2>10. UNCHANGED <<phase, queue, scan, orphans, recorded, boundVars, asked>>
    BY <1>2 DEF Finalize
  <2>11. TypeOK'
    BY <2>3, <2>4, <2>5, <2>6, <2>7, <2>8, <2>10 DEF TypeOK, boundVars
  <2> QED
    BY <2>1, <2>9, <2>10, <2>11 DEF ScanIsLocal, DownIsEmpty
<1>3. CASE RetryPersist(w)
  <2>1. disk' \in [Task -> Record] /\ index' \in Seq(Task) /\ faults' \in Nat
    BY <1>3, PersistAllTypes DEF RetryPersist, TypeOK
  <2>2. Becomes(w, Idle) \/ worker' = worker
    BY <1>3 DEF RetryPersist
  <2>3. /\ worker' \in [Worker -> WorkerState]
        /\ worker' = worker \/ worker'[w] = Idle
        /\ \A v \in Worker \ {w} : worker'[v] = worker[v]
    BY <1>0, <2>2, FreshWorkerTypes, BecomesType
  <2>4. ExecutionHasTask'
    BY <2>3 DEF ExecutionHasTask, Executing, Idle
  <2> QED
    BY <1>3, <2>1, <2>3, <2>4 DEF RetryPersist, Serving, TypeOK, ScanIsLocal, DownIsEmpty,
       memVars, receiptVars, boundVars
<1> QED
  BY <1>1, <1>2, <1>3 DEF Execute

LEMMA ProcessShape ==
  ASSUME Shape, Start \/ Shutdown \/ Closed \/ Crash \/ \E t \in Task : OrphanLands(t)
  PROVE  Shape'
<1> USE DEF Shape
<1>1. CASE Start
  <2>1. PICK failed \in SUBSET {t \in Task : disk[t] \in {"queued", "running"}} :
          LET m == RecoveredMem(failed) IN
          \/ /\ phase' = "up" /\ mem' = m
             /\ \E idx \in {index, <<>>} : queue' \in RecoveredQueues(m, idx)
             /\ \E o \in SetToSeqs(failed) : endedBefore' = Ended(o)
             /\ PersistAll(m, queue')
          \/ PersistAllFails(m) /\ UNCHANGED <<phase, memVars>>
    BY <1>1 DEF Start
  <2>2. RecoveredMem(failed) \in [Task -> Record]
    BY StatusTypes DEF RecoveredMem, TypeOK, Terminal, Resumable, Record, Status
  <2>3. queue' \in Seq(Task)
    <3>1. \A idx : \A q \in RecoveredQueues(RecoveredMem(failed), idx) : q \in Seq(Task)
      BY ListingType DEF RecoveredQueues
    <3> QED
      BY <2>1, <3>1 DEF TypeOK, memVars
  <2>4. endedBefore' \subseteq Task \X Task
    <3>1. \A o \in SetToSeqs(failed) : o \in Seq(Task)
      BY <2>1, ListingType
    <3> QED
      BY <2>1, <3>1, EndedType DEF TypeOK, memVars
  <2>5. mem' \in [Task -> Record] /\ phase' \in {"down", "up"}
    BY <1>1, <2>1, <2>2 DEF TypeOK, memVars, Start
  <2>6. disk' \in [Task -> Record] /\ index' \in Seq(Task) /\ faults' \in Nat
    BY <2>1, <2>2, <2>3, PersistAllTypes
  <2>7. scan = NoScan /\ \A w \in Worker : ~Executing(w)
    BY <1>1 DEF Start, ScanIsLocal, DownIsEmpty
  <2>8. UNCHANGED <<scan, execVars, receiptVars, boundVars, asked>>
    BY <1>1 DEF Start
  <2>9. TypeOK'
    BY <2>3, <2>4, <2>5, <2>6, <2>8 DEF TypeOK, execVars, receiptVars, boundVars
  <2>10. DownIsEmpty'
    BY <1>1, <2>1, <2>7, <2>8 DEF DownIsEmpty, Executing, execVars, memVars, Start
  <2> QED
    BY <2>7, <2>8, <2>9, <2>10 DEF ScanIsLocal, ExecutionHasTask, Executing, execVars
<1>2. CASE Shutdown
  <2>1. worker' = [w \in Worker |-> [worker[w] EXCEPT !.cancel = Executing(w)]]
    BY <1>2 DEF Shutdown
  <2>2. \A w \in Worker : Executing(w) \in BOOLEAN
    BY DEF Executing
  <2>3. worker' \in [Worker -> WorkerState]
    BY <2>1, <2>2, WorkerUpdateTypes DEF TypeOK
  <2>4. \A w \in Worker : LET c == [worker[w] EXCEPT !.cancel = Executing(w)] IN
                          c.pc = worker[w].pc /\ c.task = worker[w].task
    BY CancelKeepsPosition DEF TypeOK
  <2>5. \A w \in Worker : worker'[w].pc = worker[w].pc /\ worker'[w].task = worker[w].task
    BY <2>1, <2>2, <2>4
  <2>6. \A w \in Worker : Executing(w)' <=> Executing(w)
    BY <2>5 DEF Executing
  <2>7. TypeOK'
    <3>1. /\ phase' = "stopping" /\ stops' = stops + 1
          /\ UNCHANGED <<mem, queue, endedBefore, scan, token, disk, index, receipt, orphans,
                         recorded, faults, resumes, asked>>
      BY <1>2 DEF Shutdown, memVars, diskVars, receiptVars
    <3>2. TypeOK
      OBVIOUS
    <3> QED
      BY <2>3, <3>1, <3>2 DEF TypeOK
  <2>8. ExecutionHasTask'
    BY <2>5, <2>6 DEF ExecutionHasTask
  <2> QED
    BY <1>2, <2>7, <2>8 DEF Shutdown, Serving, ScanIsLocal, DownIsEmpty
<1>3. CASE Closed \/ Crash
  <2>1. MemoryLost
    BY <1>3 DEF Closed, Crash
  <2>2. /\ phase' = "down" /\ scan' = NoScan /\ queue' = <<>>
        /\ worker' = [w \in Worker |-> Idle]
        /\ mem' = [t \in Task |-> "absent"] /\ token' = [t \in Task |-> Nobody]
    BY <2>1 DEF MemoryLost
  <2>3. /\ scan' \in [by : Worker \cup {Nobody}, left : Nat] /\ queue' \in Seq(Task)
        /\ worker' \in [Worker -> WorkerState] /\ mem' \in [Task -> Record]
        /\ token' \in [Task -> Worker \cup {Nobody}]
    BY <2>2, FreshWorkerTypes, StatusTypes DEF NoScan
  <2>4. \A w \in Worker : ~Executing(w)'
    BY <2>2 DEF Executing, Idle
  <2>5. TypeOK'
    BY <1>3, <2>2, <2>3 DEF Closed, Crash, TypeOK, diskVars, receiptVars, boundVars
  <2> QED
    BY <2>2, <2>4, <2>5 DEF ExecutionHasTask, ScanIsLocal, DownIsEmpty
<1>4. ASSUME NEW t \in Task, OrphanLands(t)
      PROVE  Shape'
  BY <1>4 DEF OrphanLands, TypeOK, ExecutionHasTask, ScanIsLocal, DownIsEmpty, Executing,
     memVars, execVars, diskVars, boundVars
<1> QED
  BY <1>1, <1>2, <1>3, <1>4

LEMMA ShapeStep ==
  ASSUME Shape, [Next]_vars
  PROVE  Shape'
<1>1. CASE UNCHANGED vars
  BY <1>1 DEF vars, memVars, execVars, diskVars, receiptVars, boundVars, Shape, TypeOK,
     ExecutionHasTask, ScanIsLocal, DownIsEmpty, Executing
<1>2. CASE Next
  BY <1>2, RequestShape, PopShape, ExecuteShape, ProcessShape DEF Next
<1> QED
  BY <1>1, <1>2

LEMMA ShapeInvariant == Spec => []Shape
BY ShapeInit, ShapeStep, PTL DEF Spec

\* Every variable has its type in every reachable state, whatever the tasks,
\* the workers and the bounds are.
THEOREM TypeCorrect == Spec => []TypeOK
BY ShapeInvariant, PTL DEF Shape

-----------------------------------------------------------------------------
(* Memory, disk and executions agree.                                      *)

Durable ==
  ExecutionIsDurable /\ RecordsAreCoherent /\ QueuedIsLoaded /\ TokensAreLive

LEMMA DurableInit == Init => Durable
BY DEF Init, Durable, ExecutionIsDurable, RecordsAreCoherent, QueuedIsLoaded, TokensAreLive,
   Executing, Idle

\* What a commit of the records of m leaves on disk.
LEMMA CommitEffect ==
  ASSUME NEW m \in [Task -> Record], TypeOK, Commit(m, Dirty(m))
  PROVE  \A t \in Task : disk'[t] = IF m[t] = "absent" THEN disk[t] ELSE m[t]
BY DEF Commit, Dirty, TypeOK

LEMMA PartialCommitEffect ==
  ASSUME NEW m \in [Task -> Record], TypeOK, PersistAllFails(m)
  PROVE  \A t \in Task : disk'[t] \in {disk[t], m[t]} /\ (m[t] = "absent" => disk'[t] = disk[t])
BY DEF PersistAllFails, Commit, Dirty, TypeOK

LEMMA EvictEffect ==
  ASSUME NEW m \in [Task -> Record], NEW before, NEW t \in Task
  PROVE  \/ Evict(m, before)[t] = m[t]
         \/ m[t] \in Terminal /\ Evict(m, before)[t] = "absent"
BY DEF Evict, Evictable

\* A request moves no worker; it leaves the records of the other tasks alone,
\* but may drop terminal ones from memory; what it does to its own task:
LEMMA RequestEffect ==
  ASSUME Shape, NEW t \in Task, Request(t)
  PROVE  /\ phase = "up" /\ phase' = "up" /\ token' = token
         /\ \A w \in Worker : /\ Executing(w)' <=> Executing(w)
                              /\ worker'[w].task = worker[w].task
                              /\ worker'[w].pc = worker[w].pc
         /\ receipt' = receipt /\ recorded' = recorded
         /\ \A u \in Task \ {t} :
              /\ disk'[u] = disk[u]
              /\ mem'[u] = mem[u] \/ (mem[u] \in Terminal /\ mem'[u] = "absent")
         /\ \/ View(t) = "absent" /\ mem'[t] = "queued" /\ disk'[t] = "queued"
            \/ View(t) = "absent" /\ mem'[t] = mem[t] /\ disk'[t] = disk[t]
            \/ mem'[t] = View(t) /\ disk'[t] = disk[t]
            \/ View(t) \in Terminal /\ mem'[t] = "absent" /\ disk'[t] = disk[t]
            \/ View(t) \in Resumable /\ mem'[t] = "queued" /\ disk'[t] = "queued"
            \/ View(t) = "queued" /\ mem'[t] = "canceled" /\ disk'[t] = "canceled"
            \/ View(t) \in Terminal /\ mem'[t] = View(t) /\ disk'[t] = View(t)
<1>0. /\ mem \in [Task -> Record] /\ disk \in [Task -> Record]
      /\ Loaded(t) \in [Task -> Record] /\ Loaded(t)[t] = View(t)
      /\ \A u \in Task \ {t} : Loaded(t)[u] = mem[u]
      /\ AfterFailedWrite(t) = Loaded(t)
  BY ViewType DEF Shape, TypeOK, Loaded, AfterFailedWrite
<1>1. /\ phase = "up" /\ phase' = "up" /\ token' = token
      /\ receipt' = receipt /\ recorded' = recorded
  BY DEF Request, AddTask, AddKnownTask, GetTask, ResumeTask, CancelQueued, CancelRunning,
     CancelTerminal, Serving, execVars, receiptVars
<1>2. \A w \in Worker : worker'[w].task = worker[w].task /\ worker'[w].pc = worker[w].pc
  <2>1. CASE CancelRunning(t)
    <3>1. worker' = worker \/
            worker' = [w \in Worker |-> IF w = token[t] THEN [worker[w] EXCEPT !.cancel = TRUE]
                                                        ELSE worker[w]]
      BY <2>1 DEF CancelRunning
    <3>2. \A w \in Worker : /\ [worker[w] EXCEPT !.cancel = TRUE].pc = worker[w].pc
                            /\ [worker[w] EXCEPT !.cancel = TRUE].task = worker[w].task
      BY CancelKeepsPosition DEF Shape, TypeOK
    <3> QED
      BY <3>1, <3>2
  <2>2. CASE ~CancelRunning(t)
    BY <2>2 DEF Request, AddTask, AddKnownTask, GetTask, ResumeTask, CancelQueued,
       CancelTerminal, execVars
  <2> QED
    BY <2>1, <2>2
<1>3. \A w \in Worker : Executing(w)' <=> Executing(w)
  BY <1>2 DEF Executing
<1>4. CASE AddTask(t)
  BY <1>0, <1>1, <1>2, <1>3, <1>4 DEF AddTask, diskVars
<1>5. CASE AddKnownTask(t)
  BY <1>0, <1>1, <1>2, <1>3, <1>5 DEF AddKnownTask, diskVars
<1>6. CASE GetTask(t)
  <2>1. disk' = disk /\ mem' = Evict(Loaded(t), endedBefore)
    BY <1>6 DEF GetTask, diskVars
  <2> QED
    BY <1>0, <1>1, <1>2, <1>3, <2>1, EvictEffect
<1>7. CASE ResumeTask(t)
  BY <1>0, <1>1, <1>2, <1>3, <1>7 DEF ResumeTask, ResumableStatus, diskVars
<1>8. CASE CancelQueued(t)
  BY <1>0, <1>1, <1>2, <1>3, <1>8 DEF CancelQueued, diskVars
<1>9. CASE CancelRunning(t)
  BY <1>0, <1>1, <1>2, <1>3, <1>9 DEF CancelRunning, diskVars
<1>10. CASE CancelTerminal(t)
  BY <1>0, <1>1, <1>2, <1>3, <1>10 DEF CancelTerminal, diskVars
<1> QED
  BY <1>4, <1>5, <1>6, <1>7, <1>8, <1>9, <1>10 DEF Request

LEMMA RequestDurable ==
  ASSUME Shape, Durable, NEW t \in Task, Request(t)
  PROVE  Durable'
<1>1. mem \in [Task -> Record] /\ disk \in [Task -> Record] /\ ExecutionHasTask
  BY DEF Shape, TypeOK
<1>2. ExecutionIsDurable'
  BY <1>1, RequestEffect DEF Durable, ExecutionIsDurable, ExecutionHasTask, View, Terminal,
     Resumable
<1>3. RecordsAreCoherent'
  BY <1>1, RequestEffect DEF Durable, RecordsAreCoherent, View, Terminal, Resumable
<1>4. QueuedIsLoaded'
  BY <1>1, RequestEffect DEF Durable, QueuedIsLoaded, RecordsAreCoherent, View, Terminal, Resumable
<1>5. TokensAreLive'
  <2>1. token' = token /\ \A w \in Worker : /\ (Executing(w)' <=> Executing(w))
                                           /\ worker'[w].task = worker[w].task
    BY RequestEffect
  <2>2. \A u \in Task : token[u] # Nobody => token[u] \in Worker
    BY DEF Shape, TypeOK
  <2> QED
    BY <2>1, <2>2 DEF Durable, TokensAreLive
<1> QED
  BY <1>2, <1>3, <1>4, <1>5 DEF Durable

\* An iteration that claims nothing moves no record.
LEMMA SearchEffect ==
  ASSUME Shape, NEW w \in Worker, PopBegin(w) \/ PopSkip(w)
  PROVE  /\ UNCHANGED <<phase, mem, disk, token, receiptVars, asked>>
         /\ phase = "up" /\ worker[w].pc = "loop"
         /\ worker'[w].pc \in {"loop", "paused"} /\ worker'[w].cancel \in BOOLEAN
         /\ ~Executing(w) /\ ~Executing(w)'
         /\ worker'[w] \in {worker[w], Paused}
         /\ \A v \in Worker \ {w} : worker'[v] = worker[v]
<1>1. phase = "up" /\ worker[w].pc = "loop"
  BY NobodyAssumption DEF Shape, ScanIsLocal, PopBegin, PopSkip, Serving, NoScan
<1>2. worker'[w] \in {worker[w], Paused} /\ \A v \in Worker \ {w} : worker'[v] = worker[v]
  <2>1. worker' = worker \/ Becomes(w, Paused)
    BY DEF PopBegin, PopSkip, execVars
  <2> QED
    BY <2>1, BecomesType, FreshWorkerTypes DEF Shape, TypeOK
<1>3. UNCHANGED <<phase, mem, disk, token, receiptVars, asked>>
  BY DEF PopBegin, PopSkip, memVars, execVars, diskVars
<1>4. worker[w] \in WorkerState /\ Paused \in WorkerState /\ Paused.pc = "paused"
  BY FreshWorkerTypes DEF Shape, TypeOK, Paused, Idle
<1> QED
  BY <1>1, <1>2, <1>3, <1>4 DEF Executing, WorkerState

\* A claim makes its record RUNNING in memory and on disk, or on disk at most.
LEMMA ClaimEffect ==
  ASSUME Shape, NEW w \in Worker, NEW t \in Task, PopClaim(w, t)
  PROVE  /\ phase = "up" /\ phase' = "up" /\ worker[w].pc = "loop"
         /\ receipt' = receipt /\ recorded' = recorded
         /\ mem[t] = "queued" /\ (t \in Cron => \A u \in Cron : mem[u] # "running")
         /\ \A v \in Worker \ {w} : worker'[v] = worker[v]
         /\ \/ /\ worker'[w] = Execution(t)
               /\ mem'[t] = "running" /\ disk'[t] = "running"
               /\ \A u \in Task \ {t} :
                    /\ mem'[u] = mem[u]
                    /\ disk'[u] = IF mem[u] = "absent" THEN disk[u] ELSE mem[u]
               /\ token'[t] = w /\ \A u \in Task \ {t} : token'[u] = token[u]
            \/ /\ worker'[w] = Paused /\ mem' = mem /\ token' = token
               /\ disk'[t] \in {disk[t], "running"}
               /\ \A u \in Task \ {t} : disk'[u] \in {disk[u], mem[u]}
                                        /\ (mem[u] = "absent" => disk'[u] = disk[u])
<1>1. phase = "up" /\ worker[w].pc = "loop"
  BY NobodyAssumption DEF Shape, ScanIsLocal, PopClaim, NoScan
<1>2. /\ phase' = phase /\ receipt' = receipt /\ recorded' = recorded
      /\ mem[t] = "queued" /\ (t \in Cron => \A u \in Cron : mem[u] # "running")
  BY DEF PopClaim, receiptVars, Claimable, CronBlocked, CronRunning
<1>3. /\ TypeOK /\ ClaimedMem(t) \in [Task -> Record] /\ ClaimedMem(t)[t] = "running"
      /\ \A u \in Task \ {t} : ClaimedMem(t)[u] = mem[u]
  BY StatusTypes DEF ClaimedMem, Shape, TypeOK
<1>4. CASE /\ mem' = ClaimedMem(t) /\ PersistAll(mem', queue') /\ Becomes(w, Execution(t))
           /\ token' = [token EXCEPT ![t] = w]
  <2>1. Commit(ClaimedMem(t), Dirty(ClaimedMem(t)))
    BY <1>4 DEF PersistAll
  <2>2. worker'[w] = Execution(t) /\ \A v \in Worker \ {w} : worker'[v] = worker[v]
    BY <1>3, <1>4, BecomesType, FreshWorkerTypes DEF TypeOK
  <2>3. token'[t] = w /\ \A u \in Task \ {t} : token'[u] = token[u]
    BY <1>3, <1>4 DEF TypeOK
  <2>4. \A u \in Task : disk'[u] = IF ClaimedMem(t)[u] = "absent" THEN disk[u]
                                  ELSE ClaimedMem(t)[u]
    BY <1>3, <2>1, CommitEffect
  <2> QED
    BY <1>1, <1>2, <1>3, <1>4, <2>2, <2>3, <2>4
<1>5. CASE /\ PersistAllFails(ClaimedMem(t)) /\ Becomes(w, Paused)
           /\ UNCHANGED <<mem, token>>
  <2>1. worker'[w] = Paused /\ \A v \in Worker \ {w} : worker'[v] = worker[v]
    BY <1>3, <1>5, BecomesType, FreshWorkerTypes DEF TypeOK
  <2>2. \A u \in Task : /\ disk'[u] \in {disk[u], ClaimedMem(t)[u]}
                        /\ (ClaimedMem(t)[u] = "absent" => disk'[u] = disk[u])
    BY <1>3, <1>5, PartialCommitEffect
  <2> QED
    BY <1>1, <1>2, <1>3, <1>5, <2>1, <2>2
<1> QED
  BY <1>4, <1>5 DEF PopClaim

LEMMA FreshPositions ==
  /\ Idle.pc = "loop" /\ Paused.pc = "paused" /\ ~Idle.cancel /\ ~Paused.cancel
  /\ Idle.result = "none" /\ Paused.result = "none"
  /\ \A t \in Task : LET e == Execution(t) IN
       e.pc = "exec" /\ e.task = t /\ ~e.cancel /\ e.result = "none"
BY DEF Idle, Paused, Execution

LEMMA PopDurable ==
  ASSUME Shape, Durable, NEW w \in Worker, Pop(w)
  PROVE  Durable'
<1>0. mem \in [Task -> Record] /\ disk \in [Task -> Record] /\ ExecutionHasTask
      /\ token \in [Task -> Worker \cup {Nobody}]
  BY DEF Shape, TypeOK
<1>1. CASE PopBegin(w) \/ PopSkip(w)
  <2>1. \A v \in Worker : Executing(v)' <=> Executing(v)
    BY <1>1, SearchEffect DEF Executing
  <2>2. \A v \in Worker : Executing(v)' => worker'[v] = worker[v]
    BY <1>1, SearchEffect
  <2>3. UNCHANGED <<phase, mem, disk, token>>
    BY <1>1, SearchEffect
  <2>4. ExecutionIsDurable' /\ RecordsAreCoherent' /\ QueuedIsLoaded'
    BY <2>1, <2>2, <2>3
    DEF Durable, ExecutionIsDurable, RecordsAreCoherent, QueuedIsLoaded
  <2>5. TokensAreLive'
    BY <1>0, <2>1, <2>2, <2>3 DEF Durable, TokensAreLive
  <2> QED
    BY <2>4, <2>5 DEF Durable
<1>2. ASSUME NEW t \in Task, PopClaim(w, t)
      PROVE  Durable'
  <2>1. ~Executing(w) /\ (Executing(w)' <=> worker'[w] = Execution(t))
        /\ \A v \in Worker \ {w} : Executing(v)' <=> Executing(v)
    BY <1>2, ClaimEffect, FreshPositions DEF Executing
  <2>2. \A v \in Worker : Executing(v) => worker[v].task \in Task /\ worker[v].task # t
    BY <1>0, <1>2, ClaimEffect DEF ExecutionHasTask, Durable, ExecutionIsDurable
  <2>3. CASE worker'[w] = Execution(t)
    <3>1. /\ mem'[t] = "running" /\ disk'[t] = "running" /\ token'[t] = w
          /\ \A u \in Task \ {t} : /\ mem'[u] = mem[u] /\ token'[u] = token[u]
                                   /\ disk'[u] = IF mem[u] = "absent" THEN disk[u] ELSE mem[u]
          /\ \A v \in Worker \ {w} : worker'[v] = worker[v]
      BY <1>2, <2>3, ClaimEffect, FreshPositions
    <3>2. worker'[w].task = t
      BY <2>3, FreshPositions
    <3>3. ExecutionIsDurable'
      BY <2>1, <2>2, <3>1, <3>2 DEF Durable, ExecutionIsDurable
    <3>4. RecordsAreCoherent'
      BY <3>1 DEF RecordsAreCoherent
    <3>5. QueuedIsLoaded'
      BY <1>2, <3>1, ClaimEffect DEF QueuedIsLoaded, Durable
    <3>6. TokensAreLive'
      BY <1>0, <2>1, <2>3, <3>1, <3>2 DEF Durable, TokensAreLive
    <3> QED
      BY <3>3, <3>4, <3>5, <3>6 DEF Durable
  <2>4. CASE worker'[w] # Execution(t)
    <3>1. /\ worker'[w] = Paused /\ mem' = mem /\ token' = token
          /\ disk'[t] \in {disk[t], "running"}
          /\ \A u \in Task \ {t} : disk'[u] \in {disk[u], mem[u]}
                                   /\ (mem[u] = "absent" => disk'[u] = disk[u])
          /\ \A v \in Worker \ {w} : worker'[v] = worker[v]
          /\ mem[t] = "queued" /\ phase = "up" /\ phase' = "up"
      BY <1>2, <2>4, ClaimEffect
    <3>2. \A v \in Worker : /\ (Executing(v)' <=> Executing(v))
                            /\ (Executing(v) => worker'[v] = worker[v])
      BY <2>1, <2>4, <3>1
    <3>3. ExecutionIsDurable'
      BY <2>2, <3>1, <3>2 DEF Durable, ExecutionIsDurable
    <3>4. RecordsAreCoherent'
      BY <3>1 DEF RecordsAreCoherent, Durable
    <3>5. QueuedIsLoaded'
      BY <3>1 DEF QueuedIsLoaded, Durable
    <3>6. TokensAreLive'
      BY <1>0, <3>1, <3>2 DEF Durable, TokensAreLive
    <3> QED
      BY <3>3, <3>4, <3>5, <3>6 DEF Durable
  <2> QED
    BY <2>3, <2>4
<1> QED
  BY <1>1, <1>2 DEF Pop

\* The outcome reaches the disk before the record may leave memory; if it does
\* not reach the disk, memory keeps it.
LEMMA FinalizeEffect ==
  ASSUME Shape, NEW w \in Worker, Finalize(w)
  PROVE  LET t == worker[w].task IN
         /\ phase' = phase /\ phase # "down" /\ Executing(w) /\ t \in Task
         /\ worker'[w] \in {Idle, Paused}
         /\ \A v \in Worker \ {w} : worker'[v] = worker[v]
         /\ token' = [token EXCEPT ![t] = Nobody]
         /\ recorded' = recorded /\ asked' = asked
         /\ \A u \in Task \ {t} :
              /\ mem'[u] = mem[u] \/ (mem[u] \in Terminal /\ mem'[u] = "absent")
              /\ disk'[u] \in {disk[u], mem[u]} /\ (mem[u] = "absent" => disk'[u] = disk[u])
         /\ \/ /\ mem'[t] \in {"absent", Outcome(w)} /\ disk'[t] = Outcome(w)
               /\ \A u \in Task \ {t} : disk'[u] = IF mem[u] = "absent" THEN disk[u] ELSE mem[u]
               /\ \/ receipt' = receipt
                  \/ Outcome(w) = "completed" /\ receipt' = receipt \ {t}
            \/ /\ mem'[t] = Outcome(w) /\ disk'[t] \in {disk[t], Outcome(w)}
               /\ \A u \in Task \ {t} : mem'[u] = mem[u]
               /\ receipt' = receipt
<1> DEFINE t == worker[w].task
<1>1. /\ phase' = phase /\ phase # "down" /\ Executing(w) /\ t \in Task
      /\ token' = [token EXCEPT ![t] = Nobody]
      /\ recorded' = recorded /\ asked' = asked
  BY DEF Finalize, Running, Executing, Shape, ExecutionHasTask
<1>2. /\ FinalMem(w) \in [Task -> Record] /\ FinalMem(w)[t] = Outcome(w)
      /\ \A u \in Task \ {t} : FinalMem(w)[u] = mem[u]
      /\ TypeOK /\ Outcome(w) \in Terminal /\ Outcome(w) # "absent"
  BY <1>1, StatusTypes, OutcomeType DEF FinalMem, Shape, TypeOK, Terminal, Resumable
<1>3. worker'[w] \in {Idle, Paused} /\ \A v \in Worker \ {w} : worker'[v] = worker[v]
  <2>1. Becomes(w, Idle) \/ Becomes(w, Paused)
    BY DEF Finalize
  <2> QED
    BY <1>2, <2>1, BecomesType, FreshWorkerTypes DEF TypeOK
<1>4. CASE /\ Commit(FinalMem(w), Dirty(FinalMem(w)))
           /\ mem' = Evict(FinalMem(w), endedBefore')
           /\ receipt' \in {receipt, ReceiptAfterCommit(w)}
  <2>1. \A u \in Task : disk'[u] = IF FinalMem(w)[u] = "absent" THEN disk[u]
                                   ELSE FinalMem(w)[u]
    BY <1>2, <1>4, CommitEffect
  <2>2. \A u \in Task : \/ mem'[u] = FinalMem(w)[u]
                        \/ FinalMem(w)[u] \in Terminal /\ mem'[u] = "absent"
    BY <1>2, <1>4, EvictEffect
  <2>3. \/ receipt' = receipt
        \/ Outcome(w) = "completed" /\ receipt' = receipt \ {t}
    BY <1>4 DEF ReceiptAfterCommit
  <2>4. /\ mem'[t] \in {"absent", Outcome(w)} /\ disk'[t] = Outcome(w)
        /\ \A u \in Task \ {t} :
             /\ mem'[u] = mem[u] \/ (mem[u] \in Terminal /\ mem'[u] = "absent")
             /\ disk'[u] = IF mem[u] = "absent" THEN disk[u] ELSE mem[u]
    BY <1>1, <1>2, <2>1, <2>2
  <2> QED
    BY <1>1, <1>3, <2>3, <2>4
<1>5. CASE PersistAllFails(FinalMem(w)) /\ mem' = FinalMem(w) /\ receipt' = receipt
  <2>1. \A u \in Task : /\ disk'[u] \in {disk[u], FinalMem(w)[u]}
                        /\ (FinalMem(w)[u] = "absent" => disk'[u] = disk[u])
    BY <1>2, <1>5, PartialCommitEffect
  <2> QED
    BY <1>1, <1>2, <1>3, <1>5, <2>1
<1> QED
  BY <1>4, <1>5 DEF Finalize, PersistAll, ReceiptAfterFailure

LEMMA ExecuteDurable ==
  ASSUME Shape, Durable, NEW w \in Worker, Execute(w)
  PROVE  Durable'
<1>0. mem \in [Task -> Record] /\ disk \in [Task -> Record] /\ ExecutionHasTask
      /\ token \in [Task -> Worker \cup {Nobody}] /\ TypeOK
  BY DEF Shape, TypeOK
<1>1. CASE ExecuteBegin(w) \/ TurnEnds(w) \/ ReceiptWritten(w) \/ ReceiptAbandoned(w)
  <2>1. \A v \in Worker : /\ (Executing(v)' <=> Executing(v))
                          /\ worker'[v].task = worker[v].task
    BY <1>0, <1>1, ExecutionMoves DEF Executing
  <2>2. UNCHANGED <<phase, mem, disk, token>>
    BY <1>0, <1>1, ExecutionMoves DEF execOthers, memVars, diskVars
  <2>3. ExecutionIsDurable' /\ RecordsAreCoherent' /\ QueuedIsLoaded'
    BY <2>1, <2>2 DEF Durable, ExecutionIsDurable, RecordsAreCoherent, QueuedIsLoaded
  <2>4. TokensAreLive'
    BY <1>0, <2>1, <2>2 DEF Durable, TokensAreLive
  <2> QED
    BY <2>3, <2>4 DEF Durable
<1>2. CASE Finalize(w)
  <2> DEFINE t == worker[w].task
  <2>1. /\ phase' = phase /\ Executing(w) /\ t \in Task
        /\ worker'[w] \in {Idle, Paused} /\ \A v \in Worker \ {w} : worker'[v] = worker[v]
        /\ token' = [token EXCEPT ![t] = Nobody]
    BY <1>2, FinalizeEffect
  <2>2. /\ ~Executing(w)'
        /\ \A v \in Worker \ {w} : /\ (Executing(v)' <=> Executing(v))
                                   /\ worker'[v].task = worker[v].task
    BY <2>1, FreshPositions DEF Executing
  <2>3. \A u \in Task \ {t} :
          /\ mem'[u] = mem[u] \/ (mem[u] \in Terminal /\ mem'[u] = "absent")
          /\ disk'[u] \in {disk[u], mem[u]} /\ (mem[u] = "absent" => disk'[u] = disk[u])
          /\ mem'[u] = mem[u] \/ disk'[u] = mem[u]
    BY <1>2, FinalizeEffect, StatusTypes DEF Terminal, Resumable
  <2>4. /\ mem'[t] \in {"absent", Outcome(w)} /\ disk'[t] \in {"running", Outcome(w)}
        /\ mem'[t] = Outcome(w) \/ disk'[t] = Outcome(w)
        /\ Outcome(w) \in Terminal
    BY <1>2, <2>1, FinalizeEffect, OutcomeType DEF Durable, ExecutionIsDurable
  <2>5. \A v \in Worker \ {w} : Executing(v) => worker[v].task \in Task \ {t}
    BY <1>0, <2>1 DEF Durable, ExecutionIsDurable, ExecutionHasTask
  <2>6. ExecutionIsDurable'
    BY <1>0, <2>1, <2>2, <2>3, <2>5 DEF Durable, ExecutionIsDurable, Terminal, Resumable
  <2>7. RecordsAreCoherent'
    <3>1. ASSUME NEW u \in Task \ {t}
          PROVE  mem'[u] \in {"absent", disk'[u]} \/ (disk'[u] = "running" /\ mem'[u] # "running")
      BY <2>3 DEF Durable, RecordsAreCoherent
    <3>2. mem'[t] \in {"absent", disk'[t]} \/ (disk'[t] = "running" /\ mem'[t] # "running")
      BY <2>4 DEF Terminal, Resumable
    <3> QED
      BY <3>1, <3>2 DEF RecordsAreCoherent
  <2>8. QueuedIsLoaded'
    BY <2>1, <2>3, <2>4 DEF Durable, QueuedIsLoaded, Terminal, Resumable
  <2>9. TokensAreLive'
    BY <1>0, <2>1, <2>2 DEF Durable, TokensAreLive
  <2> QED
    BY <2>6, <2>7, <2>8, <2>9 DEF Durable
<1> QED
  BY <1>1, <1>2 DEF Execute

\* A paused worker that retries writes what memory holds, and moves nobody else.
LEMMA RetryEffect ==
  ASSUME Shape, NEW w \in Worker, RetryPersist(w)
  PROVE  /\ UNCHANGED <<phase, mem, token, receipt, recorded, asked>>
         /\ ~Executing(w) /\ ~Executing(w)'
         /\ worker'[w] \in {worker[w], Idle} /\ worker[w].pc = "paused"
         /\ \A v \in Worker \ {w} : worker'[v] = worker[v]
         /\ \A u \in Task : disk'[u] \in {disk[u], mem[u]}
                            /\ (mem[u] = "absent" => disk'[u] = disk[u])
<1>1. TypeOK /\ mem \in [Task -> Record]
  BY DEF Shape, TypeOK
<1>2. \/ Commit(mem, Dirty(mem)) /\ Becomes(w, Idle)
      \/ PersistAllFails(mem) /\ UNCHANGED worker
  BY DEF RetryPersist, PersistAll
<1>3. worker'[w] \in {worker[w], Idle} /\ \A v \in Worker \ {w} : worker'[v] = worker[v]
  BY <1>1, <1>2, BecomesType, FreshWorkerTypes DEF TypeOK
<1>4. \A u \in Task : disk'[u] \in {disk[u], mem[u]} /\ (mem[u] = "absent" => disk'[u] = disk[u])
  BY <1>1, <1>2, CommitEffect, PartialCommitEffect
<1>5. UNCHANGED <<phase, mem, token, receipt, recorded, asked>> /\ worker[w].pc = "paused"
  BY DEF RetryPersist, memVars, receiptVars
<1> QED
  BY <1>3, <1>4, <1>5, FreshPositions DEF Executing

LEMMA RetryDurable ==
  ASSUME Shape, Durable, NEW w \in Worker, RetryPersist(w)
  PROVE  Durable'
<1>1. UNCHANGED <<phase, mem, token>> /\ token \in [Task -> Worker \cup {Nobody}]
      /\ ExecutionHasTask
  BY RetryEffect DEF Shape, TypeOK
<1>2. \A v \in Worker : /\ (Executing(v)' <=> Executing(v))
                        /\ (Executing(v) => worker'[v] = worker[v])
  BY RetryEffect DEF Executing
<1>3. \A u \in Task : disk'[u] \in {disk[u], mem[u]} /\ (mem[u] = "absent" => disk'[u] = disk[u])
  BY RetryEffect
<1>4. ExecutionIsDurable'
  BY <1>1, <1>2, <1>3 DEF Durable, ExecutionIsDurable, ExecutionHasTask
<1>5. RecordsAreCoherent' /\ QueuedIsLoaded'
  BY <1>1, <1>3 DEF Durable, RecordsAreCoherent, QueuedIsLoaded
<1>6. TokensAreLive'
  BY <1>1, <1>2 DEF Durable, TokensAreLive
<1> QED
  BY <1>4, <1>5, <1>6 DEF Durable

\* A start moves records out of RUNNING and QUEUED only, and may write some of
\* them when it fails.
LEMMA StartEffect ==
  ASSUME Shape, Start
  PROVE  /\ phase = "down" /\ UNCHANGED <<worker, token, receipt, recorded, asked>>
         /\ \A w \in Worker : ~Executing(w)
         /\ \A t \in Task : \/ disk'[t] = disk[t]
                            \/ disk[t] = "running" /\ disk'[t] \in {"queued", "failed"}
                            \/ disk[t] = "queued" /\ disk'[t] = "failed"
         /\ \/ phase' = "up" /\ mem' = disk'
            \/ phase' = "down" /\ \A t \in Task : mem'[t] = "absent"
<1>1. PICK failed \in SUBSET {t \in Task : disk[t] \in {"queued", "running"}} :
        LET m == RecoveredMem(failed) IN
        \/ phase' = "up" /\ mem' = m /\ PersistAll(m, queue')
        \/ PersistAllFails(m) /\ UNCHANGED <<phase, memVars>>
  BY DEF Start
<1>2. /\ phase = "down" /\ UNCHANGED <<worker, token, receipt, recorded, asked>>
      /\ \A w \in Worker : ~Executing(w)
      /\ \A t \in Task : mem[t] = "absent"
      /\ TypeOK
  BY DEF Start, execVars, receiptVars, Shape, DownIsEmpty
<1> DEFINE m == RecoveredMem(failed)
<1>3. /\ m \in [Task -> Record]
      /\ \A t \in Task : \/ m[t] = disk[t] /\ disk[t] # "running"
                         \/ disk[t] = "running" /\ m[t] \in {"queued", "failed"}
                         \/ disk[t] = "queued" /\ m[t] = "failed"
  BY <1>2, StatusTypes DEF RecoveredMem, TypeOK, Terminal, Resumable, Record, Status
<1> HIDE DEF m
<1>4. CASE phase' = "up" /\ mem' = m /\ PersistAll(m, queue')
  <2>1. \A t \in Task : disk'[t] = IF m[t] = "absent" THEN disk[t] ELSE m[t]
    BY <1>2, <1>3, <1>4, CommitEffect DEF PersistAll
  <2>2. \A t \in Task : disk'[t] = m[t]
    BY <1>3, <2>1
  <2>3. disk' \in [Task -> Record]
    BY <1>2, <1>3, <1>4, CommitType DEF PersistAll, TypeOK
  <2>4. mem' = disk'
    BY <1>3, <1>4, <2>2, <2>3
  <2> QED
    BY <1>2, <1>3, <1>4, <2>2, <2>4
<1>5. CASE PersistAllFails(m) /\ UNCHANGED <<phase, memVars>>
  <2>1. \A t \in Task : disk'[t] \in {disk[t], m[t]}
    BY <1>2, <1>3, <1>5, PartialCommitEffect
  <2> QED
    BY <1>2, <1>3, <1>5, <2>1 DEF memVars
<1> QED
  BY <1>1, <1>4, <1>5 DEF m

LEMMA ShutdownEffect ==
  ASSUME Shape, Shutdown
  PROVE  /\ UNCHANGED <<mem, disk, token, receipt, recorded, asked>>
         /\ phase = "up" /\ phase' = "stopping"
         /\ \A w \in Worker : /\ (Executing(w)' <=> Executing(w))
                              /\ worker'[w].task = worker[w].task
                              /\ worker'[w].pc = worker[w].pc
                              /\ worker'[w].result = worker[w].result
<1>1. worker' = [w \in Worker |-> [worker[w] EXCEPT !.cancel = Executing(w)]]
  BY DEF Shutdown
<1>2. \A w \in Worker : LET c == [worker[w] EXCEPT !.cancel = Executing(w)] IN
        c.pc = worker[w].pc /\ c.task = worker[w].task /\ c.result = worker[w].result
  BY CancelKeepsPosition DEF Shape, TypeOK
<1>3. \A w \in Worker : /\ worker'[w].pc = worker[w].pc /\ worker'[w].task = worker[w].task
                        /\ worker'[w].result = worker[w].result
  BY <1>1, <1>2
<1>4. \A w \in Worker : Executing(w)' <=> Executing(w)
  BY <1>3 DEF Executing
<1> QED
  BY <1>3, <1>4 DEF Shutdown, Serving, memVars, diskVars, receiptVars

LEMMA StopEffect ==
  ASSUME Closed \/ Crash
  PROVE  /\ UNCHANGED <<disk, receipt, recorded, asked>> /\ phase' = "down"
         /\ \A t \in Task : mem'[t] = "absent" /\ token'[t] = Nobody
         /\ \A w \in Worker : ~Executing(w)' /\ worker'[w] = Idle
BY FreshPositions DEF Closed, Crash, MemoryLost, diskVars, receiptVars, Executing

LEMMA ProcessDurable ==
  ASSUME Shape, Durable, Start \/ Shutdown \/ Closed \/ Crash \/ \E t \in Task : OrphanLands(t)
  PROVE  Durable'
<1>0. disk \in [Task -> Record] /\ token \in [Task -> Worker \cup {Nobody}]
  BY DEF Shape, TypeOK
<1>1. CASE Start
  <2>1. \A w \in Worker : ~Executing(w) /\ ~Executing(w)'
    BY <1>1, StartEffect DEF Executing
  <2>2. \A t \in Task : token'[t] = Nobody
    BY <1>0, <1>1, <2>1, StartEffect DEF Durable, TokensAreLive
  <2>3. \/ phase' = "up" /\ mem' = disk'
        \/ phase' = "down" /\ \A t \in Task : mem'[t] = "absent"
    BY <1>1, StartEffect
  <2> QED
    BY <2>1, <2>2, <2>3 DEF Durable, ExecutionIsDurable, RecordsAreCoherent, QueuedIsLoaded,
       TokensAreLive
<1>2. CASE Shutdown
  <2>1. /\ UNCHANGED <<mem, disk, token>> /\ phase = "up" /\ phase' = "stopping"
        /\ \A w \in Worker : /\ (Executing(w)' <=> Executing(w))
                             /\ worker'[w].task = worker[w].task
    BY <1>2, ShutdownEffect
  <2>2. ExecutionIsDurable' /\ RecordsAreCoherent' /\ QueuedIsLoaded'
    BY <2>1 DEF Durable, ExecutionIsDurable, RecordsAreCoherent, QueuedIsLoaded
  <2>3. TokensAreLive'
    BY <1>0, <2>1 DEF Durable, TokensAreLive
  <2> QED
    BY <2>2, <2>3 DEF Durable
<1>3. CASE Closed \/ Crash
  BY <1>3, StopEffect DEF Durable, ExecutionIsDurable, RecordsAreCoherent, QueuedIsLoaded,
     TokensAreLive
<1>4. ASSUME NEW t \in Task, OrphanLands(t)
      PROVE  Durable'
  BY <1>4 DEF OrphanLands, memVars, execVars, diskVars, Durable, ExecutionIsDurable,
     RecordsAreCoherent, QueuedIsLoaded, TokensAreLive, Executing
<1> QED
  BY <1>1, <1>2, <1>3, <1>4

LEMMA DurableStep ==
  ASSUME Shape, Durable, [Next]_vars
  PROVE  Durable'
<1>1. CASE UNCHANGED vars
  BY <1>1 DEF vars, memVars, execVars, diskVars, Durable, ExecutionIsDurable,
     RecordsAreCoherent, QueuedIsLoaded, TokensAreLive, Executing
<1>2. CASE Next
  BY <1>2, RequestDurable, PopDurable, ExecuteDurable, RetryDurable, ProcessDurable DEF Next
<1> QED
  BY <1>1, <1>2

LEMMA DurableInvariant == Spec => [](Shape /\ Durable)
<1>1. Init => Shape /\ Durable
  BY ShapeInit, DurableInit
<1>2. Shape /\ Durable /\ [Next]_vars => Shape' /\ Durable'
  BY ShapeStep, DurableStep
<1> QED
  BY <1>1, <1>2, PTL DEF Spec

\* While a task executes, its record says RUNNING in memory and on disk, and a
\* cancel reaches the execution: in every interleaving of any number of
\* workers, requests, failed writes, crashes and restarts.
THEOREM ExecutionsAreDurable == Spec => []ExecutionIsDurable
BY DurableInvariant, PTL DEF Durable

\* Memory is ahead of the disk only for records that still say RUNNING there.
THEOREM RecordsCohere == Spec => []RecordsAreCoherent
BY DurableInvariant, PTL DEF Durable

\* No task is executed by two workers at once: the token of a task names the
\* one worker that executes it.
THEOREM ExecutionsAreExclusive == Spec => []OneExecutionPerTask
<1>1. Durable => OneExecutionPerTask
  BY DEF Durable, ExecutionIsDurable, OneExecutionPerTask
<1> QED
  BY <1>1, DurableInvariant, PTL

-----------------------------------------------------------------------------
(* Every step follows the lifecycle of TaskLifecycle.                      *)

Executed(t) == \E w \in Worker : Executing(w) /\ worker[w].task = t

\* What a step may do to the record of one task, with the states of the lifecycle
\* module written out.
Follows(t) ==
  \/ disk'[t] = disk[t] /\ (Executed(t)' <=> Executed(t))
  \/ disk[t] = "absent" /\ disk'[t] = "queued" /\ ~Executed(t) /\ ~Executed(t)'
  \/ disk[t] \in {"queued", "running"} /\ disk'[t] = "running" /\ ~Executed(t)
  \/ disk[t] = "running" /\ disk'[t] \in Terminal \cup {"running"}
     /\ Executed(t) /\ ~Executed(t)'
  \/ disk[t] = "running" /\ disk'[t] \in Terminal \cup {"queued"}
     /\ ~Executed(t) /\ ~Executed(t)'
  \/ disk[t] = "queued" /\ disk'[t] \in {"canceled", "failed"}
     /\ ~Executed(t) /\ ~Executed(t)'
  \/ disk[t] \in Resumable /\ disk'[t] = "queued" /\ ~Executed(t) /\ ~Executed(t)'

\* An executed task is RUNNING everywhere.
LEMMA ExecutedIsRunning ==
  ASSUME Shape, Durable, NEW t \in Task, Executed(t)
  PROVE  mem[t] = "running" /\ disk[t] = "running"
BY DEF Durable, ExecutionIsDurable, Executed

\* Writing the record that memory holds, when no execution begins or ends.
LEMMA FlushFollows ==
  ASSUME Shape, Durable, NEW t \in Task,
         disk'[t] \in {disk[t], mem[t]}, mem[t] = "absent" => disk'[t] = disk[t],
         Executed(t)' <=> Executed(t)
  PROVE  Follows(t)
<1>1. mem[t] \in Record
  BY DEF Shape, TypeOK
<1> QED
  BY <1>1, ExecutedIsRunning
  DEF Follows, Durable, RecordsAreCoherent, Record, Status, Terminal

LEMMA RequestFollows ==
  ASSUME Shape, Durable, NEW t \in Task, Request(t)
  PROVE  \A u \in Task : Follows(u)
<1>1. \A u \in Task : Executed(u)' <=> Executed(u)
  BY RequestEffect DEF Executed
<1>2. \A u \in Task \ {t} : Follows(u)
  BY <1>1, RequestEffect DEF Follows
<1>3. /\ View(t) = "absent" => disk[t] = "absent"
      /\ View(t) \in {disk[t], mem[t]}
      /\ View(t) # disk[t] => disk[t] = "running" /\ View(t) # "running"
  BY DEF View, Durable, RecordsAreCoherent
<1>4. \/ disk'[t] = disk[t]
      \/ View(t) = "absent" /\ disk'[t] = "queued"
      \/ View(t) \in Resumable /\ disk'[t] = "queued"
      \/ View(t) = "queued" /\ disk'[t] = "canceled"
      \/ View(t) \in Terminal /\ disk'[t] = View(t)
  BY RequestEffect
<1>5. Executed(t) => View(t) = "running"
  BY ExecutedIsRunning DEF View
<1>6. "canceled" \in Terminal /\ "running" \notin Terminal /\ "absent" \notin Terminal
      /\ "queued" \notin Terminal /\ Resumable \subseteq Terminal
  BY DEF Terminal, Resumable
<1>7. Follows(t)
  BY <1>1, <1>3, <1>4, <1>5, <1>6 DEF Follows
<1> QED
  BY <1>2, <1>7

LEMMA PopFollows ==
  ASSUME Shape, Durable, NEW w \in Worker, Pop(w)
  PROVE  \A u \in Task : Follows(u)
<1>1. CASE PopBegin(w) \/ PopSkip(w)
  <2>1. \A v \in Worker : /\ (Executing(v)' <=> Executing(v))
                          /\ (Executing(v) => worker'[v] = worker[v])
    BY <1>1, SearchEffect DEF Executing
  <2>2. \A u \in Task : (Executed(u)' <=> Executed(u)) /\ disk'[u] = disk[u]
    BY <1>1, <2>1, SearchEffect DEF Executed
  <2> QED
    BY <2>2 DEF Follows
<1>2. ASSUME NEW t \in Task, PopClaim(w, t)
      PROVE  \A u \in Task : Follows(u)
  <2>1. ~Executing(w) /\ worker'[w] \in {Execution(t), Paused}
        /\ \A v \in Worker \ {w} : worker'[v] = worker[v]
    BY <1>2, ClaimEffect DEF Executing
  <2>2. \A u \in Task \ {t} : Executed(u)' <=> Executed(u)
    BY <2>1, FreshPositions DEF Executed, Executing
  <2>3. \A u \in Task \ {t} : Follows(u)
    <3>1. \A u \in Task \ {t} : disk'[u] \in {disk[u], mem[u]}
                                /\ (mem[u] = "absent" => disk'[u] = disk[u])
      BY <1>2, ClaimEffect
    <3> QED
      BY <2>2, <3>1, FlushFollows
  <2>4. /\ mem[t] = "queued" /\ disk[t] \in {"queued", "running"} /\ ~Executed(t)
        /\ disk'[t] \in {disk[t], "running"}
    BY <1>2, ClaimEffect, ExecutedIsRunning DEF Durable, RecordsAreCoherent
  <2>5. disk'[t] = "running" \/ ~Executed(t)'
    <3>1. CASE worker'[w] = Paused
      BY <2>1, <2>4, <3>1, FreshPositions DEF Executed, Executing
    <3>2. CASE worker'[w] # Paused
      BY <1>2, <3>2, ClaimEffect
    <3> QED
      BY <3>1, <3>2
  <2>6. Follows(t)
    BY <2>4, <2>5 DEF Follows
  <2> QED
    BY <2>3, <2>6
<1> QED
  BY <1>1, <1>2 DEF Pop

LEMMA ExecuteFollows ==
  ASSUME Shape, Durable, NEW w \in Worker, Execute(w)
  PROVE  \A u \in Task : Follows(u)
<1>1. CASE ExecuteBegin(w) \/ TurnEnds(w) \/ ReceiptWritten(w) \/ ReceiptAbandoned(w)
  <2>1. \A v \in Worker : /\ (Executing(v)' <=> Executing(v))
                          /\ worker'[v].task = worker[v].task
    BY <1>1, ExecutionMoves DEF Executing, Shape
  <2>2. \A u \in Task : (Executed(u)' <=> Executed(u)) /\ disk'[u] = disk[u]
    BY <1>1, <2>1, ExecutionMoves DEF Executed, execOthers, diskVars, Shape
  <2> QED
    BY <2>2 DEF Follows
<1>2. CASE Finalize(w)
  <2>0. PICK t \in Task : t = worker[w].task
    BY <1>2, FinalizeEffect
  <2>1. /\ Executing(w) /\ worker'[w] \in {Idle, Paused}
        /\ \A v \in Worker \ {w} : worker'[v] = worker[v]
    BY <1>2, FinalizeEffect
  <2>2. ~Executing(w)' /\ \A v \in Worker \ {w} : Executing(v)' <=> Executing(v)
    BY <2>1, FreshPositions DEF Executing
  <2>3. \A u \in Task \ {t} : Executed(u)' <=> Executed(u)
    BY <2>0, <2>1, <2>2 DEF Executed
  <2>4. \A u \in Task \ {t} : Follows(u)
    <3>1. \A u \in Task \ {t} : disk'[u] \in {disk[u], mem[u]}
                                /\ (mem[u] = "absent" => disk'[u] = disk[u])
      BY <1>2, <2>0, FinalizeEffect
    <3> QED
      BY <2>3, <3>1, FlushFollows
  <2>5. Executed(t) /\ ~Executed(t)'
    BY <2>0, <2>1, <2>2 DEF Executed, Durable, ExecutionIsDurable
  <2>6. disk[t] = "running" /\ disk'[t] \in {"running", Outcome(w)} /\ Outcome(w) \in Terminal
    BY <1>2, <2>0, <2>1, <2>5, FinalizeEffect, ExecutedIsRunning, OutcomeType
  <2>7. Follows(t)
    BY <2>5, <2>6 DEF Follows
  <2> QED
    BY <2>4, <2>7
<1> QED
  BY <1>1, <1>2 DEF Execute

LEMMA ProcessFollows ==
  ASSUME Shape, Durable,
         \/ \E w \in Worker : RetryPersist(w)
         \/ Start \/ Shutdown \/ Closed \/ Crash \/ \E t \in Task : OrphanLands(t)
  PROVE  \A u \in Task : Follows(u)
<1>1. ASSUME NEW w \in Worker, RetryPersist(w)
      PROVE  \A u \in Task : Follows(u)
  <2>1. \A u \in Task : Executed(u)' <=> Executed(u)
    BY <1>1, RetryEffect DEF Executed, Executing
  <2> QED
    BY <1>1, <2>1, RetryEffect, FlushFollows
<1>2. CASE Start
  <2>1. \A u \in Task : ~Executed(u) /\ ~Executed(u)'
    BY <1>2, StartEffect DEF Executed, Executing
  <2> QED
    BY <1>2, <2>1, StartEffect DEF Follows, Terminal, Resumable
<1>3. CASE Shutdown
  BY <1>3, ShutdownEffect DEF Executed, Follows
<1>4. CASE Closed \/ Crash
  <2>1. \A u \in Task : ~Executed(u)' /\ disk'[u] = disk[u]
    BY <1>4, StopEffect DEF Executed
  <2> QED
    BY <2>1, ExecutedIsRunning DEF Follows
<1>5. ASSUME NEW t \in Task, OrphanLands(t)
      PROVE  \A u \in Task : Follows(u)
  BY <1>5 DEF OrphanLands, execVars, diskVars, Executed, Executing, Follows
<1> QED
  BY <1>1, <1>2, <1>3, <1>4, <1>5

LEMMA EveryStepFollows ==
  ASSUME Shape, Durable, [Next]_vars
  PROVE  \A u \in Task : Follows(u)
<1>1. CASE UNCHANGED vars
  BY <1>1 DEF vars, execVars, diskVars, Executed, Executing, Follows
<1>2. CASE Next
  BY <1>2, RequestFollows, PopFollows, ExecuteFollows, ProcessFollows DEF Next
<1> QED
  BY <1>1, <1>2

\* A record that says COMPLETED on disk keeps saying so, whatever fails and
\* whatever is resumed.
THEOREM CompletedStays == Spec => CompletedIsFinal
<1>1. ASSUME Shape, Durable, [Next]_vars
      PROVE  [\A t \in Task : disk[t] = "completed" => disk'[t] = "completed"]_vars
  BY <1>1, EveryStepFollows DEF Follows, Resumable
<1> QED
  BY <1>1, DurableInvariant, PTL DEF Spec, CompletedIsFinal

-----------------------------------------------------------------------------
(* A recorded turn is not run again.                                       *)

LEMMA RecordedStep ==
  ASSUME Shape, Durable, RecordedIsKept, [Next]_vars
  PROVE  RecordedIsKept'
<1>0. \A t \in Task : disk[t] = "completed" => disk'[t] = "completed"
  BY EveryStepFollows DEF Follows, Resumable
<1>1. recorded \subseteq Task /\ (recorded' = recorded /\ receipt' = receipt => RecordedIsKept')
  BY <1>0 DEF RecordedIsKept, Shape, TypeOK
<1>2. CASE UNCHANGED vars
  BY <1>1, <1>2 DEF vars, receiptVars
<1>3. ASSUME NEW t \in Task, Request(t)
      PROVE  RecordedIsKept'
  BY <1>1, <1>3, RequestEffect
<1>4. ASSUME NEW w \in Worker, Pop(w)
      PROVE  RecordedIsKept'
  BY <1>1, <1>4, SearchEffect, ClaimEffect DEF Pop, receiptVars
<1>5. ASSUME NEW w \in Worker, Execute(w)
      PROVE  RecordedIsKept'
  <2>1. CASE ExecuteBegin(w) \/ TurnEnds(w) \/ ReceiptAbandoned(w)
    BY <1>1, <2>1 DEF ExecuteBegin, TurnEnds, ReceiptAbandoned, receiptVars
  <2>2. CASE ReceiptWritten(w)
    BY <1>0, <1>1, <2>2 DEF ReceiptWritten, RecordedIsKept
  <2>3. CASE Finalize(w)
    <3>1. recorded' = recorded
      BY <2>3, FinalizeEffect
    <3>2. \/ receipt' = receipt
          \/ /\ receipt' = receipt \ {worker[w].task}
             /\ disk'[worker[w].task] = "completed"
      BY <2>3, FinalizeEffect
    <3> QED
      BY <1>0, <1>1, <3>1, <3>2 DEF RecordedIsKept
  <2> QED
    BY <1>5, <2>1, <2>2, <2>3 DEF Execute
<1>6. ASSUME NEW w \in Worker, RetryPersist(w)
      PROVE  RecordedIsKept'
  BY <1>1, <1>6, RetryEffect
<1>7. CASE Start \/ Shutdown \/ Closed \/ Crash
  BY <1>1, <1>7, StartEffect, ShutdownEffect, StopEffect
<1>8. ASSUME NEW t \in Task, OrphanLands(t)
      PROVE  RecordedIsKept'
  BY <1>0, <1>1, <1>8 DEF OrphanLands, RecordedIsKept
<1> QED
  BY <1>2, <1>3, <1>4, <1>5, <1>6, <1>7, <1>8 DEF Next

LEMMA RecordedInvariant == Spec => [](Shape /\ Durable /\ RecordedIsKept)
<1>1. Init => RecordedIsKept
  BY DEF Init, RecordedIsKept
<1> QED
  BY <1>1, RecordedStep, DurableInvariant, PTL DEF Spec

\* Only one action starts a turn, and it has looked for the receipt; a task
\* whose turn is recorded has its receipt or is COMPLETED, and a completed task
\* is not executed.
THEOREM RecordedTurnsRunOnce == Spec => RecordedTurnIsNotRerun
<1>1. ASSUME Shape, Durable, RecordedIsKept, Next, NEW w \in Worker,
             worker[w].pc = "exec", worker'[w].pc = "turn"
      PROVE  worker[w].task \notin recorded
  <2>1. Executing(w) /\ Executing(w)' /\ worker[w] # worker'[w]
        /\ worker[w].pc # worker'[w].pc
    BY <1>1 DEF Executing
  <2>2. ExecuteBegin(w)
    <3>1. \A v \in Worker : /\ Pop(v) => v # w /\ worker'[w] = worker[w]
                            /\ RetryPersist(v) => v # w /\ worker'[w] = worker[w]
      BY <2>1, SearchEffect, ClaimEffect, RetryEffect, <1>1 DEF Pop
    <3>2. \A t \in Task : ~Request(t) /\ ~OrphanLands(t)
      BY <1>1, <2>1, RequestEffect DEF OrphanLands, execVars
    <3>3. ~Start /\ ~Shutdown /\ ~Closed /\ ~Crash
      BY <1>1, <2>1, StartEffect, ShutdownEffect, StopEffect
    <3>4. PICK v \in Worker : Execute(v)
      BY <1>1, <2>1, <3>1, <3>2, <3>3 DEF Next
    <3>5. v = w
      <4>1. CASE Finalize(v)
        BY <2>1, <4>1, <1>1, FinalizeEffect
      <4>2. CASE ~Finalize(v)
        BY <2>1, <3>4, <4>2, <1>1, ExecutionMoves DEF Execute, Shape
      <4> QED
        BY <4>1, <4>2
    <3> QED
      BY <1>1, <3>4, <3>5
      DEF Execute, TurnEnds, ReceiptWritten, ReceiptAbandoned, Finalize
  <2>3. worker[w].task \in Task /\ disk[worker[w].task] = "running"
    BY <1>1, <2>1 DEF Shape, ExecutionHasTask, Durable, ExecutionIsDurable
  <2>4. ~HasReceipt(worker[w].task)
    <3>1. worker[w] \in WorkerState /\ worker \in [Worker -> WorkerState]
      BY <1>1 DEF Shape, TypeOK
    <3>2. ASSUME NEW r \in Results, Returns(w, r)
          PROVE  worker'[w].pc = "done"
      <4>1. Becomes(w, [worker[w] EXCEPT !.pc = "done", !.result = r])
        BY <3>2 DEF Returns
      <4> QED
        BY <3>1, <4>1, MoveKeepsTask DEF Becomes
    <3> QED
      BY <1>1, <2>2, <3>2 DEF ExecuteBegin, Results
  <2> QED
    BY <1>1, <2>3, <2>4 DEF RecordedIsKept, HasReceipt
<1>2. ASSUME Shape, Durable, RecordedIsKept, [Next]_vars
      PROVE  [\A w \in Worker : worker[w].pc = "exec" /\ worker'[w].pc = "turn"
                => worker[w].task \notin recorded]_vars
  BY <1>1, <1>2
<1> QED
  BY <1>2, RecordedInvariant, PTL DEF Spec, RecordedTurnIsNotRerun

-----------------------------------------------------------------------------
(* Cron tasks execute one at a time, and the refinement.                   *)

\* Only a claim begins an execution, and it begins one.
LEMMA OnlyClaimsBegin ==
  ASSUME Shape, [Next]_vars, NEW v \in Worker, Executing(v)'
  PROVE  \/ Executing(v) /\ worker'[v].task = worker[v].task
         \/ \E t \in Task : PopClaim(v, t) /\ worker'[v] = Execution(t)
<1>1. CASE UNCHANGED vars
  BY <1>1 DEF vars, execVars, Executing
<1>2. ASSUME NEW t \in Task, Request(t)
      PROVE  Executing(v) /\ worker'[v].task = worker[v].task
  BY <1>2, RequestEffect
<1>3. ASSUME NEW w \in Worker, Pop(w)
      PROVE  \/ Executing(v) /\ worker'[v].task = worker[v].task
             \/ \E t \in Task : PopClaim(v, t) /\ worker'[v] = Execution(t)
  <2>1. CASE PopBegin(w) \/ PopSkip(w)
    BY <2>1, SearchEffect DEF Executing
  <2>2. ASSUME NEW t \in Task, PopClaim(w, t)
        PROVE  \/ Executing(v) /\ worker'[v].task = worker[v].task
               \/ PopClaim(v, t) /\ worker'[v] = Execution(t)
    BY <2>2, ClaimEffect, FreshPositions DEF Executing
  <2> QED
    BY <1>3, <2>1, <2>2 DEF Pop
<1>4. ASSUME NEW w \in Worker, Execute(w)
      PROVE  Executing(v) /\ worker'[v].task = worker[v].task
  <2>1. CASE Finalize(w)
    BY <2>1, FinalizeEffect, FreshPositions DEF Executing
  <2>2. CASE ~Finalize(w)
    BY <1>4, <2>2, ExecutionMoves DEF Execute, Executing, Shape
  <2> QED
    BY <2>1, <2>2
<1>5. ASSUME NEW w \in Worker, RetryPersist(w)
      PROVE  Executing(v) /\ worker'[v].task = worker[v].task
  BY <1>5, RetryEffect DEF Executing
<1>6. CASE Start \/ Shutdown \/ Closed \/ Crash
  BY <1>6, StartEffect, ShutdownEffect, StopEffect DEF Executing
<1>7. ASSUME NEW t \in Task, OrphanLands(t)
      PROVE  Executing(v) /\ worker'[v].task = worker[v].task
  BY <1>7 DEF OrphanLands, execVars, Executing
<1> QED
  BY <1>1, <1>2, <1>3, <1>4, <1>5, <1>6, <1>7 DEF Next

LEMMA OneCronStep ==
  ASSUME Shape, Durable, OneCronExecutes, [Next]_vars
  PROVE  OneCronExecutes'
<1> SUFFICES ASSUME NEW v \in Worker, NEW w \in Worker, Executing(v)', Executing(w)',
                    worker'[v].task \in Cron, worker'[w].task \in Cron, v # w
             PROVE  FALSE
  BY DEF OneCronExecutes
<1>1. ASSUME NEW x \in Worker, NEW y \in Worker, NEW t \in Task, x # y,
             PopClaim(x, t), worker'[x] = Execution(t), worker'[x].task \in Cron,
             Executing(y)', worker'[y].task \in Cron
      PROVE  FALSE
  <2>1. t \in Cron
    BY <1>1, FreshPositions
  <2>2. worker'[y] = worker[y] /\ \A u \in Cron : mem[u] # "running"
    BY <1>1, <2>1, ClaimEffect
  <2>3. Executing(y)
    BY <1>1, <2>2 DEF Executing
  <2> QED
    BY <1>1, <2>2, <2>3 DEF Durable, ExecutionIsDurable
<1>2. CASE Executing(v) /\ worker'[v].task = worker[v].task
  <2>1. CASE Executing(w) /\ worker'[w].task = worker[w].task
    BY <1>2, <2>1 DEF OneCronExecutes
  <2> QED
    BY <1>1, <2>1, OnlyClaimsBegin
<1> QED
  BY <1>1, <1>2, OnlyClaimsBegin

LEMMA CronInvariant == Spec => [](Shape /\ Durable /\ OneCronExecutes)
<1>1. Init => OneCronExecutes
  BY FreshPositions DEF Init, OneCronExecutes, Executing
<1> QED
  BY <1>1, OneCronStep, DurableInvariant, PTL DEF Spec

\* Two cron tasks never execute at once: every executing task is RUNNING in
\* memory, so a claim sees it.
THEOREM CronTasksTakeTurns == Spec => []OneCronExecutes
BY CronInvariant, PTL

\* The tasks the refinement counts as executing.
ExecutingTasks == {worker[w].task : w \in {v \in Worker : Executing(v)}}

LEMMA LifecycleStep ==
  ASSUME Shape, Shape', Durable, OneCronExecutes', [Next]_vars
  PROVE  [Lifecycle!Next]_<<disk, ExecutingTasks>>
<1>1. \A t \in Task : /\ (t \in ExecutingTasks <=> Executed(t))
                      /\ (t \in ExecutingTasks' <=> Executed(t)')
  BY DEF ExecutingTasks, Executed
<1>2. disk' \in [Task -> Record] /\ Lifecycle!Record = Record
      /\ Lifecycle!Terminal = Terminal /\ Lifecycle!Resumable = Resumable
  BY DEF Shape, TypeOK, Lifecycle!Record, Record, Status, Lifecycle!Terminal, Terminal,
     Lifecycle!Resumable, Resumable
<1>3. ExecutingTasks' \in SUBSET Task
  BY DEF Shape, ExecutionHasTask, ExecutingTasks
<1>4. \A t, u \in Cron \cap ExecutingTasks' : t = u
  BY DEF OneCronExecutes, ExecutingTasks
<1>5. ASSUME NEW t \in Task
      PROVE  \/ Lifecycle!Stays(t) \/ Lifecycle!Submitted(t) \/ Lifecycle!Claimed(t)
             \/ Lifecycle!Ended(t) \/ Lifecycle!Repaired(t) \/ Lifecycle!Dropped(t)
             \/ Lifecycle!Resumed(t)
  <2>1. Follows(t)
    BY EveryStepFollows
  <2>2. (t \in ExecutingTasks <=> Executed(t)) /\ (t \in ExecutingTasks' <=> Executed(t)')
    BY <1>1
  <2> QED
    BY <1>2, <2>1, <2>2
    DEF Follows, ExecutingTasks, Lifecycle!Stays, Lifecycle!Submitted, Lifecycle!Claimed,
        Lifecycle!Ended, Lifecycle!Repaired, Lifecycle!Dropped, Lifecycle!Resumed,
        Lifecycle!Moves, Lifecycle!Executed, Lifecycle!Executes
<1>6. Lifecycle!Next
  BY <1>2, <1>3, <1>4, <1>5 DEF Lifecycle!Next, ExecutingTasks
<1> QED
  BY <1>6

\* The task queue implements the lifecycle: its files and its executions move
\* only as TaskLifecycle allows.
THEOREM ImplementsLifecycle == Spec => FollowsLifecycle
<1>1. Init => Lifecycle!Init
  BY FreshPositions DEF Init, Lifecycle!Init, Executing
<1>2. Spec => [][Lifecycle!Next]_<<disk, ExecutingTasks>>
  BY LifecycleStep, CronInvariant, PTL DEF Spec
<1> QED
  BY <1>1, <1>2, PTL DEF Spec, FollowsLifecycle, Lifecycle!Spec, ExecutingTasks

-----------------------------------------------------------------------------
(* A task becomes CANCELED only on request.                                *)

LEMMA PositionUpdates ==
  ASSUME NEW s \in WorkerState, NEW b \in BOOLEAN
  PROVE  LET n == [s EXCEPT !.cancel = b] IN
         n.pc = s.pc /\ n.task = s.task /\ n.result = s.result /\ n.cancel = b
BY DEF WorkerState

\* What a step of an execution that does not finalize it does to its worker.
LEMMA ExecutionResults ==
  ASSUME TypeOK, NEW w \in Worker,
         ExecuteBegin(w) \/ TurnEnds(w) \/ ReceiptWritten(w) \/ ReceiptAbandoned(w)
  PROVE  LET n == worker'[w] IN
         \/ n.pc = "done" /\ n.result \in Results /\ n.cancel = worker[w].cancel
         \/ n.pc = "done" /\ n.result = "timeout"
         \/ n.result = worker[w].result /\ n.cancel = worker[w].cancel
<1>0. worker[w] \in WorkerState /\ worker \in [Worker -> WorkerState]
  BY DEF TypeOK
<1>1. ASSUME NEW r \in Results, Returns(w, r)
      PROVE  LET n == worker'[w] IN
             n.pc = "done" /\ n.result = r /\ n.cancel = worker[w].cancel
  <2>1. worker'[w] = [worker[w] EXCEPT !.pc = "done", !.result = r]
    BY <1>0, <1>1 DEF Returns, Becomes
  <2> QED
    BY <1>0, <2>1 DEF WorkerState
<1>2. CASE TimesOut(w)
  <2>1. worker'[w] = [worker[w] EXCEPT !.pc = "done", !.result = "timeout", !.cancel = TRUE]
    BY <1>0, <1>2 DEF TimesOut, Becomes
  <2> QED
    BY <1>0, <2>1 DEF WorkerState
<1>3. ASSUME NEW p \in {"turn", "receipt"}, Becomes(w, [worker[w] EXCEPT !.pc = p])
      PROVE  worker'[w].result = worker[w].result /\ worker'[w].cancel = worker[w].cancel
  <2>1. worker'[w] = [worker[w] EXCEPT !.pc = p]
    BY <1>0, <1>3 DEF Becomes
  <2> QED
    BY <1>0, <2>1 DEF WorkerState
<1> QED
  BY <1>1, <1>2, <1>3 DEF ExecuteBegin, TurnEnds, ReceiptWritten, ReceiptAbandoned, Results

\* The request that sets a token is the one that is remembered.
LEMMA CancelRequestStep ==
  ASSUME Shape, Durable, CancelIsExplained, NEW t \in Task, CancelRunning(t)
  PROVE  CancelIsExplained'
<1>1. /\ \A w \in Worker : /\ (Executing(w)' <=> Executing(w))
                           /\ worker'[w].task = worker[w].task
                           /\ worker'[w].pc = worker[w].pc
      /\ phase' = phase
  BY RequestEffect DEF Request
<1>2. CASE worker' = worker /\ asked' = asked
  BY <1>1, <1>2 DEF CancelIsExplained
<1>3. CASE /\ worker' = [w \in Worker |->
                           IF w = token[t] THEN [worker[w] EXCEPT !.cancel = TRUE]
                                           ELSE worker[w]]
           /\ asked' = asked \cup {t}
  <2>1. \A w \in Worker : LET n == [worker[w] EXCEPT !.cancel = TRUE] IN
          n.result = worker[w].result
    BY PositionUpdates DEF Shape, TypeOK
  <2>2. \A w \in Worker : /\ worker'[w].result = worker[w].result
                          /\ w = token[t] \/ worker'[w].cancel = worker[w].cancel
    BY <1>3, <2>1
  <2>3. \A w \in Worker : Executing(w) /\ w = token[t] => worker[w].task = t
    BY NobodyAssumption DEF Durable, TokensAreLive
  <2> QED
    BY <1>1, <1>3, <2>2, <2>3 DEF CancelIsExplained
<1> QED
  BY <1>2, <1>3 DEF CancelRunning

LEMMA CancelStep ==
  ASSUME Shape, Durable, CancelIsExplained, [Next]_vars
  PROVE  CancelIsExplained'
<1>0. worker \in [Worker -> WorkerState]
  BY DEF Shape, TypeOK
<1>1. CASE UNCHANGED vars
  BY <1>1 DEF vars, execVars, CancelIsExplained, Executing
<1>2. ASSUME NEW t \in Task, Request(t)
      PROVE  CancelIsExplained'
  <2>1. CASE CancelRunning(t)
    BY <2>1, CancelRequestStep
  <2>2. CASE ~CancelRunning(t)
    <3>1. UNCHANGED <<phase, worker, asked>>
      BY <1>2, <2>2 DEF Request, AddTask, AddKnownTask, GetTask, ResumeTask, CancelQueued,
         CancelTerminal, execVars
    <3> QED
      BY <3>1 DEF CancelIsExplained, Executing
  <2> QED
    BY <2>1, <2>2
<1>3. ASSUME NEW w \in Worker, Pop(w)
      PROVE  CancelIsExplained'
  <2>1. CASE PopBegin(w) \/ PopSkip(w)
    <3>1. UNCHANGED <<phase, asked>> /\ ~Executing(w)'
          /\ worker'[w] \in {worker[w], Paused}
          /\ \A v \in Worker \ {w} : worker'[v] = worker[v]
      BY <2>1, SearchEffect
    <3> QED
      BY <3>1, FreshPositions DEF CancelIsExplained, Executing
  <2>2. ASSUME NEW t \in Task, PopClaim(w, t)
        PROVE  CancelIsExplained'
    <3>1. /\ worker'[w] \in {Execution(t), Paused} /\ phase' = phase
          /\ \A v \in Worker \ {w} : worker'[v] = worker[v]
      BY <2>2, ClaimEffect
    <3>2. asked \ {t} \subseteq asked'
      BY <2>2 DEF PopClaim
    <3>3. \A v \in Worker : Executing(v) => worker[v].task # t
      BY <2>2, ClaimEffect DEF Durable, ExecutionIsDurable
    <3> QED
      BY <3>1, <3>2, <3>3, FreshPositions DEF CancelIsExplained, Executing
  <2> QED
    BY <1>3, <2>1, <2>2 DEF Pop
<1>4. ASSUME NEW w \in Worker, Execute(w)
      PROVE  CancelIsExplained'
  <2>1. CASE Finalize(w)
    <3>1. /\ UNCHANGED <<phase, asked>> /\ worker'[w] \in {Idle, Paused}
          /\ \A v \in Worker \ {w} : worker'[v] = worker[v]
      BY <2>1, FinalizeEffect
    <3> QED
      BY <3>1, FreshPositions DEF CancelIsExplained, Executing
  <2>2. CASE ~Finalize(w)
    <3>1. ExecuteBegin(w) \/ TurnEnds(w) \/ ReceiptWritten(w) \/ ReceiptAbandoned(w)
      BY <1>4, <2>2 DEF Execute
    <3>2. /\ UNCHANGED <<phase, asked>> /\ worker'[w].task = worker[w].task
          /\ \A v \in Worker \ {w} : worker'[v] = worker[v]
          /\ Executing(w) /\ Executing(w)' /\ worker[w].pc # "done"
      BY <3>1, ExecutionMoves DEF Shape, execOthers, ExecuteBegin, TurnEnds, ReceiptWritten,
         ReceiptAbandoned
    <3>3. worker[w].result = "none"
      BY <3>2 DEF CancelIsExplained
    <3>4. LET n == worker'[w] IN
          \/ n.pc = "done" /\ n.cancel = worker[w].cancel
          \/ n.pc = "done" /\ n.result = "timeout"
          \/ n.result = "none" /\ n.cancel = worker[w].cancel
      BY <3>1, <3>3, ExecutionResults DEF Shape
    <3>5. \A v \in Worker \ {w} : Executing(v)' <=> Executing(v)
      BY <3>2 DEF Executing
    <3> QED
      BY <3>2, <3>3, <3>4, <3>5 DEF CancelIsExplained
  <2> QED
    BY <2>1, <2>2
<1>5. ASSUME NEW w \in Worker, RetryPersist(w)
      PROVE  CancelIsExplained'
  BY <1>5, RetryEffect, FreshPositions DEF CancelIsExplained, Executing
<1>6. CASE Start
  BY <1>6, StartEffect DEF CancelIsExplained, Executing
<1>7. CASE Shutdown
  BY <1>7, ShutdownEffect DEF CancelIsExplained
<1>8. CASE Closed \/ Crash
  BY <1>8, StopEffect, FreshPositions DEF CancelIsExplained
<1>9. ASSUME NEW t \in Task, OrphanLands(t)
      PROVE  CancelIsExplained'
  BY <1>9 DEF OrphanLands, execVars, CancelIsExplained, Executing
<1> QED
  BY <1>1, <1>2, <1>3, <1>4, <1>5, <1>6, <1>7, <1>8, <1>9 DEF Next

LEMMA CancelInvariant == Spec => [](Shape /\ Durable /\ CancelIsExplained)
<1>1. Init => CancelIsExplained
  BY FreshPositions DEF Init, CancelIsExplained, Executing
<1> QED
  BY <1>1, CancelStep, DurableInvariant, PTL DEF Spec

\* Only Finalize takes a running task to CANCELED, and then because its token
\* was set by a request or by the shutdown.
THEOREM CancellationIsRequested == Spec => CanceledOnRequest
<1>1. ASSUME Shape, Durable, CancelIsExplained, [Next]_vars, NEW t \in Task,
             mem[t] = "running", mem'[t] = "canceled"
      PROVE  t \in asked \/ phase = "stopping"
  <2>1. \A u \in Task : ~Request(u) /\ ~OrphanLands(u)
    <3>1. \A u \in Task : ~Request(u)
      BY <1>1, RequestEffect DEF View, Terminal, Resumable
    <3> QED
      BY <1>1, <3>1 DEF OrphanLands, memVars
  <2>2. \A w \in Worker : ~Pop(w) /\ ~RetryPersist(w)
    <3>1. \A w \in Worker : ~PopBegin(w) /\ ~PopSkip(w)
      BY <1>1, SearchEffect
    <3>2. \A w \in Worker, u \in Task : ~PopClaim(w, u)
      BY <1>1, ClaimEffect
    <3> QED
      BY <1>1, <3>1, <3>2, RetryEffect DEF Pop
  <2>3. ~Start /\ ~Shutdown /\ ~Closed /\ ~Crash /\ ~UNCHANGED vars
    <3>1. ~Start
      BY <1>1 DEF Start, Shape, DownIsEmpty
    <3>2. ~Shutdown /\ ~Closed /\ ~Crash
      BY <1>1, ShutdownEffect, StopEffect
    <3> QED
      BY <1>1, <3>1, <3>2 DEF vars, memVars
  <2>4. PICK w \in Worker : Execute(w)
    BY <1>1, <2>1, <2>2, <2>3 DEF Next
  <2>5. Finalize(w)
    BY <1>1, <2>4, ExecutionMoves DEF Execute, execOthers, memVars, Shape
  <2>6. t = worker[w].task /\ Outcome(w) = "canceled" /\ Executing(w)
    BY <1>1, <2>5, FinalizeEffect DEF Terminal, Resumable
  <2>7. phase \in {"up", "stopping"}
    BY <1>1, <2>5, FinalizeEffect DEF Shape, TypeOK
  <2>8. phase = "stopping" \/ (worker[w].cancel /\ worker[w].result # "timeout")
    BY <2>6, <2>7 DEF Outcome
  <2> QED
    BY <1>1, <2>6, <2>8 DEF CancelIsExplained
<1>2. ASSUME Shape, Durable, CancelIsExplained, [Next]_vars
      PROVE  [\A t \in Task : mem[t] = "running" /\ mem'[t] = "canceled"
                => t \in asked \/ phase = "stopping"]_vars
  BY <1>1, <1>2
<1> QED
  BY <1>2, CancelInvariant, PTL DEF Spec, CanceledOnRequest
=============================================================================
