---------------------------- MODULE TaskManager ----------------------------
(***************************************************************************)
(* The durable task queue of src/deepseek_tui/tools/task: TaskManager      *)
(* (manager.py), its on-disk state (store.py) and the executor the runtime *)
(* injects (engine/dispatch.py), across process crashes and restarts.      *)
(*                                                                         *)
(* A step is a stretch of a coroutine between two awaits.  Nothing awaits  *)
(* inside `async with self._lock`, so a method that takes the lock is one  *)
(* step; only the loop of _pop_next_task is cut into its iterations, and   *)
(* `scan' then keeps every other step of the process out.                  *)
(*                                                                         *)
(* A task record is abstracted to its status; timeline, prompt, model and  *)
(* artifacts are left out.  A write of a record, of queue.json or of a     *)
(* receipt either replaces the file or raises OSError and leaves it alone  *)
(* (write_json_atomic).  The flock of TaskStoreLock lets one manager own   *)
(* the directory, so one process is modelled, which may come back.         *)
(***************************************************************************)
EXTENDS Naturals, Sequences, FiniteSets, SequencesExt

CONSTANTS
  Task,         \* the ids tasks are submitted under
  Cron,         \* those whose prompt starts with CRON_PROMPT_MARKER
  Worker,       \* the worker coroutines of one process
  Nobody,       \* no worker, no task
  MaxTerminal,  \* _MAX_TERMINAL_IN_MEMORY
  MaxFaults,    \* bound: file writes that fail
  MaxStops,     \* bound: crashes and shutdowns
  MaxResumes    \* bound: resume requests that are accepted

ASSUME CronAssumption == Cron \subseteq Task
ASSUME FiniteAssumption == IsFiniteSet(Task)
ASSUME NobodyAssumption == Nobody \notin Task \cup Worker
ASSUME BoundAssumption ==
  /\ MaxTerminal \in Nat /\ MaxFaults \in Nat
  /\ MaxStops \in Nat /\ MaxResumes \in Nat

\* TaskStatus, with "absent" for a record that does not exist (on disk) or is
\* not loaded (in memory).
Resumable == {"failed", "canceled", "timed_out"}
Terminal == Resumable \cup {"completed"}
Status == {"queued", "running"} \cup Terminal
Record == Status \cup {"absent"}

VARIABLES
  phase,        \* "down", "up", or "stopping" while shutdown() awaits the workers
  mem,          \* self._tasks: the status of each record in memory
  queue,        \* self._queue
  scan,         \* the pop loop under the lock: who runs it, iterations left
  worker,       \* each worker's position and the execution it drives
  token,        \* self._running_cancel: the execution a cancel would reach
  endedBefore,  \* <<t, u>>: t's ended_at is earlier than u's
  disk,         \* tasks/<id>.json: the status of each record on disk
  index,        \* queue.json
  receipt,      \* the tasks that have a completions/<id>.json
  orphans,      \* receipt writes still in a thread whose executor was cancelled
  faults, stops, resumes,  \* what the bounds count
  asked,        \* history: running tasks whose cancellation a client requested
  recorded      \* history: tasks whose finished turn has been recorded once

memVars == <<mem, queue, endedBefore>>
execVars == <<worker, token>>
diskVars == <<disk, index>>
receiptVars == <<receipt, orphans, recorded>>
boundVars == <<stops, resumes>>
vars == <<phase, memVars, scan, execVars, diskVars, receiptVars,
          faults, boundVars, asked>>

Results == {"none", "ok", "error", "timeout", "canceled"}
NoScan == [by |-> Nobody, left |-> 0]

\* A worker is in its loop, drives an execution (whose executor has not yet
\* looked for a receipt, runs the engine turn, writes the receipt, or has
\* returned), or waits for the storage to accept writes again.
Idle == [pc |-> "loop", task |-> Nobody, cancel |-> FALSE, result |-> "none"]
Paused == [Idle EXCEPT !.pc = "paused"]
Execution(t) == [Idle EXCEPT !.pc = "exec", !.task = t]
WorkerState ==
  [pc : {"loop", "exec", "turn", "receipt", "done", "paused"},
   task : Task \cup {Nobody}, cancel : BOOLEAN, result : Results]

Becomes(w, state) == worker' = [worker EXCEPT ![w] = state]

Executing(w) == worker[w].pc \in {"exec", "turn", "receipt", "done"}

Init ==
  /\ phase = "down"
  /\ mem = [t \in Task |-> "absent"] /\ queue = <<>> /\ endedBefore = {}
  /\ scan = NoScan
  /\ worker = [w \in Worker |-> Idle] /\ token = [t \in Task |-> Nobody]
  /\ disk = [t \in Task |-> "absent"] /\ index = <<>>
  /\ receipt = {} /\ orphans = [t \in Task |-> 0] /\ recorded = {}
  /\ faults = 0 /\ stops = 0 /\ resumes = 0 /\ asked = {}

-----------------------------------------------------------------------------
(* Files.                                                                  *)

Fault == faults < MaxFaults /\ faults' = faults + 1
NoFault == faults' = faults

\* The records of m the disk does not have yet; _persisted saves rewriting
\* the others.
Dirty_NotRunning(m) ==
  {t \in Task : m[t] \notin {"absent", "running"} /\ m[t] # disk[t]}
Dirty(m) == {t \in Task : m[t] # "absent" /\ m[t] # disk[t]}
Commit(m, S) == disk' = [t \in Task |-> IF t \in S THEN m[t] ELSE disk[t]]

PersistIndex(q) == NoFault /\ index' = q
PersistIndexFails == Fault /\ index' = index
PersistIndexBestEffort(q) == PersistIndex(q) \/ PersistIndexFails

PersistAll(m, q) == Commit(m, Dirty(m)) /\ PersistIndexBestEffort(q)

\* _persist_all_locked stops at the first record it cannot write: some of
\* the others are written, queue.json is not.
PersistAllFails(m) ==
  /\ Fault
  /\ \E S \in SUBSET Dirty(m) : S # Dirty(m) /\ Commit(m, S)
  /\ UNCHANGED index

\* Memory overrides the disk; a record that is only on disk is reloaded.
View(t) == IF mem[t] = "absent" THEN disk[t] ELSE mem[t]
Loaded(t) == [mem EXCEPT ![t] = View(t)]

\* ended_at of every task of S is now, in the order o; they leave the
\* relation when a resume clears ended_at.
Ended(o) ==
  LET S == ToSet(o) IN
  {p \in endedBefore : p[1] \notin S}
    \cup ((Task \ S) \X S)
    \cup {p \in S \X S : \E i, j \in DOMAIN o : i < j /\ p = <<o[i], o[j]>>}
Reopened(t) == {p \in endedBefore : p[1] # t /\ p[2] # t}

\* _evict_terminal_tasks_locked: the MaxTerminal terminal records that ended
\* last stay in memory.
Evictable(m, before) ==
  {t \in Task : /\ m[t] \in Terminal
                /\ Cardinality({u \in Task : m[u] \in Terminal /\ <<t, u>> \in before})
                     >= MaxTerminal}
Evict(m, before) ==
  [t \in Task |-> IF t \in Evictable(m, before) THEN "absent" ELSE m[t]]

-----------------------------------------------------------------------------
(* Requests.  All of them take the lock; all but get_task own the store.   *)

Serving == phase = "up" /\ scan = NoScan

\* The record is the commit point: a failed write publishes nothing.
AddTask(t) ==
  /\ Serving /\ View(t) = "absent"
  /\ \/ /\ mem' = [mem EXCEPT ![t] = "queued"]
        /\ queue' = Append(queue, t)
        /\ disk' = [disk EXCEPT ![t] = "queued"]
        /\ PersistIndexBestEffort(queue')
     \/ Fault /\ UNCHANGED <<mem, queue, diskVars>>
  /\ UNCHANGED <<phase, scan, execVars, receiptVars, boundVars, endedBefore, asked>>

\* The idempotency key is known, but its record is not in memory.
AddKnownTask(t) ==
  /\ Serving /\ mem[t] = "absent" /\ disk[t] # "absent"
  /\ mem' = Loaded(t)
  /\ UNCHANGED <<phase, scan, queue, endedBefore, execVars, diskVars, receiptVars,
                 faults, boundVars, asked>>

GetTask(t) ==
  /\ Serving /\ mem[t] = "absent" /\ disk[t] # "absent"
  /\ mem' = Evict(Loaded(t), endedBefore)
  /\ UNCHANGED <<phase, scan, queue, endedBefore, execVars, diskVars, receiptVars,
                 faults, boundVars, asked>>

\* The fields of the record are put back when it cannot be written.
AfterFailedWrite_NoRollback(t) ==
  [mem EXCEPT ![t] = IF View(t) = "queued" THEN "canceled" ELSE "queued"]
AfterFailedWrite(t) == Loaded(t)

ResumableStatus_Running == Resumable \cup {"running"}
ResumableStatus_Completed == Terminal
ResumableStatus == Resumable

ResumeTask(t) ==
  /\ Serving /\ View(t) # "absent"
  /\ \/ /\ View(t) \in ResumableStatus
        /\ resumes < MaxResumes /\ resumes' = resumes + 1
        /\ mem' = [mem EXCEPT ![t] = "queued"]
        /\ endedBefore' = Reopened(t)
        /\ disk' = [disk EXCEPT ![t] = "queued"]
        /\ queue' = IF t \in ToSet(queue) THEN queue ELSE Append(queue, t)
        /\ PersistIndexBestEffort(queue')
     \/ /\ View(t) \in ResumableStatus
        /\ Fault /\ mem' = AfterFailedWrite(t)
        /\ UNCHANGED <<queue, endedBefore, diskVars, resumes>>
     \/ /\ View(t) \notin ResumableStatus
        /\ mem' = Loaded(t)
        /\ UNCHANGED <<queue, endedBefore, diskVars, resumes, faults>>
  /\ UNCHANGED <<phase, scan, execVars, receiptVars, stops, asked>>

\* The queue holds an id at most once (QueueIsExact), so dropping every
\* occurrence of t drops the one there is.
CancelQueued(t) ==
  /\ Serving /\ View(t) = "queued"
  /\ \/ /\ mem' = [mem EXCEPT ![t] = "canceled"]
        /\ endedBefore' = Ended(<<t>>)
        /\ disk' = [disk EXCEPT ![t] = "canceled"]
        /\ \E i \in DOMAIN queue : queue[i] = t /\ queue' = RemoveAt(queue, i)
        /\ PersistIndexBestEffort(queue')
     \/ /\ Fault /\ mem' = AfterFailedWrite(t)
        /\ UNCHANGED <<queue, endedBefore, diskVars>>
  /\ UNCHANGED <<phase, scan, execVars, receiptVars, boundVars, asked>>

\* The token is set once the request is on disk; a task that is RUNNING
\* without a token keeps only the request.
CancelRunning(t) ==
  /\ Serving /\ View(t) = "running"
  /\ mem' = Loaded(t)
  /\ \/ /\ PersistIndexBestEffort(queue)
        /\ UNCHANGED disk
        /\ worker' = [w \in Worker |->
                        IF w = token[t] THEN [worker[w] EXCEPT !.cancel = TRUE]
                                        ELSE worker[w]]
        /\ asked' = asked \cup {t}
     \/ Fault /\ UNCHANGED <<diskVars, worker, asked>>
  /\ UNCHANGED <<phase, scan, queue, endedBefore, token, receiptVars, boundVars>>

\* Nothing to cancel, but the record is loaded and written all the same.
CancelTerminal(t) ==
  /\ Serving /\ View(t) \in Terminal
  /\ mem' = Loaded(t)
  /\ \/ disk' = [disk EXCEPT ![t] = View(t)] /\ PersistIndexBestEffort(queue)
     \/ Fault /\ UNCHANGED diskVars
  /\ UNCHANGED <<phase, scan, queue, endedBefore, execVars, receiptVars, boundVars,
                 asked>>

-----------------------------------------------------------------------------
(* _pop_next_task: one loop iteration per step, under the lock.            *)

CronRunning_OffByOne == Cardinality({t \in Cron : mem[t] = "running"}) > 1
CronRunning == \E t \in Cron : mem[t] = "running"
CronBlocked(t) == t \in Cron /\ CronRunning
Claimable(t) == mem[t] = "queued" /\ ~CronBlocked(t)

PopBegin(w) ==
  /\ Serving /\ worker[w].pc = "loop" /\ queue # <<>>
  /\ scan' = [by |-> w, left |-> Len(queue)]
  /\ UNCHANGED <<phase, memVars, execVars, diskVars, receiptVars, faults, boundVars,
                 asked>>

Skipped_Dropped(t, rest) == rest
Skipped(t, rest) == IF mem[t] = "queued" THEN Append(rest, t) ELSE rest

\* An entry that is no longer QUEUED is dropped, a cron task goes to the tail
\* while another one runs; either way queue.json is written, and an OSError
\* pauses the worker.
PopSkip(w) ==
  /\ scan.by = w /\ ~Claimable(Head(queue))
  /\ queue' = Skipped(Head(queue), Tail(queue))
  /\ \/ /\ PersistIndex(queue')
        /\ scan' = IF scan.left = 1 \/ queue' = <<>> THEN NoScan
                   ELSE [scan EXCEPT !.left = @ - 1]
        /\ UNCHANGED worker
     \/ /\ PersistIndexFails
        /\ scan' = NoScan /\ Becomes(w, Paused)
  /\ UNCHANGED <<phase, mem, endedBefore, token, disk, receiptVars, boundVars, asked>>

ClaimedMem(t) == [mem EXCEPT ![t] = "running"]

\* On OSError the claim is rolled back in memory; the record may already say
\* RUNNING on disk.
PopClaim(w, t) ==
  /\ scan.by = w /\ Head(queue) = t /\ Claimable(t)
  /\ scan' = NoScan
  /\ \/ /\ mem' = ClaimedMem(t)
        /\ queue' = Tail(queue)
        /\ PersistAll(mem', queue')
        /\ Becomes(w, Execution(t))
        /\ token' = [token EXCEPT ![t] = w]
        /\ asked' = asked \ {t}
     \/ /\ PersistAllFails(ClaimedMem(t))
        /\ Becomes(w, Paused)
        /\ UNCHANGED <<mem, queue, token, asked>>
  /\ UNCHANGED <<phase, endedBefore, receiptVars, boundVars>>

-----------------------------------------------------------------------------
(* The execution of a claimed task: _execute_cancellable around            *)
(* real_task_executor.                                                     *)

Returns(w, r) == Becomes(w, [worker[w] EXCEPT !.pc = "done", !.result = r])
\* A cancellation that comes first interrupts the wall clock's own cleanup.
TimesOut(w) ==
  Becomes(w, [worker[w] EXCEPT !.pc = "done", !.result = "timeout", !.cancel = TRUE])
Running == phase # "down" /\ scan = NoScan
execOthers == <<phase, memVars, scan, token, diskVars, boundVars, asked>>

HasReceipt(t) == t \in receipt

ExecuteBegin(w) ==
  /\ Running /\ worker[w].pc = "exec"
  /\ \/ worker[w].cancel /\ Returns(w, "canceled")
     \/ ~worker[w].cancel /\ HasReceipt(worker[w].task) /\ Returns(w, "ok")
     \/ /\ ~worker[w].cancel /\ ~HasReceipt(worker[w].task)
        /\ Becomes(w, [worker[w] EXCEPT !.pc = "turn"])
  /\ UNCHANGED <<execOthers, receiptVars, faults>>

\* The turn fails, is cancelled, hits the wall clock (whose handler sets the
\* token itself), or ends and hands its result to a thread that writes the
\* receipt.
TurnEnds(w) ==
  /\ Running /\ worker[w].pc = "turn"
  /\ \/ Returns(w, "error")
     \/ worker[w].cancel /\ Returns(w, "canceled")
     \/ ~worker[w].cancel /\ TimesOut(w)
     \/ ~worker[w].cancel /\ Becomes(w, [worker[w] EXCEPT !.pc = "receipt"])
  /\ UNCHANGED <<execOthers, receiptVars, faults>>

ReceiptWritten(w) ==
  /\ Running /\ worker[w].pc = "receipt"
  /\ \/ /\ receipt' = receipt \cup {worker[w].task}
        /\ recorded' = recorded \cup {worker[w].task}
        /\ Returns(w, "ok") /\ NoFault
     \/ Returns(w, "error") /\ Fault /\ UNCHANGED <<receipt, recorded>>
  /\ UNCHANGED <<execOthers, orphans>>

\* Cancellation and the wall clock interrupt the await, not the thread.  One
\* that comes after the write, while the engine shuts down, is this step with
\* OrphanLands right after it.
ReceiptAbandoned(w) ==
  /\ Running /\ worker[w].pc = "receipt"
  /\ orphans' = [orphans EXCEPT ![worker[w].task] = @ + 1]
  /\ \/ worker[w].cancel /\ Returns(w, "canceled")
     \/ ~worker[w].cancel /\ TimesOut(w)
  /\ UNCHANGED <<execOthers, receipt, recorded, faults>>

OrphanLands(t) ==
  /\ orphans[t] > 0 /\ scan = NoScan
  /\ orphans' = [orphans EXCEPT ![t] = @ - 1]
  /\ receipt' = receipt \cup {t}
  /\ recorded' = recorded \cup {t}
  /\ UNCHANGED <<phase, memVars, scan, execVars, diskVars, faults, boundVars, asked>>

-----------------------------------------------------------------------------
(* _run_task_and_finalize after the executor, and the storage-error loop.  *)

\* A worker cancelled by shutdown() drops whatever the executor returned; the
\* wall clock is looked at before the token, which its handler has set too.
Outcome_Untranslated(w) ==
  IF phase = "up" /\ worker[w].result = "timeout" THEN "timed_out"
  ELSE IF phase = "stopping" \/ worker[w].cancel THEN "canceled"
  ELSE worker[w].result
Outcome_CancelFirst(w) ==
  IF phase = "stopping" \/ worker[w].cancel THEN "canceled"
  ELSE IF worker[w].result = "timeout" THEN "timed_out"
  ELSE IF worker[w].result = "error" THEN "failed" ELSE "completed"
Outcome(w) ==
  IF phase = "up" /\ worker[w].result = "timeout" THEN "timed_out"
  ELSE IF phase = "stopping" \/ worker[w].cancel THEN "canceled"
  ELSE IF worker[w].result = "error" THEN "failed" ELSE "completed"

FinalMem(w) == [mem EXCEPT ![worker[w].task] = Outcome(w)]

\* The receipt of a completed task goes once the record is on disk.
ReceiptAfterCommit(w) ==
  IF Outcome(w) = "completed" THEN receipt \ {worker[w].task} ELSE receipt
ReceiptAfterFailure_Early(w) == ReceiptAfterCommit(w)
ReceiptAfterFailure(w) == receipt

Finalize(w) ==
  /\ Running /\ worker[w].pc = "done"
  /\ token' = [token EXCEPT ![worker[w].task] = Nobody]
  /\ endedBefore' = Ended(<<worker[w].task>>)
  /\ \/ /\ PersistAll(FinalMem(w), queue)
        /\ receipt' = ReceiptAfterCommit(w)
        /\ mem' = Evict(FinalMem(w), endedBefore')
        /\ Becomes(w, Idle)
     \/ /\ Outcome(w) = "completed"     \* the receipt could not be removed
        /\ Commit(FinalMem(w), Dirty(FinalMem(w))) /\ index' = queue /\ Fault
        /\ UNCHANGED receipt
        /\ mem' = Evict(FinalMem(w), endedBefore')
        /\ Becomes(w, Idle)
     \/ /\ PersistAllFails(FinalMem(w))
        /\ receipt' = ReceiptAfterFailure(w)
        /\ mem' = FinalMem(w)
        /\ Becomes(w, Paused)
  /\ UNCHANGED <<phase, queue, scan, orphans, recorded, boundVars, asked>>

\* Retry persistence, not the executor.
RetryPersist(w) ==
  /\ Serving /\ worker[w].pc = "paused"
  /\ \/ PersistAll(mem, queue) /\ Becomes(w, Idle)
     \/ PersistAllFails(mem) /\ UNCHANGED worker
  /\ UNCHANGED <<phase, memVars, scan, token, receiptVars, boundVars, asked>>

-----------------------------------------------------------------------------
(* The life of the process.                                                *)

\* The sequences _load_state may build: what queue.json says of the queued
\* records, then the others sorted by id (ids are opaque: any order).
RecoveredQueues_IndexOnly(m, idx) == {SelectSeq(idx, LAMBDA t : m[t] = "queued")}
RecoveredQueues(m, idx) ==
  {q \in SetToSeqs({t \in Task : m[t] = "queued"}) :
     \A j \in DOMAIN q : \A k \in DOMAIN idx : idx[k] = q[j] =>
       \A i \in 1..(j - 1) : \E h \in 1..(k - 1) : idx[h] = q[i]}

\* RUNNING becomes QUEUED; a stale RUNNING record, or one whose workspace is
\* gone, becomes FAILED.
RecoveredMem(failed) ==
  [t \in Task |-> IF t \in failed THEN "failed"
                  ELSE IF disk[t] = "running" THEN "queued" ELSE disk[t]]

Start ==
  /\ phase = "down"
  /\ \E failed \in SUBSET {t \in Task : disk[t] \in {"queued", "running"}} :
       LET m == RecoveredMem(failed) IN
       \/ /\ phase' = "up" /\ mem' = m
          /\ \E idx \in {index, <<>>} : queue' \in RecoveredQueues(m, idx)
          /\ \E o \in SetToSeqs(failed) : endedBefore' = Ended(o)
          /\ PersistAll(m, queue')
       \/ PersistAllFails(m) /\ UNCHANGED <<phase, memVars>>
  /\ UNCHANGED <<scan, execVars, receiptVars, boundVars, asked>>

\* shutdown() sets every token and cancels the workers.
Shutdown ==
  /\ Serving /\ stops < MaxStops /\ stops' = stops + 1
  /\ phase' = "stopping"
  /\ worker' = [w \in Worker |->
                 [worker[w] EXCEPT !.cancel = Executing(w)]]
  /\ UNCHANGED <<memVars, scan, token, diskVars, receiptVars, faults, resumes, asked>>

MemoryLost ==
  /\ phase' = "down" /\ scan' = NoScan
  /\ mem' = [t \in Task |-> "absent"] /\ queue' = <<>>
  /\ worker' = [w \in Worker |-> Idle] /\ token' = [t \in Task |-> Nobody]

Closed ==
  /\ phase = "stopping" /\ \A w \in Worker : ~Executing(w)
  /\ MemoryLost
  /\ UNCHANGED <<endedBefore, diskVars, receiptVars, faults, boundVars, asked>>

Crash ==
  /\ phase # "down" /\ stops < MaxStops /\ stops' = stops + 1
  /\ MemoryLost
  /\ orphans' = [t \in Task |-> 0]
  /\ UNCHANGED <<endedBefore, diskVars, receipt, recorded, faults, resumes, asked>>

-----------------------------------------------------------------------------
Request(t) ==
  AddTask(t) \/ AddKnownTask(t) \/ GetTask(t) \/ ResumeTask(t)
    \/ CancelQueued(t) \/ CancelRunning(t) \/ CancelTerminal(t)
Pop(w) == PopBegin(w) \/ PopSkip(w) \/ \E t \in Task : PopClaim(w, t)
Execute(w) ==
  ExecuteBegin(w) \/ TurnEnds(w) \/ ReceiptWritten(w) \/ ReceiptAbandoned(w) \/ Finalize(w)

Next ==
  \/ \E t \in Task : Request(t) \/ OrphanLands(t)
  \/ \E w \in Worker : Pop(w) \/ Execute(w) \/ RetryPersist(w)
  \/ Start \/ Shutdown \/ Closed \/ Crash

Spec == Init /\ [][Next]_vars

\* The event loop runs every ready coroutine, the wall clock ends every turn,
\* and somebody starts the program again.  A worker's steps are kept out while
\* another one scans the queue, hence strong fairness.
FairSpec ==
  /\ Spec /\ WF_vars(Start) /\ WF_vars(Closed)
  /\ \A w \in Worker :
       SF_vars(Pop(w)) /\ SF_vars(Execute(w)) /\ SF_vars(RetryPersist(w))

-----------------------------------------------------------------------------
(* Properties.                                                             *)

TypeOK ==
  /\ phase \in {"down", "up", "stopping"}
  /\ mem \in [Task -> Record] /\ disk \in [Task -> Record]
  /\ queue \in Seq(Task) /\ index \in Seq(Task)
  /\ scan \in [by : Worker \cup {Nobody}, left : Nat]
  /\ worker \in [Worker -> WorkerState]
  /\ token \in [Task -> Worker \cup {Nobody}]
  /\ endedBefore \subseteq Task \X Task
  /\ receipt \subseteq Task /\ recorded \subseteq Task /\ asked \subseteq Task
  /\ orphans \in [Task -> Nat]
  /\ faults \in Nat /\ stops \in Nat /\ resumes \in Nat

\* However requests, workers, failed writes and restarts interleave, no task is
\* executed by two workers at once.
OneExecutionPerTask ==
  \A v, w \in Worker :
    Executing(v) /\ Executing(w) /\ worker[v].task = worker[w].task => v = w

\* While a task executes, memory and disk both say RUNNING, so that a crash
\* at any moment makes the next start pick it up again, and the registered
\* token is the one its executor listens to, so that a cancel reaches it.
ExecutionIsDurable ==
  \A w \in Worker : Executing(w) =>
    /\ mem[worker[w].task] = "running" /\ disk[worker[w].task] = "running"
    /\ token[worker[w].task] = w

\* Two cron tasks never execute at the same time, whatever the number of
\* workers.
OneCronExecutes ==
  \A v, w \in Worker :
    Executing(v) /\ Executing(w) /\ {worker[v].task, worker[w].task} \subseteq Cron
      => v = w

\* The queue lists every task that is QUEUED in memory, each once, and nothing
\* else: no task is forgotten by a failed write, a rotation, a resume or a
\* recovery from an incomplete queue.json, and none is queued twice.
QueueIsExact ==
  /\ \A t \in Task : mem[t] = "queued" <=> \E i \in DOMAIN queue : queue[i] = t
  /\ \A i, j \in DOMAIN queue : queue[i] = queue[j] => i = j

\* Memory is never ahead of the disk but for the outcome, or the rolled-back
\* claim, of a task whose record still says RUNNING: a request that failed has
\* published nothing, and a crash cannot undo one that succeeded.
RecordsAreCoherent ==
  \A t \in Task :
    mem[t] \in {"absent", disk[t]} \/ (disk[t] = "running" /\ mem[t] # "running")

\* What the proofs add to the properties above to make them inductive: an
\* execution has a task; a pop loop belongs to a worker that is in its loop; a
\* dead process has no memory; every record QUEUED on disk is in memory; a
\* registered token belongs to an execution of its task; a set token was asked
\* for, or set by the wall clock or the shutdown; a recorded turn keeps its
\* receipt until the record says COMPLETED.
ExecutionHasTask == \A w \in Worker : Executing(w) => worker[w].task \in Task
ScanIsLocal ==
  scan # NoScan => /\ phase = "up" /\ queue # <<>> /\ scan.left > 0
                   /\ scan.by \in Worker /\ worker[scan.by].pc = "loop"
DownIsEmpty ==
  phase = "down" => /\ \A t \in Task : mem[t] = "absent"
                    /\ queue = <<>> /\ \A w \in Worker : ~Executing(w)
QueuedIsLoaded ==
  phase # "down" => \A t \in Task : disk[t] = "queued" => mem[t] # "absent"
TokensAreLive ==
  \A t \in Task : token[t] # Nobody =>
    Executing(token[t]) /\ worker[token[t]].task = t
CancelIsExplained ==
  \A w \in Worker :
    /\ worker[w].pc # "done" => worker[w].result = "none"
    /\ Executing(w) /\ worker[w].cancel =>
         worker[w].task \in asked \/ phase = "stopping" \/ worker[w].result = "timeout"
RecordedIsKept ==
  \A t \in recorded : t \in receipt \/ disk[t] = "completed"

\* A turn whose result was recorded in a receipt is not run again: not after a
\* crash, not after a failed write of the record, not after a resume.
RecordedTurnIsNotRerun ==
  [][\A w \in Worker : worker[w].pc = "exec" /\ worker'[w].pc = "turn"
       => worker[w].task \notin recorded]_vars

\* A record that says COMPLETED says so for ever.
CompletedIsFinal ==
  [][\A t \in Task : disk[t] = "completed" => disk'[t] = "completed"]_vars

\* A running task becomes CANCELED only when a client asked for it or the
\* manager shuts down, although the wall clock sets the same token.
CanceledOnRequest ==
  [][\A t \in Task : mem[t] = "running" /\ mem'[t] = "canceled"
       => t \in asked \/ phase = "stopping"]_vars

\* The durable records and the executions follow the lifecycle clients count on.
Lifecycle == INSTANCE TaskLifecycle WITH
  record <- disk, executing <- {worker[w].task : w \in {v \in Worker : Executing(v)}}
FollowsLifecycle == Lifecycle!Spec

\* While stops and failed writes are finite, a queued task settles.
QueuedSettles ==
  \A t \in Task : disk[t] = "queued" ~> disk[t] \in Terminal

\* "Evicted terminal tasks only live on disk" (manager.py, resume_task): there
\* the record has the status it was evicted with.
EvictedLivesOnDisk ==
  [][\A t \in Task : phase' = "up" /\ mem[t] \in Terminal /\ mem'[t] = "absent"
       => disk'[t] = mem[t]]_vars
=============================================================================
