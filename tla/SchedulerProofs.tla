-------------------------- MODULE SchedulerProofs --------------------------
(***************************************************************************)
(* The automation scheduler, for any jobs and bounds: that a slot has one  *)
(* task, and what holds of the loops.                                      *)
(*                                                                         *)
(* Copies of the same run are in the file, in the listing of the           *)
(* reconciler, and with each coroutine that awaits something.  What the    *)
(* proofs need is said of every copy, however stale (Sound): a copy that   *)
(* is linked had its task, one that may be delivered has attempts left,    *)
(* one that has not ended was not delivered.  The lock of the reconciler   *)
(* adds that the file is not ahead of its copies (Undone).  What a copy    *)
(* may be written over is a matter of its own (Holds): it is the file, or  *)
(* its job is deleted, or nobody will write it.                            *)
(***************************************************************************)
EXTENDS AutomationScheduler, TLAPS, FiniteSetTheorems

-----------------------------------------------------------------------------
(* A slot of an automation has one task.                                   *)

TaskStates ==
  [status : SettledStatus \cup {"none", "queued", "running"}, attempt : Nat]

\* A run has had a task exactly when the queue has one under its key; this is
\* what the key gives, and SlotDispatchedOnce alone does not survive a step.
Counted(t, c) == c = IF t.status = "none" THEN 0 ELSE 1
OneTaskInv ==
  /\ task \in [Id -> TaskStates] /\ created \in [Id -> Nat]
  /\ \A i \in Id : Counted(task[i], created[i])
  /\ \A i \in Id : task[i].status = "none" => task[i] = NoTask

\* Queueing a run keeps the count, whether its task is new or found.
LEMMA DispatchKeepsCount ==
  ASSUME OneTaskInv, NEW i, NEW new, Dispatch(i, new)
  PROVE  OneTaskInv'
<1> DEFINE added == [status |-> "queued", attempt |-> 1]
<1>1. added \in TaskStates /\ added # NoTask
  BY DEF TaskStates, NoTask
<1>2. CASE ~new.linked
  BY <1>2 DEF Dispatch, tasks, OneTaskInv
<1>3. CASE new.linked /\ i \notin Id
  <2>1. task' = task
    BY <1>3 DEF Dispatch, OneTaskInv
  <2>2. created' = created
    BY <1>3 DEF Dispatch, OneTaskInv
  <2> QED
    BY <2>1, <2>2 DEF OneTaskInv
<1>4. CASE new.linked /\ i \in Id
  <2>1. CASE task[i] = NoTask
    <3>1. Submitted(task[i]) = added /\ added # task[i]
      BY <1>1, <2>1 DEF Submitted
    <3>2. task' = [task EXCEPT ![i] = added]
      BY <1>4, <3>1 DEF Dispatch
    <3>3. created' = [created EXCEPT ![i] = @ + 1] /\ created[i] = 0
      BY <1>4, <2>1, <3>1 DEF Dispatch, OneTaskInv, Counted, NoTask
    <3> QED
      BY <1>1, <1>4, <3>2, <3>3 DEF OneTaskInv, Counted
  <2>2. CASE task[i] # NoTask
    <3>1. Submitted(task[i]) = task[i]
      BY <2>2 DEF Submitted
    <3>2. created[i] = 1
      BY <1>4, <2>2 DEF OneTaskInv, Counted
    <3>3. task' = task /\ created' = created
      BY <1>4, <3>1, <3>2 DEF Dispatch, OneTaskInv
    <3> QED
      BY <3>3 DEF OneTaskInv
  <2> QED
    BY <2>1, <2>2
<1> QED
  BY <1>2, <1>3, <1>4

\* A crash that leaves the task of an awaited dispatch behind counts it.
LEMMA CrashKeepsCount ==
  ASSUME OneTaskInv, Crash
  PROVE  OneTaskInv'
<1>1. PICK S \in SUBSET {i \in {tick.id, manual.id} \cap Id : task[i] = NoTask} :
        /\ task' = [i \in Id |->
                     IF i \in S THEN Submitted(task[i])
                     ELSE IF task[i].status = "running"
                          THEN [task[i] EXCEPT !.status = "queued"] ELSE task[i]]
        /\ created' = [i \in Id |-> IF i \in S THEN created[i] + 1 ELSE created[i]]
  BY DEF Crash
<1>2. ASSUME NEW i \in Id
      PROVE  /\ task'[i] \in TaskStates /\ created'[i] \in Nat
             /\ Counted(task'[i], created'[i])
             /\ task'[i].status = "none" => task'[i] = NoTask
  <2>1. CASE i \in S
    BY <1>1, <2>1 DEF OneTaskInv, Counted, Submitted, NoTask, TaskStates
  <2>2. CASE i \notin S /\ task[i].status = "running"
    BY <1>1, <2>2 DEF OneTaskInv, Counted, NoTask, TaskStates
  <2>3. CASE i \notin S /\ task[i].status # "running"
    BY <1>1, <2>3 DEF OneTaskInv
  <2> QED
    BY <2>1, <2>2, <2>3
<1>3. task' \in [Id -> TaskStates] /\ created' \in [Id -> Nat]
  BY <1>1, <1>2
<1> QED
  BY <1>2, <1>3 DEF OneTaskInv

\* The queue runs, ends and resumes a task without forgetting it.
LEMMA TaskKeepsCount ==
  ASSUME OneTaskInv, NEW i \in Id, Tasks(i)
  PROVE  OneTaskInv'
<1>1. PICK t \in TaskStates : task' = [task EXCEPT ![i] = t] /\ t.status # "none"
  <2>1. CASE TaskRuns(i)
    <3> DEFINE t == [task[i] EXCEPT !.status = "running"]
    <3>1. t \in TaskStates /\ t.status # "none"
      BY DEF OneTaskInv, TaskStates
    <3>2. task' = [task EXCEPT ![i] = t]
      BY <2>1 DEF TaskRuns
    <3> QED
      BY <3>1, <3>2
  <2>2. CASE TaskEnds(i)
    <3>1. PICK s \in Ends : task' = [task EXCEPT ![i].status = s]
      BY <2>2 DEF TaskEnds
    <3> DEFINE t == [task[i] EXCEPT !.status = s]
    <3>2. t \in TaskStates /\ t.status # "none"
      BY <3>1, EndsAssumption DEF OneTaskInv, TaskStates, SettledStatus
    <3> QED
      BY <3>1, <3>2
  <2>3. CASE TaskResumes(i)
    <3> DEFINE t == [status |-> "queued", attempt |-> task[i].attempt + 1]
    <3>1. t \in TaskStates /\ t.status # "none"
      BY DEF OneTaskInv, TaskStates
    <3>2. task' = [task EXCEPT ![i] = t]
      BY <2>3 DEF TaskResumes
    <3> QED
      BY <3>1, <3>2
  <2> QED
    BY <2>1, <2>2, <2>3 DEF Tasks
<1>2. task[i].status # "none" /\ created' = created
  BY DEF Tasks, TaskRuns, TaskEnds, TaskResumes, taskOthers, SettledStatus
<1> QED
  BY <1>1, <1>2 DEF OneTaskInv, Counted

LEMMA InitCounts == Init => OneTaskInv
BY DEF Init, OneTaskInv, Counted, TaskStates, NoTask

LEMMA StepCounts == OneTaskInv /\ [Next]_vars => OneTaskInv'
<1> SUFFICES ASSUME OneTaskInv, [Next]_vars
             PROVE  OneTaskInv'
  OBVIOUS
<1>1. UNCHANGED tasks => OneTaskInv'
  BY DEF tasks, OneTaskInv
<1>2. ASSUME NEW j \in Job, Request(j)
      PROVE  UNCHANGED tasks
  BY <1>2 DEF Request, CreateAutomation, PauseAutomation, ResumeAutomation, SetRunAt,
              SetSchedule, Rewrite, DeleteAutomation, RunNow, requestOthers, tasks
<1>3. CASE RunNowEnqueued
  BY <1>3, DispatchKeepsCount DEF RunNowEnqueued
<1>4. CASE TickEnqueued
  BY <1>4, DispatchKeepsCount DEF TickEnqueued
<1>5. CASE TickBegin
  BY <1>1, <1>5 DEF TickBegin
<1>6. ASSUME NEW j \in Job, TickPasses(j) \/ TickFiredBefore(j) \/ TickFires(j) \/ TickFails(j)
      PROVE  UNCHANGED tasks
  BY <1>6 DEF TickPasses, TickFiredBefore, TickFires, TickFails
<1>7. CASE Tick
  BY <1>1, <1>4, <1>5, <1>6, <1>7 DEF Tick
<1>8. CASE Reconcile \/ RecFails
  <2>1. UNCHANGED tasks
    BY <1>8 DEF Reconcile, RecFails, RecBegin, RecSync, RecWritten, RecSends,
                RecDelivered, recOthers
  <2> QED
    BY <1>1, <2>1
<1>9. CASE Discussion
  <2>1. UNCHANGED tasks
    BY <1>9 DEF Discussion, DiscussionOpens, DiscussionCreated, DiscussionWritten, discOthers
  <2> QED
    BY <1>1, <2>1
<1>10. CASE TimePasses \/ Start
  BY <1>1, <1>10 DEF TimePasses, Start
<1>11. CASE UNCHANGED vars
  BY <1>1, <1>11 DEF vars
<1> QED
  BY <1>1, <1>2, <1>3, <1>6, <1>7, <1>8, <1>9, <1>10, <1>11, TaskKeepsCount,
     CrashKeepsCount DEF Next

\* Whatever crashes, failed writes and edits come between, scheduler_tick and
\* run_now give a slot and a manual run one task.
THEOREM SlotsAreDispatchedOnce == Spec => []SlotDispatchedOnce
<1>1. OneTaskInv => SlotDispatchedOnce
  BY DEF OneTaskInv, Counted, SlotDispatchedOnce
<1> QED
  BY <1>1, InitCounts, StepCounts, PTL DEF Spec

-----------------------------------------------------------------------------
(* The loops and the copies of a run they hold.                            *)

Instant == 0..MaxTime
Attempt == 0..(MaxResumes + 1)
RecPc == {"idle", "list", "write", "retry", "deliver", "sent", "refused"}
Awaited == {"write", "retry", "deliver", "sent", "refused"}

Types ==
  /\ up \in BOOLEAN /\ clock \in Instant /\ resumes \in 0..MaxResumes /\ edits \in Nat
  /\ automation \in [Job -> Automation] /\ run \in [Id -> Run]
  /\ sent \in [Id -> [Attempt -> Nat]]
  /\ tick \in [pc : {"idle", "scan", "enqueue"}, todo : SUBSET Job, now : Instant,
               id : Id \cup {NoId}, seen : Automation, run : Run]
  /\ manual \in [id : Id \cup {NoId}, run : Run]
  /\ rec \in [pc : RecPc, runs : [Id -> Run], id : Id \cup {NoId}, run : Run]
  /\ disc \in [pc : {"idle", "create", "write"}, id : Id \cup {NoId},
               seen : Automation, run : Run]

\* A copy of a run that has had n tasks.
Sound(r, n) ==
  /\ r.done \/ r.tries < MaxAttempts
  /\ Settled(r) \/ ~r.done
  /\ r.status = "none" => r = NoRun
  /\ IF r.linked THEN n = 1 ELSE r.status \in {"none", "queued", "failed"}

Attempts == \A i \in Id : task[i].attempt <= resumes + 1
Files == \A i \in Id : Sound(run[i], created[i])
TickRun ==
  /\ tick.now <= clock
  /\ tick.pc = "enqueue" =>
       /\ tick.id \in Id /\ tick.id[2] = tick.seen.next
       /\ Intent(tick.run) /\ Sound(tick.run, created[tick.id])
ManualRun ==
  manual # ManualIdle =>
    manual.id \in Id /\ Intent(manual.run) /\ Sound(manual.run, created[manual.id])
RecRun ==
  /\ \A i \in Id : Sound(rec.runs[i], created[i])
  /\ rec.pc \in Awaited =>
       /\ rec.id \in Id /\ Settled(rec.run) /\ Sound(rec.run, created[rec.id])
       /\ rec.pc \in {"deliver", "sent", "refused"} => ~rec.run.done
DiscRun ==
  disc.pc # "idle" =>
    disc.id \in Id /\ Settled(disc.run) /\ Sound(disc.run, created[disc.id])
Lock == rec = RecIdle \/ disc = DiscIdle
Undone ==
  /\ \A i \in Id : run[i].done => rec.runs[i] = NoRun \/ rec.runs[i].done
  /\ rec.pc \in Awaited /\ run[rec.id].done => rec.run.done

LoopInv ==
  /\ OneTaskInv /\ Types /\ Attempts /\ Files /\ TickRun /\ ManualRun /\ RecRun /\ DiscRun
  /\ Lock /\ Undone

-----------------------------------------------------------------------------
(* Copies of runs.                                                         *)

LEMMA NoRunSound == NoRun \in Run /\ \A n : Sound(NoRun, n)
BY LimitAssumption DEF NoRun, Run, Sound, Settled, SettledStatus

LEMMA NewRunSound ==
  ASSUME NEW j \in Job
  PROVE  NewRun(j) \in Run /\ Intent(NewRun(j)) /\ \A n : Sound(NewRun(j), n)
<1>1. PICK note \in {"none", "due"} :
        NewRun(j) = [NoRun EXCEPT !.status = "queued", !.note = note]
  BY DEF NewRun
<1>2. NewRun(j) = [status |-> "queued", linked |-> FALSE, ended |-> 0,
                   done |-> FALSE, tries |-> 0, note |-> note]
  BY <1>1 DEF NoRun
<1>3. 0 < MaxAttempts /\ 0 \in 0..MaxAttempts /\ 0 \in 0..(MaxResumes + 1)
  BY LimitAssumption
<1> QED
  BY <1>2, <1>3 DEF Run, Sound, Settled, SettledStatus, Intent

LEMMA DispatchedSound ==
  ASSUME NEW r \in Run, NEW n, Sound(r, n), Intent(r), NEW new \in Dispatched(r)
  PROVE  /\ new \in Run /\ (~new.linked => new.status = "failed") /\ ~new.done
         /\ \A m : (new.linked => m = 1) => Sound(new, m)
BY DEF Run, Sound, Settled, SettledStatus, Intent, Dispatched, NoRun

LEMMA NoteSound ==
  ASSUME NEW r \in Run, NEW n, Sound(r, n), Settled(r), NEW note \in {"none", "due", "written"}
  PROVE  LET new == [r EXCEPT !.note = note] IN
         new \in Run /\ Sound(new, n) /\ Settled(new) /\ new.done = r.done
BY DEF Run, Sound, Settled, SettledStatus, NoRun

\* The result of reading the task: what was delivered of a run is taken back
\* only by a reset.
LEMMA SyncedSound ==
  ASSUME NEW r \in Run, NEW n, Sound(r, n), r.linked,
         NEW t \in TaskStates, t.attempt \in Attempt, t.status # "none",
         ~Settled(r) \/ Resumed(r, t)
  PROVE  Synced(r, t) \in Run /\ Sound(Synced(r, t), n) /\ ~Synced(r, t).done
<1> DEFINE base == IF Resumed(r, t) THEN Reset(r) ELSE r
           end == IF t.status \in SettledStatus THEN t.attempt ELSE base.ended
<1>1. Reset(r) \in Run
  <2>1. PICK note \in {"none", "due", "written"} :
          Reset(r) = [r EXCEPT !.ended = 0, !.done = FALSE, !.tries = 0, !.note = note]
    BY DEF Run, Reset
  <2>2. 0 \in 0..MaxAttempts /\ 0 \in 0..(MaxResumes + 1)
    BY LimitAssumption
  <2> QED
    BY <2>1, <2>2 DEF Run
<1>2. base \in Run /\ base.linked /\ ~base.done /\ base.tries < MaxAttempts
  BY <1>1, LimitAssumption DEF Run, Reset, Sound
<1>3. end \in Attempt
  BY <1>2 DEF Run, Attempt
<1>4. Synced(r, t) = [base EXCEPT !.status = t.status, !.ended = end]
  BY <1>2 DEF Synced, Run
<1>5. n = 1
  BY DEF Sound
<1> HIDE DEF base, end
<1> QED
  BY <1>2, <1>3, <1>4, <1>5 DEF Run, Sound, Settled, SettledStatus, TaskStates, Attempt

LEMMA SoundLater ==
  ASSUME NEW r, NEW n, NEW m, Sound(r, n), n = 1 => m = 1
  PROVE  Sound(r, m)
BY DEF Sound

-----------------------------------------------------------------------------
(* Tasks.                                                                  *)

\* A dispatch that links the run has left it a task.
LEMMA DispatchCounts ==
  ASSUME OneTaskInv, NEW i \in Id, NEW new, Dispatch(i, new)
  PROVE  /\ new.linked => created'[i] = 1
         /\ \A k \in Id : task'[k] = task[k] \/ task'[k].attempt = 1
         /\ \A k \in Id : created[k] <= created'[k]
<1>1. CASE new.linked
  <2>1. task' = [task EXCEPT ![i] = Submitted(@)]
    BY <1>1 DEF Dispatch
  <2>2. Submitted(task[i]) = task[i] \/ Submitted(task[i]).attempt = 1
    BY DEF Submitted
  <2>3. created' = created \/ created' = [created EXCEPT ![i] = @ + 1]
    BY <1>1 DEF Dispatch
  <2>4. Submitted(task[i]).status # "none"
    BY DEF Submitted, OneTaskInv
  <2>5. OneTaskInv'
    BY DispatchKeepsCount
  <2>6. created'[i] = 1
    BY <2>1, <2>4, <2>5 DEF OneTaskInv, Counted
  <2> QED
    BY <2>1, <2>2, <2>3, <2>6 DEF OneTaskInv
<1>2. CASE ~new.linked
  BY <1>2 DEF Dispatch, tasks, OneTaskInv
<1> QED
  BY <1>1, <1>2

LEMMA TasksKept ==
  Next => \/ UNCHANGED <<task, created, resumes>>
          \/ RunNowEnqueued \/ TickEnqueued \/ Crash \/ \E i \in Id : Tasks(i)
<1>1. ASSUME NEW j \in Job, Request(j) \/ TickFails(j) PROVE UNCHANGED <<task, created, resumes>>
  BY <1>1 DEF Request, CreateAutomation, PauseAutomation, ResumeAutomation, SetRunAt,
     SetSchedule, Rewrite, DeleteAutomation, RunNow, TickFails, requestOthers, tickOthers, tasks
<1>2. CASE Tick /\ ~TickEnqueued
  BY <1>2 DEF Tick, TickBegin, TickPasses, TickFiredBefore, TickFires, tickOthers, tasks
<1>3. CASE Reconcile \/ RecFails
  BY <1>3 DEF Reconcile, RecFails, RecBegin, RecSync, RecWritten, RecSends, RecDelivered,
     recOthers, tasks
<1>4. CASE Discussion
  BY <1>4 DEF Discussion, DiscussionOpens, DiscussionCreated, DiscussionWritten, discOthers, tasks
<1>5. CASE TimePasses \/ Start
  BY <1>5 DEF TimePasses, Start, bounds, tasks
<1> QED
  BY <1>1, <1>2, <1>3, <1>4, <1>5 DEF Next

\* Whoever submits a task: a run that had one has it still, and attempts are
\* counted by the resumes.
LEMMA TasksStep ==
  ASSUME OneTaskInv, Attempts, TickRun, ManualRun, resumes \in 0..MaxResumes, Next
  PROVE  /\ OneTaskInv' /\ Attempts' /\ resumes' \in 0..MaxResumes
         /\ \A i \in Id : created[i] = 1 => created'[i] = 1
<1> USE DEF OneTaskInv, TaskStates
<1>0. OneTaskInv'
  BY StepCounts
<1>1. resumes \in Nat /\ MaxResumes \in Nat
  BY LimitAssumption
<1>2. CASE UNCHANGED <<task, created, resumes>>
  BY <1>0, <1>2 DEF Attempts
<1>3. ASSUME NEW i \in Id, NEW new, Dispatch(i, new), resumes' = resumes
      PROVE  Attempts' /\ \A k \in Id : created[k] = 1 => created'[k] = 1
  <2>1. \A k \in Id : task'[k] = task[k] \/ task'[k].attempt = 1
    BY <1>3, DispatchCounts
  <2>2. \A k \in Id : created[k] <= created'[k]
    BY <1>3, DispatchCounts
  <2> QED
    BY <1>0, <1>1, <1>3, <2>1, <2>2 DEF Attempts, Counted
<1>4. CASE Crash
  <2>1. resumes' = resumes
    BY <1>4 DEF Crash
  <2>2. \A i \in Id : task'[i].attempt = 1 \/ task'[i].attempt = task[i].attempt
    BY <1>4 DEF Crash, Submitted
  <2>3. \A i \in Id : created'[i] = created[i] \/ created'[i] = created[i] + 1
    BY <1>4 DEF Crash
  <2> QED
    BY <1>0, <1>1, <2>1, <2>2, <2>3 DEF Attempts, Counted
<1>5. ASSUME NEW i \in Id, Tasks(i)
      PROVE  Attempts' /\ created' = created /\ resumes' \in 0..MaxResumes
  <2>1. CASE TaskRuns(i) \/ TaskEnds(i)
    <3>1. resumes' = resumes /\ created' = created
      BY <2>1 DEF TaskRuns, TaskEnds, taskOthers
    <3>2. \A k \in Id : task'[k].attempt = task[k].attempt
      BY <2>1 DEF TaskRuns, TaskEnds
    <3> QED
      BY <3>1, <3>2 DEF Attempts
  <2>2. CASE TaskResumes(i)
    <3>1. resumes' = resumes + 1 /\ resumes < MaxResumes /\ created' = created
      BY <2>2 DEF TaskResumes, taskOthers
    <3>2. \A k \in Id : task'[k] = task[k] \/ task'[k].attempt = task[k].attempt + 1
      BY <2>2 DEF TaskResumes
    <3> QED
      BY <1>1, <3>1, <3>2 DEF Attempts
  <2> QED
    BY <1>5, <2>1, <2>2 DEF Tasks
<1>6. CASE RunNowEnqueued
  <2>1. resumes' = resumes
    BY <1>6 DEF RunNowEnqueued, bounds
  <2> QED
    BY <1>0, <1>3, <1>6, <2>1 DEF RunNowEnqueued, ManualRun
<1>7. CASE TickEnqueued
  <2>1. resumes' = resumes
    BY <1>7 DEF TickEnqueued, tickOthers
  <2> QED
    BY <1>0, <1>3, <1>7, <2>1 DEF TickEnqueued, TickRun
<1> QED
  BY <1>0, <1>2, <1>4, <1>5, <1>6, <1>7, TasksKept

-----------------------------------------------------------------------------
(* Automations.                                                            *)

LEMMA IdParts == \A i \in Id : JobOf(i) \in Job /\ i[2] \in Instant
BY DEF Id, JobOf, Instant

LEMMA FreshIsStamp == Types => Fresh \in 0..2
<1>1. ASSUME Types PROVE \E s \in 0..2 : s \notin {tick.seen.stamp, disc.seen.stamp}
  <2>1. \A a, b \in 0..2 : \E s \in 0..2 : s \notin {a, b}
    OBVIOUS
  <2>2. tick.seen.stamp \in 0..2 /\ disc.seen.stamp \in 0..2
    BY <1>1 DEF Types, Automation
  <2> QED
    BY <2>1, <2>2
<1> QED
  BY <1>1 DEF Fresh

LEMMA SavedIsAutomation ==
  ASSUME Types, NEW j \in Job, NEW a \in Automation, Saved(j, a)
  PROVE  /\ automation' \in [Job -> Automation]
         /\ \A k \in Job \ {j} : automation'[k] = automation[k]
         /\ automation'[j].status = a.status /\ automation'[j].next = a.next
<1>1. [a EXCEPT !.stamp = Fresh] \in Automation
  BY FreshIsStamp DEF Automation
<1>2. [a EXCEPT !.stamp = Fresh].status = a.status /\ [a EXCEPT !.stamp = Fresh].next = a.next
  BY DEF Automation
<1> QED
  BY <1>1, <1>2 DEF Saved, Types

\* What a tick makes of the time of a job.
LEMMA RearmType ==
  ASSUME Types, TickRun, NEW j \in Job, NEW seen \in Automation, Rearm(j, seen)
  PROVE  /\ automation' \in [Job -> Automation]
         /\ \A k \in Job \ {j} : automation'[k] = automation[k]
         /\ automation' = automation \/ Unmoved(j, seen)
<1>1. CASE Unmoved(j, seen)
  <2> DEFINE next == Upcoming(seen)
             status == IF automation[j].cron THEN automation[j].status ELSE "completed"
             a == [automation[j] EXCEPT !.next = next, !.status = status]
  <2>1. next \in 0..(MaxTime + 1)
    BY LimitAssumption DEF Types, TickRun, Instant, Upcoming
  <2>2. a \in Automation
    BY <2>1 DEF Types, Automation, AutomationStatus
  <2>3. Saved(j, a)
    BY <1>1 DEF Rearm, Types
  <2> QED
    BY <1>1, <2>2, <2>3, SavedIsAutomation
<1>2. CASE ~Unmoved(j, seen)
  BY <1>2 DEF Rearm, Types
<1> QED
  BY <1>1, <1>2

\* A request that is not the deletion writes a record of the job.
LEMMA RequestSaves ==
  ASSUME Types, NEW j \in Job, Request(j), automation' # automation
  PROVE  /\ automation' \in [Job -> Automation]
         /\ \A k \in Job \ {j} : automation'[k] = automation[k]
<1> USE LimitAssumption DEF Types
<1>0. clock + 1 \in 0..(MaxTime + 1) /\ automation[j] \in Automation
  BY DEF Instant
<1>n. NoAutomation \in Automation
  BY DEF NoAutomation, Automation
<1>1. CASE CreateAutomation(j)
  <2>1. PICK status \in {"active", "paused"}, cron \in BOOLEAN, at \in 0..MaxTime :
          Saved(j, [NoAutomation EXCEPT
                      !.status = status, !.cron = cron, !.chat = j \in FromChat,
                      !.next = IF at = 0 /\ status = "active" THEN NextSlot ELSE at])
    BY <1>1 DEF CreateAutomation
  <2> DEFINE next == IF at = 0 /\ status = "active" THEN NextSlot ELSE at
             A(chat) == [NoAutomation EXCEPT !.status = status, !.cron = cron,
                                             !.chat = chat, !.next = next]
  <2>2. next \in 0..(MaxTime + 1)
    BY <1>0 DEF NextSlot
  <2>3. status \in AutomationStatus \cup {"new", "gone"}
    BY DEF AutomationStatus
  <2>4. \A chat \in BOOLEAN : A(chat) \in Automation
    BY <1>n, <2>2, <2>3 DEF Automation
  <2>5. (j \in FromChat) \in BOOLEAN
    OBVIOUS
  <2> HIDE DEF A
  <2>6. A(j \in FromChat) \in Automation
    BY <2>4, <2>5, Zenon
  <2> QED
    BY <2>1, <2>6, SavedIsAutomation DEF A
<1>2. CASE PauseAutomation(j)
  <2> DEFINE a == [automation[j] EXCEPT !.status = "paused"]
  <2>1. a \in Automation /\ Saved(j, a)
    BY <1>0, <1>2 DEF PauseAutomation, Automation, AutomationStatus
  <2> QED
    BY <2>1, SavedIsAutomation
<1>3. CASE ResumeAutomation(j)
  <2> DEFINE next == IF automation[j].cron THEN NextSlot ELSE automation[j].next
             a == [automation[j] EXCEPT !.status = "active", !.next = next]
  <2>1. next \in 0..(MaxTime + 1)
    BY <1>0 DEF NextSlot, Automation
  <2>2. a \in Automation
    BY <1>0, <2>1 DEF Automation, AutomationStatus
  <2>3. Saved(j, a)
    BY <1>3 DEF ResumeAutomation
  <2> QED
    BY <2>2, <2>3, SavedIsAutomation
<1>4. CASE SetRunAt(j)
  <2>1. PICK at \in 1..MaxTime :
          Saved(j, [automation[j] EXCEPT !.status = Revived(@), !.cron = FALSE, !.next = at])
    BY <1>4 DEF SetRunAt
  <2> DEFINE s == Revived(automation[j].status)
  <2>2. s \in AutomationStatus \cup {"new", "gone"} /\ at \in 0..(MaxTime + 1)
    BY <1>0 DEF Automation, AutomationStatus, Revived
  <2>3. [automation[j] EXCEPT !.status = s, !.cron = FALSE, !.next = at] \in Automation
    BY <1>0, <2>2 DEF Automation
  <2> QED
    BY <2>1, <2>3, SavedIsAutomation
<1>5. CASE SetSchedule(j)
  <2> DEFINE s == Revived(automation[j].status)
             next == IF s = "active" THEN NextSlot ELSE automation[j].next
             a == [automation[j] EXCEPT !.status = s, !.cron = TRUE, !.next = next]
  <2>1. next \in 0..(MaxTime + 1) /\ s \in AutomationStatus \cup {"new", "gone"}
    BY <1>0 DEF NextSlot, Automation, Revived, AutomationStatus
  <2>2. a \in Automation
    BY <1>0, <2>1 DEF Automation
  <2>3. Saved(j, a)
    BY <1>5 DEF SetSchedule
  <2> QED
    BY <2>2, <2>3, SavedIsAutomation
<1>6. CASE Rewrite(j)
  BY <1>0, <1>6, SavedIsAutomation DEF Rewrite
<1>7. CASE DeleteAutomation(j)
  <2>1. Deleted \in Automation
    BY <1>n DEF Deleted, Automation
  <2> QED
    BY <1>7, <2>1 DEF DeleteAutomation
<1>8. CASE RunNow(j)
  BY <1>8 DEF RunNow, files
<1> QED
  BY <1>1, <1>2, <1>3, <1>4, <1>5, <1>6, <1>7, <1>8 DEF Request

LEMMA AfterWriteSaves ==
  ASSUME Types, NEW i \in Id, NEW r, NEW changed, AfterWrite(i, r, changed)
  PROVE  /\ automation' \in [Job -> Automation]
         /\ \A j \in Job : /\ automation'[j].status = automation[j].status
                           /\ automation'[j].next = automation[j].next
<1>1. CASE automation' = automation
  BY <1>1 DEF Types
<1>2. CASE automation' # automation
  <2>1. Saved(JobOf(i), automation[JobOf(i)])
    BY <1>2 DEF AfterWrite
  <2>2. JobOf(i) \in Job /\ automation[JobOf(i)] \in Automation
    BY IdParts DEF Types
  <2> QED
    BY <2>1, <2>2, SavedIsAutomation
<1> QED
  BY <1>1, <1>2

LEMMA AutomationKept ==
  Next => \/ UNCHANGED automation
          \/ RunNowEnqueued \/ TickEnqueued \/ RecWritten \/ DiscussionCreated
          \/ \E j \in Job : Request(j) \/ TickPasses(j) \/ TickFiredBefore(j)
          \/ \E i \in Id : RecSync(i)
<1>1. CASE Tick
  BY <1>1 DEF Tick, TickBegin, TickFires, files
<1>2. CASE Reconcile \/ RecFails
  BY <1>2 DEF Reconcile, RecFails, RecBegin, RecSends, RecDelivered, files
<1>3. CASE Discussion
  BY <1>3 DEF Discussion, DiscussionOpens, DiscussionWritten
<1>4. CASE TimePasses \/ Start \/ Crash \/ \E i \in Id : Tasks(i)
  BY <1>4 DEF TimePasses, Start, Crash, Tasks, TaskRuns, TaskEnds, TaskResumes, taskOthers, files
<1>5. CASE \E j \in Job : TickFails(j)
  BY <1>5 DEF TickFails, files
<1> QED
  BY <1>1, <1>2, <1>3, <1>4, <1>5 DEF Next

LEMMA AutomationStep ==
  ASSUME LoopInv, Next
  PROVE  automation' \in [Job -> Automation]
<1> USE DEF LoopInv
<1>1. CASE RunNowEnqueued
  <2>1. \/ automation' = automation
        \/ /\ JobOf(manual.id) \in Job
           /\ Saved(JobOf(manual.id), automation[JobOf(manual.id)])
    BY <1>1, IdParts DEF RunNowEnqueued, ManualRun, files
  <2> QED
    BY <2>1, SavedIsAutomation DEF Types
<1>2. CASE TickEnqueued
  <2>1. automation' = automation \/ Rearm(JobOf(tick.id), tick.seen)
    BY <1>2 DEF TickEnqueued, files
  <2>2. JobOf(tick.id) \in Job /\ tick.seen \in Automation
    BY <1>2, IdParts DEF TickEnqueued, TickRun, Types
  <2> QED
    BY <2>1, <2>2, RearmType DEF Types
<1>3. ASSUME NEW j \in Job, TickPasses(j) PROVE automation' \in [Job -> Automation]
  <2> DEFINE a == automation[j]
  <2>1. a \in Automation /\ NextSlot \in 0..(MaxTime + 1) /\ Upcoming(a) \in 0..(MaxTime + 1)
    BY LimitAssumption DEF Types, NextSlot, Instant, Upcoming, TickRun
  <2>2. /\ [a EXCEPT !.next = NextSlot] \in Automation
        /\ [a EXCEPT !.next = Upcoming(a)] \in Automation
    BY <2>1 DEF Automation
  <2>3. \/ automation' = automation \/ Saved(j, [a EXCEPT !.next = NextSlot])
        \/ Saved(j, [a EXCEPT !.next = Upcoming(a)])
    BY <1>3 DEF TickPasses
  <2> QED
    BY <2>2, <2>3, SavedIsAutomation DEF Types
<1>4. ASSUME NEW j \in Job, TickFiredBefore(j) PROVE automation' \in [Job -> Automation]
  BY <1>4, RearmType DEF TickFiredBefore, Types
<1>5. ASSUME NEW i \in Id, RecSync(i) PROVE automation' \in [Job -> Automation]
  <2>1. automation' = automation \/ \E r, c : AfterWrite(i, r, c)
    BY <1>5 DEF RecSync, files
  <2> QED
    BY <2>1, AfterWriteSaves DEF Types
<1>6. CASE RecWritten
  <2>1. rec.id \in Id
    BY <1>6 DEF RecWritten, RecRun, Awaited
  <2>2. \E r, c : AfterWrite(rec.id, r, c)
    BY <1>6 DEF RecWritten
  <2> QED
    BY <2>1, <2>2, AfterWriteSaves DEF Types
<1>7. CASE DiscussionCreated
  <2>1. [disc.seen EXCEPT !.chat = TRUE] \in Automation
    BY DEF Types, Automation
  <2> QED
    BY <1>7, <2>1 DEF DiscussionCreated, Types
<1> QED
  BY <1>1, <1>2, <1>3, <1>4, <1>5, <1>6, <1>7, AutomationKept, RequestSaves DEF Types

-----------------------------------------------------------------------------
(* The files of the runs.                                                  *)

LEMMA SaveEffect ==
  ASSUME run \in [Id -> Run], NEW i \in Id, NEW r \in Run,
         SaveRun(i, r) \/ SaveRunAndPrune(i, r)
  PROVE  /\ run' \in [Id -> Run] /\ run'[i] = r
         /\ \A k \in Id \ {i} : run'[k] = run[k] \/ run'[k] = NoRun
<1>1. CASE SaveRun(i, r)
  BY <1>1 DEF SaveRun
<1>2. CASE SaveRunAndPrune(i, r)
  <2>1. PICK S : run' = [k \in Id |-> IF k = i THEN r ELSE IF k \in S THEN NoRun ELSE run[k]]
    BY <1>2 DEF SaveRunAndPrune
  <2> QED
    BY <2>1, NoRunSound
<1> QED
  BY <1>1, <1>2

\* It is enough to look at what an action writes.
LEMMA FilesStay ==
  ASSUME LoopInv, Next, run' \in [Id -> Run],
         \A i \in Id : run'[i] = run[i] \/ run'[i] = NoRun \/ Sound(run'[i], created'[i])
  PROVE  Files'
<1>1. ASSUME NEW i \in Id PROVE Sound(run'[i], created'[i])
  <2>1. created[i] = 1 => created'[i] = 1
    BY TasksStep DEF LoopInv, Types
  <2> QED
    BY <2>1, SoundLater, NoRunSound DEF LoopInv, Files
<1> QED
  BY <1>1 DEF Files

LEMMA RunKept ==
  Next => \/ UNCHANGED run
          \/ RunNowEnqueued \/ TickEnqueued \/ RecWritten \/ RecDelivered
          \/ \E j \in Job : DeleteAutomation(j) \/ TickFires(j)
          \/ \E i \in Id : RecSync(i)
          \/ Discussion
<1>1. ASSUME NEW j \in Job, Request(j) PROVE UNCHANGED run \/ DeleteAutomation(j)
  BY <1>1 DEF Request, CreateAutomation, PauseAutomation, ResumeAutomation, SetRunAt,
     SetSchedule, Rewrite, RunNow, files
<1>2. CASE Tick
  BY <1>2 DEF Tick, TickBegin, TickPasses, TickFiredBefore, files
<1>3. CASE Reconcile \/ RecFails
  BY <1>3 DEF Reconcile, RecFails, RecBegin, RecSends, files
<1>4. CASE TimePasses \/ Start \/ Crash \/ \E i \in Id : Tasks(i)
  BY <1>4 DEF TimePasses, Start, Crash, Tasks, TaskRuns, TaskEnds, TaskResumes, taskOthers, files
<1>5. CASE \E j \in Job : TickFails(j)
  BY <1>5 DEF TickFails, files
<1> QED
  BY <1>1, <1>2, <1>3, <1>4, <1>5 DEF Next

\* A dispatch of an intent that is written, or not.
LEMMA DispatchWrites ==
  ASSUME LoopInv, NEW i \in Id, NEW r \in Run, Intent(r), Sound(r, created[i]),
         NEW new \in Dispatched(r), Dispatch(i, new),
         SaveRun(i, new) \/ SaveRunAndPrune(i, new) \/ UNCHANGED run
  PROVE  /\ run' \in [Id -> Run]
         /\ \A k \in Id : \/ run'[k] = run[k] \/ run'[k] = NoRun
                          \/ Sound(run'[k], created'[k]) /\ ~run'[k].done
<1>1. new \in Run /\ ~new.done /\ (new.linked => created'[i] = 1)
  BY DispatchedSound, DispatchCounts DEF LoopInv
<1>2. Sound(new, created'[i])
  BY <1>1, DispatchedSound
<1> QED
  BY <1>1, <1>2, SaveEffect DEF LoopInv, Types

\* What the reconciler, and a discussion, write.
LEMMA SyncReads ==
  ASSUME LoopInv, NEW i \in Id, Linked(i, rec.runs[i]) # NoTask,
         ~Settled(rec.runs[i]) \/ Resumed(rec.runs[i], Linked(i, rec.runs[i]))
  PROVE  LET new == Synced(rec.runs[i], Linked(i, rec.runs[i])) IN
         new \in Run /\ Sound(new, created[i]) /\ ~new.done
<1> DEFINE r == rec.runs[i]  t == Linked(i, r)
<1>1. r \in Run /\ Sound(r, created[i])
  BY DEF LoopInv, Types, RecRun
<1>2. t = task[i] /\ r.linked
  BY DEF Linked
<1>3. task[i] \in TaskStates /\ task[i].status # "none" /\ task[i].attempt \in Attempt
  BY <1>2, LimitAssumption DEF LoopInv, OneTaskInv, TaskStates, Attempts, Types, Attempt
<1> QED
  BY <1>1, <1>2, <1>3, SyncedSound

LEMMA RecWrittenWrites ==
  ASSUME LoopInv, RecWritten
  PROVE  /\ rec.id \in Id
         /\ \E r \in Run :
              /\ Sound(r, created[rec.id]) /\ Settled(r) /\ AfterWrite(rec.id, r, rec.pc = "write")
              /\ \/ SaveRun(rec.id, r)
                 \/ UNCHANGED run /\ r = rec.run
<1>1. /\ rec.id \in Id /\ rec.run \in Run /\ Settled(rec.run)
      /\ Sound(rec.run, created[rec.id])
  BY DEF LoopInv, Types, RecRun, RecWritten, Awaited
<1>2. CASE UNCHANGED run /\ AfterWrite(rec.id, rec.run, rec.pc = "write")
  BY <1>1, <1>2
<1>3. ASSUME NEW note \in {"written", "none"},
             SaveRun(rec.id, [rec.run EXCEPT !.note = note]),
             AfterWrite(rec.id, [rec.run EXCEPT !.note = note], rec.pc = "write")
      PROVE  \E r \in Run :
               /\ Sound(r, created[rec.id]) /\ Settled(r)
               /\ AfterWrite(rec.id, r, rec.pc = "write") /\ SaveRun(rec.id, r)
  <2>1. [rec.run EXCEPT !.note = note] \in Run
    BY <1>1, NoteSound
  <2>2. /\ Sound([rec.run EXCEPT !.note = note], created[rec.id])
        /\ Settled([rec.run EXCEPT !.note = note])
    BY <1>1, NoteSound
  <2> QED
    BY <1>3, <2>1, <2>2
<1> QED
  BY <1>1, <1>2, <1>3 DEF RecWritten

LEMMA RecDeliveredWrites ==
  ASSUME LoopInv, RecDelivered
  PROVE  rec.id \in Id /\ \E r \in Run : Sound(r, created[rec.id]) /\ SaveRun(rec.id, r)
<1>1. /\ rec.id \in Id /\ rec.run \in Run /\ Settled(rec.run) /\ ~rec.run.done
      /\ Sound(rec.run, created[rec.id])
  BY DEF LoopInv, Types, RecRun, RecDelivered, Awaited
<1> DEFINE done == [rec.run EXCEPT !.done = TRUE]
           tries == rec.run.tries + 1
           last == LastTry(tries)
           again == [rec.run EXCEPT !.tries = tries, !.done = last]
<1>2. tries \in 0..MaxAttempts /\ last \in BOOLEAN /\ (last \/ tries < MaxAttempts)
  BY <1>1, LimitAssumption DEF Run, Sound, LastTry
<1>3. done \in Run /\ Sound(done, created[rec.id])
  BY <1>1 DEF Run, Sound, Settled, SettledStatus, NoRun
<1>4. SaveRun(rec.id, done) \/ SaveRun(rec.id, again)
  BY DEF RecDelivered, Undelivered
<1> HIDE DEF tries, last
<1>5. again \in Run /\ Sound(again, created[rec.id])
  BY <1>1, <1>2 DEF Run, Sound, Settled, SettledStatus, NoRun
<1> QED
  BY <1>1, <1>3, <1>4, <1>5

LEMMA DiscussionWrites ==
  ASSUME LoopInv, Discussion, run' # run
  PROVE  \E i \in Id, r \in Run : Sound(r, created[i]) /\ Settled(r) /\ SaveRun(i, r)
<1>1. ASSUME NEW i \in Id, DiscussionOpens(i)
      PROVE  Sound(Discussed(run[i]), created[i]) /\ Discussed(run[i]) \in Run
             /\ Settled(Discussed(run[i])) /\ SaveRun(i, Discussed(run[i]))
  <2>1. run[i] \in Run /\ Sound(run[i], created[i]) /\ Settled(run[i])
    BY <1>1 DEF LoopInv, Types, Files, DiscussionOpens
  <2>2. SaveRun(i, Discussed(run[i]))
    BY <1>1 DEF DiscussionOpens
  <2> QED
    BY <2>1, <2>2, NoteSound DEF Discussed
<1>2. CASE DiscussionCreated \/ DiscussionWritten
  <2>1. /\ disc.id \in Id /\ disc.run \in Run /\ Settled(disc.run)
        /\ Sound(disc.run, created[disc.id])
    BY <1>2 DEF LoopInv, Types, DiscRun, DiscussionCreated, DiscussionWritten
  <2>2. PICK note \in {"none", "due", "written"} :
          SaveRun(disc.id, [disc.run EXCEPT !.note = note])
    BY <1>2 DEF DiscussionCreated, DiscussionWritten
  <2>3. [disc.run EXCEPT !.note = note] \in Run
    BY <2>1, NoteSound
  <2>4. /\ Sound([disc.run EXCEPT !.note = note], created[disc.id])
        /\ Settled([disc.run EXCEPT !.note = note])
    BY <2>1, NoteSound
  <2> QED
    BY <2>1, <2>2, <2>3, <2>4
<1> QED
  BY <1>1, <1>2 DEF Discussion

LEMMA FilesStep ==
  ASSUME LoopInv, Next
  PROVE  run' \in [Id -> Run] /\ Files'
<1> USE DEF LoopInv
<1>0. run \in [Id -> Run]
  BY DEF Types
<1> SUFFICES
      /\ run' \in [Id -> Run]
      /\ \A i \in Id : run'[i] = run[i] \/ run'[i] = NoRun \/ Sound(run'[i], created'[i])
  BY FilesStay
<1>1. ASSUME NEW i \in Id, NEW r \in Run, SaveRun(i, r), Sound(r, created[i])
      PROVE  /\ run' \in [Id -> Run]
             /\ \A k \in Id : run'[k] = run[k] \/ run'[k] = NoRun \/ Sound(run'[k], created'[k])
  <2>1. created[i] = 1 => created'[i] = 1
    BY TasksStep DEF Types
  <2>2. Sound(r, created'[i])
    BY <1>1, <2>1, SoundLater
  <2> QED
    BY <1>0, <1>1, <2>2, SaveEffect
<1>2. CASE RunNowEnqueued
  <2>1. PICK new \in Dispatched(manual.run) :
          /\ Dispatch(manual.id, new)
          /\ SaveRunAndPrune(manual.id, new) \/ UNCHANGED run
    BY <1>2 DEF RunNowEnqueued, files
  <2> QED
    BY <1>2, <2>1, DispatchWrites DEF RunNowEnqueued, ManualRun, Types
<1>3. CASE TickEnqueued
  <2>1. PICK new \in Dispatched(tick.run) :
          /\ Dispatch(tick.id, new)
          /\ SaveRunAndPrune(tick.id, new) \/ UNCHANGED run
    BY <1>3 DEF TickEnqueued, files
  <2> QED
    BY <1>3, <2>1, DispatchWrites DEF TickEnqueued, TickRun, Types
<1>4. ASSUME NEW j \in Job, DeleteAutomation(j)
      PROVE  run' \in [Id -> Run] /\ \A i \in Id : run'[i] = run[i] \/ run'[i] = NoRun
  BY <1>0, <1>4, NoRunSound DEF DeleteAutomation
<1>5. ASSUME NEW j \in Job, TickFires(j)
      PROVE  \E i \in Id, r \in Run : SaveRun(i, r) /\ Sound(r, created[i])
  <2>1. automation[j].next \in 1..tick.now /\ tick.now \in 0..MaxTime
    BY <1>5 DEF TickFires, Due, Types, Instant
  <2>2. <<j, automation[j].next>> \in Id
    BY <2>1, LimitAssumption DEF Id
  <2> DEFINE i == <<j, automation[j].next>>
             r == IF run[i] = NoRun THEN NewRun(j) ELSE run[i]
  <2>3. r \in Run /\ Sound(r, created[i])
    BY <1>0, <2>2, NewRunSound DEF Files
  <2>4. SaveRun(i, r)
    BY <1>5 DEF TickFires
  <2> QED
    BY <2>2, <2>3, <2>4
<1>6. ASSUME NEW i \in Id, RecSync(i), run' # run
      PROVE  \E k \in Id, r \in Run : SaveRun(k, r) /\ Sound(r, created[k])
  BY <1>6, SyncReads DEF RecSync, AfterWrite, files
<1>7. CASE UNCHANGED run
  BY <1>0, <1>7
<1> QED
  BY <1>1, <1>2, <1>3, <1>4, <1>5, <1>6, <1>7, RunKept, RecWrittenWrites,
     RecDeliveredWrites, DiscussionWrites

-----------------------------------------------------------------------------
(* The coroutines.                                                         *)

LEMMA TickKept ==
  Next => \/ UNCHANGED <<tick, clock>> \/ TickBegin \/ TickEnqueued \/ Crash \/ TimePasses
          \/ \E j \in Job : TickPasses(j) \/ TickFiredBefore(j) \/ TickFires(j) \/ TickFails(j)
<1>1. ASSUME NEW j \in Job, Request(j) PROVE UNCHANGED <<tick, clock>>
  BY <1>1 DEF Request, CreateAutomation, PauseAutomation, ResumeAutomation, SetRunAt,
     SetSchedule, Rewrite, DeleteAutomation, RunNow, requestOthers, loops
<1>2. CASE RunNowEnqueued \/ Reconcile \/ RecFails
  BY <1>2 DEF RunNowEnqueued, Reconcile, RecFails, RecBegin, RecSync, RecWritten, RecSends,
     RecDelivered, recOthers
<1>3. CASE Discussion
  BY <1>3 DEF Discussion, DiscussionOpens, DiscussionCreated, DiscussionWritten, discOthers
<1>4. CASE Start \/ \E i \in Id : Tasks(i)
  BY <1>4 DEF Start, Tasks, TaskRuns, TaskEnds, TaskResumes, taskOthers, loops
<1> QED
  BY <1>1, <1>2, <1>3, <1>4 DEF Next, Tick

TickType ==
  tick \in [pc : {"idle", "scan", "enqueue"}, todo : SUBSET Job, now : Instant,
            id : Id \cup {NoId}, seen : Automation, run : Run]

LEMMA TickIdleType ==
  TickIdle \in [pc : {"idle", "scan", "enqueue"}, todo : SUBSET Job, now : Instant,
                id : Id \cup {NoId}, seen : Automation, run : Run]
<1>1. NoAutomation \in Automation
  BY LimitAssumption DEF NoAutomation, Automation
<1>2. 0 \in Instant
  BY LimitAssumption DEF Instant
<1> QED
  BY <1>1, <1>2, NoRunSound DEF TickIdle

LEMMA TickStep ==
  ASSUME LoopInv, Next
  PROVE  TickType' /\ TickRun' /\ clock' \in Instant
<1> USE DEF TickType
<1>0. /\ TickType /\ TickRun /\ clock \in Instant
      /\ Instant = 0..MaxTime /\ MaxTime \in Nat
  BY LimitAssumption DEF LoopInv, Types, Instant
<1>1. CASE UNCHANGED <<tick, clock>>
  <2>1. tick.pc = "enqueue" => (created[tick.id] = 1 => created'[tick.id] = 1)
    BY TasksStep DEF LoopInv, Types, TickRun
  <2>2. tick.pc = "enqueue" => Sound(tick.run, created'[tick.id])
    BY <1>0, <2>1, SoundLater DEF TickRun
  <2> QED
    BY <1>0, <1>1, <2>2 DEF TickRun
<1>2. CASE TimePasses
  <2>1. tick' = tick /\ created' = created
    BY <1>2 DEF TimePasses, loops, tasks
  <2>2. clock' \in Instant /\ clock <= clock'
    BY <1>0, <1>2 DEF TimePasses
  <2> QED
    BY <1>0, <2>1, <2>2 DEF TickRun
<1>3. ASSUME clock' = clock,
             \/ tick' = TickIdle
             \/ /\ tick' = [TickIdle EXCEPT !.pc = "scan", !.now = tick'.now, !.todo = tick'.todo]
                /\ tick'.now \in 0..clock /\ tick'.todo \in SUBSET Job
      PROVE  TickType' /\ TickRun' /\ clock' \in Instant
  <2>1. TickType' /\ tick'.pc # "enqueue" /\ tick'.now \in 0..clock
    <3>1. CASE tick' = TickIdle
      BY <1>0, <3>1, TickIdleType DEF TickIdle
    <3>2. CASE tick' # TickIdle
      <4>1. tick'.now \in Instant /\ tick'.todo \in SUBSET Job /\ tick'.now \in 0..clock
        BY <1>0, <1>3, <3>2
      <4> DEFINE now == tick'.now  todo == tick'.todo
      <4>2. tick' = [TickIdle EXCEPT !.pc = "scan", !.now = now, !.todo = todo]
        BY <1>3, <3>2
      <4> HIDE DEF now, todo
      <4>3. now \in Instant /\ todo \in SUBSET Job
        BY <4>1 DEF now, todo
      <4> QED
        BY <4>1, <4>2, <4>3, TickIdleType
    <3> QED
      BY <3>1, <3>2
  <2> QED
    BY <1>0, <1>3, <2>1 DEF TickRun
<1>4. CASE TickBegin
  <2>1. tick' = [TickIdle EXCEPT !.pc = "scan", !.now = clock, !.todo = {j \in Job : Exists(j)}]
    BY <1>4 DEF TickBegin
  <2>2. tick'.now = clock /\ tick'.todo = {j \in Job : Exists(j)} /\ clock' = clock
    BY <1>4, <2>1 DEF TickIdle, TickBegin, tickOthers
  <2>3. tick' = [TickIdle EXCEPT !.pc = "scan", !.now = tick'.now, !.todo = tick'.todo]
    BY <2>1, <2>2
  <2>4. tick'.now \in 0..clock /\ tick'.todo \in SUBSET Job
    BY <1>0, <2>2
  <2> QED
    BY <1>3, <2>2, <2>3, <2>4
<1>5. ASSUME NEW j, TickPast(j), clock' = clock
      PROVE  TickType' /\ TickRun' /\ clock' \in Instant
  <2>1. CASE tick' = TickIdle
    BY <1>3, <1>5, <2>1
  <2>2. CASE tick' # TickIdle
    <3>1. tick' = [TickIdle EXCEPT !.pc = "scan", !.now = tick.now, !.todo = tick.todo \ {j}]
      BY <1>5, <2>2 DEF TickPast
    <3>2. tick'.now = tick.now /\ tick'.todo = tick.todo \ {j}
      BY <3>1 DEF TickIdle
    <3>3. tick.now \in 0..clock /\ tick.todo \in SUBSET Job
      BY <1>0 DEF TickRun
    <3> QED
      BY <1>3, <1>5, <3>1, <3>2, <3>3
  <2> QED
    BY <2>1, <2>2
<1>6. CASE Crash
  BY <1>3, <1>6 DEF Crash
<1>7. CASE TickEnqueued
  BY <1>5, <1>7 DEF TickEnqueued, tickOthers
<1>8. ASSUME NEW j \in Job, TickPasses(j) \/ TickFiredBefore(j) \/ TickFails(j)
      PROVE  TickType' /\ TickRun' /\ clock' \in Instant
  BY <1>5, <1>8 DEF TickPasses, TickFiredBefore, TickFails, tickOthers
<1>9. ASSUME NEW j \in Job, TickFires(j)
      PROVE  TickType' /\ TickRun' /\ clock' \in Instant
  <2>1. automation[j].next \in 1..tick.now /\ tick.now \in 0..MaxTime
    BY <1>0, <1>9 DEF TickFires, Due
  <2>2. <<j, automation[j].next>> \in Id
    BY <2>1, LimitAssumption DEF Id
  <2> DEFINE i == <<j, automation[j].next>>
             r == IF run[i] = NoRun THEN NewRun(j) ELSE run[i]
  <2>3. r \in Run /\ Intent(r) /\ Sound(r, created[i])
    BY <1>9, <2>2, NewRunSound DEF TickFires, HasRun, LoopInv, Files, Types
  <2>4. /\ tick' = [tick EXCEPT !.pc = "enqueue", !.id = i, !.seen = automation[j], !.run = r]
        /\ clock' = clock /\ created' = created
    BY <1>9 DEF TickFires, tickOthers, tasks
  <2>5. automation[j] \in Automation /\ i[2] = automation[j].next
    BY DEF LoopInv, Types
  <2> HIDE DEF i, r
  <2> QED
    BY <1>0, <2>2, <2>3, <2>4, <2>5 DEF TickRun, i
<1> QED
  BY <1>1, <1>2, <1>4, <1>6, <1>7, <1>8, <1>9, TickKept

ManualType == manual \in [id : Id \cup {NoId}, run : Run]

LEMMA ManualStep ==
  ASSUME LoopInv, Next
  PROVE  ManualType' /\ ManualRun'
<1> USE DEF ManualType
<1>0. ManualType /\ ManualRun
  BY DEF LoopInv, Types
<1>1. CASE manual' = manual
  <2>1. manual # ManualIdle => (created[manual.id] = 1 => created'[manual.id] = 1)
    BY TasksStep DEF LoopInv, Types, ManualRun
  <2> QED
    BY <1>0, <1>1, <2>1, SoundLater DEF ManualRun
<1>2. CASE manual' = ManualIdle
  BY <1>2, NoRunSound DEF ManualIdle, ManualRun
<1>3. ASSUME NEW j \in Job, RunNow(j) PROVE ManualType' /\ ManualRun'
  <2>1. <<j, 0>> \in Id /\ manual' = [id |-> <<j, 0>>, run |-> NewRun(j)]
    BY <1>3, LimitAssumption DEF RunNow, Id
  <2> QED
    BY <2>1, NewRunSound DEF ManualRun
<1>4. ASSUME NEW j \in Job, Request(j) PROVE manual' = manual \/ RunNow(j)
  BY <1>4 DEF Request, CreateAutomation, PauseAutomation, ResumeAutomation, SetRunAt,
     SetSchedule, Rewrite, DeleteAutomation, requestOthers, loops
<1>5. CASE Tick \/ \E j \in Job : TickFails(j)
  BY <1>1, <1>5 DEF Tick, TickBegin, TickPasses, TickFiredBefore, TickFires, TickEnqueued,
     TickFails, tickOthers
<1>6. CASE Reconcile \/ RecFails
  BY <1>1, <1>6 DEF Reconcile, RecFails, RecBegin, RecSync, RecWritten, RecSends,
     RecDelivered, recOthers
<1>7. CASE Discussion
  BY <1>1, <1>7 DEF Discussion, DiscussionOpens, DiscussionCreated, DiscussionWritten, discOthers
<1>8. CASE TimePasses \/ Start \/ \E i \in Id : Tasks(i)
  BY <1>1, <1>8 DEF TimePasses, Start, Tasks, TaskRuns, TaskEnds, TaskResumes, taskOthers, loops
<1>9. CASE RunNowEnqueued \/ Crash
  BY <1>2, <1>9 DEF RunNowEnqueued, Crash
<1> QED
  BY <1>1, <1>3, <1>4, <1>5, <1>6, <1>7, <1>8, <1>9 DEF Next

DiscType ==
  disc \in [pc : {"idle", "create", "write"}, id : Id \cup {NoId}, seen : Automation, run : Run]

LEMMA DiscKept ==
  Next => disc' = disc \/ Crash \/ Discussion
<1>1. ASSUME NEW j \in Job, Request(j) PROVE disc' = disc
  BY <1>1 DEF Request, CreateAutomation, PauseAutomation, ResumeAutomation, SetRunAt,
     SetSchedule, Rewrite, DeleteAutomation, RunNow, requestOthers, loops
<1>2. CASE RunNowEnqueued \/ Tick \/ \E j \in Job : TickFails(j)
  BY <1>2 DEF RunNowEnqueued, Tick, TickBegin, TickPasses, TickFiredBefore, TickFires,
     TickEnqueued, TickFails, tickOthers
<1>3. CASE Reconcile \/ RecFails
  BY <1>3 DEF Reconcile, RecFails, RecBegin, RecSync, RecWritten, RecSends, RecDelivered, recOthers
<1>4. CASE TimePasses \/ Start \/ \E i \in Id : Tasks(i)
  BY <1>4 DEF TimePasses, Start, Tasks, TaskRuns, TaskEnds, TaskResumes, taskOthers, loops
<1> QED
  BY <1>1, <1>2, <1>3, <1>4 DEF Next

LEMMA DiscStep ==
  ASSUME LoopInv, Next
  PROVE  DiscType' /\ DiscRun'
<1> USE DEF DiscType
<1>0. DiscType /\ DiscRun
  BY DEF LoopInv, Types
<1>n. NoAutomation \in Automation
  BY LimitAssumption DEF NoAutomation, Automation
<1>1. CASE disc' = disc
  <2>1. disc.pc # "idle" => (created[disc.id] = 1 => created'[disc.id] = 1)
    BY TasksStep DEF LoopInv, Types, DiscRun
  <2> QED
    BY <1>0, <1>1, <2>1, SoundLater DEF DiscRun
<1>2. CASE disc' = DiscIdle
  BY <1>2, <1>n, NoRunSound DEF DiscIdle, DiscRun
<1>3. ASSUME NEW i \in Id, NEW pc \in {"create", "write"}, NEW a \in Automation, NEW r \in Run,
             disc' = [pc |-> pc, id |-> i, seen |-> a, run |-> r],
             Settled(r), Sound(r, created[i]), created' = created
      PROVE  DiscType' /\ DiscRun'
  BY <1>3 DEF DiscRun
<1>4. ASSUME NEW i \in Id, DiscussionOpens(i) PROVE DiscType' /\ DiscRun'
  <2>1. run[i] \in Run /\ Sound(run[i], created[i]) /\ Settled(run[i]) /\ created' = created
    BY <1>4 DEF LoopInv, Types, Files, DiscussionOpens, discOthers, tasks
  <2>2. Discussed(run[i]) \in Run /\ Sound(Discussed(run[i]), created[i])
        /\ Settled(Discussed(run[i]))
    BY <2>1, NoteSound DEF Discussed
  <2>3. automation[JobOf(i)] \in Automation
    BY IdParts DEF LoopInv, Types
  <2>4. \/ disc' = [pc |-> "write", id |-> i, seen |-> NoAutomation, run |-> Discussed(run[i])]
        \/ disc' = [pc |-> "create", id |-> i, seen |-> automation[JobOf(i)], run |-> run[i]]
    BY <1>4 DEF DiscussionOpens
  <2> QED
    BY <1>n, <1>3, <2>1, <2>2, <2>3, <2>4
<1>5. CASE DiscussionCreated
  <2>1. /\ disc.id \in Id /\ disc.run \in Run /\ Settled(disc.run)
        /\ Sound(disc.run, created[disc.id]) /\ created' = created
    BY <1>0, <1>5 DEF DiscRun, DiscussionCreated, discOthers, tasks
  <2> DEFINE r == [disc.run EXCEPT !.note = "due"]
  <2>2. r \in Run /\ Sound(r, created[disc.id]) /\ Settled(r)
    BY <2>1, NoteSound
  <2>3. disc' = [pc |-> "write", id |-> disc.id, seen |-> NoAutomation, run |-> r]
    BY <1>5 DEF DiscussionCreated
  <2> QED
    BY <1>n, <1>3, <2>1, <2>2, <2>3
<1>6. CASE DiscussionWritten \/ Crash
  BY <1>2, <1>6 DEF DiscussionWritten, Crash
<1> QED
  BY <1>1, <1>4, <1>5, <1>6, DiscKept DEF Discussion

-----------------------------------------------------------------------------
(* The reconciler.                                                         *)

RecType == rec \in [pc : RecPc, runs : [Id -> Run], id : Id \cup {NoId}, run : Run]
RecInv == RecType /\ RecRun /\ Undone

LEMMA RecKept ==
  Next => rec' = rec \/ Crash \/ Reconcile \/ RecFails
<1>1. ASSUME NEW j \in Job, Request(j) PROVE rec' = rec
  BY <1>1 DEF Request, CreateAutomation, PauseAutomation, ResumeAutomation, SetRunAt,
     SetSchedule, Rewrite, DeleteAutomation, RunNow, requestOthers, loops
<1>2. CASE RunNowEnqueued \/ Tick \/ \E j \in Job : TickFails(j)
  BY <1>2 DEF RunNowEnqueued, Tick, TickBegin, TickPasses, TickFiredBefore, TickFires,
     TickEnqueued, TickFails, tickOthers
<1>3. CASE Discussion
  BY <1>3 DEF Discussion, DiscussionOpens, DiscussionCreated, DiscussionWritten, discOthers
<1>4. CASE TimePasses \/ Start \/ \E i \in Id : Tasks(i)
  BY <1>4 DEF TimePasses, Start, Tasks, TaskRuns, TaskEnds, TaskResumes, taskOthers, loops
<1> QED
  BY <1>1, <1>2, <1>3, <1>4 DEF Next

LEMMA IdleReconciler == rec' = RecIdle => RecInv'
BY NoRunSound DEF RecIdle, RecInv, RecType, RecPc, RecRun, Awaited, Undone

\* The pass goes on with the next run: it still knows less than the files.
LEMMA GoesOn ==
  ASSUME LoopInv, NEW i \in Id, RecPast(i), created' = created,
         \A k \in Id \ {i} : run'[k] = run[k]
  PROVE  RecInv'
<1>1. CASE rec' = RecIdle
  BY <1>1, IdleReconciler
<1>2. CASE rec' # RecIdle
  <2> DEFINE left == [rec.runs EXCEPT ![i] = NoRun]
  <2>1. rec' = [rec EXCEPT !.pc = "list", !.runs = left, !.id = NoId, !.run = NoRun]
    BY <1>2 DEF RecPast
  <2>2. rec.runs \in [Id -> Run]
    BY DEF LoopInv, Types
  <2>3. left \in [Id -> Run] /\ left[i] = NoRun /\ \A k \in Id \ {i} : left[k] = rec.runs[k]
    BY <2>2, NoRunSound
  <2> HIDE DEF left
  <2>4. RecType'
    BY <2>1, <2>3, NoRunSound DEF LoopInv, Types, RecType, RecPc
  <2>5. rec'.pc = "list" /\ rec'.runs = left
    BY <2>1 DEF LoopInv, Types
  <2>6. RecRun'
    BY <2>3, <2>5, NoRunSound DEF LoopInv, RecRun, Awaited
  <2>7. Undone'
    BY <2>3, <2>5 DEF LoopInv, Undone, Awaited
  <2> QED
    BY <2>4, <2>6, <2>7 DEF RecInv
<1> QED
  BY <1>1, <1>2

\* The pass awaits something for a run, with the copy it goes on from.
LEMMA WaitsFor ==
  ASSUME LoopInv, NEW i \in Id, NEW pc \in Awaited, NEW r \in Run, Awaits(pc, i, r),
         created' = created, Settled(r), Sound(r, created[i]),
         pc \in {"deliver", "sent", "refused"} => ~r.done,
         run'[i].done => r.done,
         \A k \in Id : run'[k] = run[k] \/ ~run'[k].done
  PROVE  RecInv'
<1>1. rec \in [pc : RecPc, runs : [Id -> Run], id : Id \cup {NoId}, run : Run]
  BY DEF LoopInv, Types
<1>2. RecType'
  BY <1>1 DEF Awaits, RecType, Awaited, RecPc
<1>3. rec'.pc = pc /\ rec'.id = i /\ rec'.run = r /\ rec'.runs = rec.runs
  BY <1>1 DEF Awaits
<1> QED
  BY <1>2, <1>3 DEF RecInv, RecRun, Undone, LoopInv

\* Nobody else writes that a run is delivered.
LEMMA OthersWrite ==
  ASSUME LoopInv, Next, rec' = rec, \A k \in Id : run'[k] = run[k] \/ ~run'[k].done
  PROVE  RecInv'
<1>1. \A i \in Id : created[i] = 1 => created'[i] = 1
  BY TasksStep DEF LoopInv, Types
<1> QED
  BY <1>1, SoundLater DEF LoopInv, Types, RecInv, RecType, RecRun, Undone, Awaited

LEMMA AfterWriteGoesOn ==
  ASSUME NEW i \in Id, NEW r \in Run, NEW changed, AfterWrite(i, r, changed)
  PROVE  RecPast(i) \/ (Awaits("deliver", i, r) /\ Settled(r) /\ ~r.done)
BY DEF AfterWrite, Deliverable, Settled, SettledStatus

LEMMA BeginLists ==
  ASSUME LoopInv, NEW j \in Job, RecBegin(j)
  PROVE  RecInv'
<1>1. /\ rec' = [RecIdle EXCEPT !.pc = "list", !.runs = Listed(j)]
      /\ run' = run /\ created' = created
  BY DEF RecBegin, files, recOthers, tasks
<1>2. Listed(j) \in [Id -> Run] /\ \A i \in Id : Listed(j)[i] = NoRun \/ Listed(j)[i] = run[i]
  BY NoRunSound DEF Listed, LoopInv, Types
<1>3. RecType'
  BY <1>1, <1>2, NoRunSound DEF RecIdle, RecType, RecPc
<1>4. rec'.pc = "list" /\ rec'.runs = Listed(j)
  BY <1>1 DEF RecIdle
<1>5. RecRun' /\ Undone'
  BY <1>1, <1>2, <1>4, NoRunSound DEF RecRun, Undone, LoopInv, Files, Awaited
<1> QED
  BY <1>3, <1>5 DEF RecInv

\* What follows the write, or the lack of one, of a copy.
LEMMA WritesAndGoesOn ==
  ASSUME LoopInv, NEW i \in Id, NEW r \in Run, NEW changed, AfterWrite(i, r, changed),
         created' = created, Sound(r, created[i]), run'[i].done => r.done,
         \A k \in Id \ {i} : run'[k] = run[k]
  PROVE  RecInv'
<1>1. CASE RecPast(i)
  BY <1>1, GoesOn
<1>2. CASE ~RecPast(i)
  <2>1. Awaits("deliver", i, r) /\ Settled(r) /\ ~r.done
    BY <1>2, AfterWriteGoesOn
  <2> QED
    BY <2>1, WaitsFor DEF Awaited
<1> QED
  BY <1>1, <1>2

LEMMA SyncGoesOn ==
  ASSUME LoopInv, NEW i \in Id, RecSync(i)
  PROVE  RecInv'
<1> DEFINE r == rec.runs[i]  t == Linked(i, r)  new == Synced(r, t)
<1>1. /\ r \in Run /\ Sound(r, created[i]) /\ created' = created
      /\ r # NoRun /\ run \in [Id -> Run] /\ (run[i].done => r.done)
  BY DEF LoopInv, Types, RecRun, Undone, RecSync, recOthers, tasks
<1>2. CASE Settled(r) /\ ~Resumed(r, t)
  <2>1. run' = run /\ (Awaits("retry", i, r) \/ AfterWrite(i, r, FALSE))
    BY <1>2 DEF RecSync
  <2> QED
    BY <1>1, <1>2, <2>1, WaitsFor, WritesAndGoesOn DEF Awaited
<1>3. CASE run' = run /\ RecPast(i)
  BY <1>1, <1>3, GoesOn
<1>4. CASE /\ ~Settled(r) \/ Resumed(r, t)
           /\ t # NoTask /\ SaveRun(i, new)
           /\ (Settled(new) /\ Awaits("write", i, new)) \/ AfterWrite(i, new, TRUE)
  <2>1. new \in Run /\ Sound(new, created[i]) /\ ~new.done
    BY <1>4, SyncReads
  <2>2. run'[i] = new /\ \A k \in Id \ {i} : run'[k] = run[k]
    BY <1>1, <1>4 DEF SaveRun
  <2> HIDE DEF new
  <2> QED
    BY <1>1, <1>4, <2>1, <2>2, WaitsFor, WritesAndGoesOn DEF Awaited
<1> QED
  BY <1>2, <1>3, <1>4 DEF RecSync, Writable, files

LEMMA WrittenGoesOn ==
  ASSUME LoopInv, RecWritten
  PROVE  RecInv'
<1>1. rec.id \in Id /\ created' = created /\ run \in [Id -> Run]
  BY RecWrittenWrites DEF LoopInv, Types, RecWritten, recOthers, tasks
<1>2. PICK r \in Run :
        /\ Sound(r, created[rec.id]) /\ AfterWrite(rec.id, r, rec.pc = "write")
        /\ SaveRun(rec.id, r) \/ (UNCHANGED run /\ r = rec.run)
  BY RecWrittenWrites
<1>3. \A k \in Id \ {rec.id} : run'[k] = run[k]
  BY <1>1, <1>2 DEF SaveRun
<1>4. run'[rec.id].done => r.done
  BY <1>1, <1>2 DEF SaveRun, RecWritten, LoopInv, Undone, Awaited
<1> QED
  BY <1>1, <1>2, <1>3, <1>4, WritesAndGoesOn

LEMMA SendsGoesOn ==
  ASSUME LoopInv, RecSends
  PROVE  RecInv'
<1>1. /\ rec.id \in Id /\ rec.run \in Run /\ Settled(rec.run) /\ ~rec.run.done
      /\ Sound(rec.run, created[rec.id]) /\ ~run[rec.id].done
  BY DEF LoopInv, Types, RecRun, Undone, RecSends, Awaited
<1>2. run' = run /\ created' = created
  BY DEF RecSends, files, recOthers, tasks
<1>3. \/ Awaits("sent", rec.id, rec.run) \/ Awaits("refused", rec.id, rec.run)
      \/ RecPast(rec.id)
  BY DEF RecSends
<1> QED
  BY <1>1, <1>2, <1>3, GoesOn, WaitsFor DEF Awaited

LEMMA RecStep ==
  ASSUME LoopInv, Next
  PROVE  RecInv'
<1>1. CASE Crash
  BY <1>1, IdleReconciler DEF Crash
<1>2. CASE RecFails
  <2>1. run' = run /\ created' = created
    BY <1>2 DEF RecFails, files, recOthers, tasks
  <2>2. \E i \in Id : RecPast(i)
    BY <1>2 DEF RecFails, LoopInv, RecRun, Awaited
  <2> QED
    BY <2>1, <2>2, GoesOn
<1>3. CASE RecDelivered
  <2>1. rec.id \in Id /\ run \in [Id -> Run] /\ created' = created /\ RecPast(rec.id)
    BY <1>3, RecDeliveredWrites DEF LoopInv, Types, RecDelivered, recOthers, tasks
  <2>2. \E r : SaveRun(rec.id, r)
    BY <1>3, RecDeliveredWrites
  <2> QED
    BY <2>1, <2>2, GoesOn DEF SaveRun
<1>4. CASE Reconcile
  BY <1>3, <1>4, BeginLists, SyncGoesOn, WrittenGoesOn, SendsGoesOn DEF Reconcile
<1>5. CASE Discussion
  <2>1. rec' = rec /\ rec = RecIdle
    BY <1>5 DEF Discussion, DiscussionOpens, DiscussionCreated, DiscussionWritten, discOthers,
       SchedulerFree, LoopInv, Lock, DiscIdle
  <2> QED
    BY <2>1, IdleReconciler
<1>6. CASE rec' = rec /\ ~Discussion /\ ~Reconcile
  <2>1. run \in [Id -> Run]
    BY DEF LoopInv, Types
  <2>2. CASE RunNowEnqueued
    <3>1. PICK new \in Dispatched(manual.run) :
            /\ Dispatch(manual.id, new)
            /\ SaveRunAndPrune(manual.id, new) \/ UNCHANGED run
      BY <2>2 DEF RunNowEnqueued, files
    <3>2. \A k \in Id : run'[k] = run[k] \/ ~run'[k].done
      BY <2>2, <3>1, DispatchWrites
         DEF RunNowEnqueued, LoopInv, ManualRun, Types, NoRun
    <3> QED
      BY <1>6, <3>2, OthersWrite
  <2>3. CASE TickEnqueued
    <3>1. PICK new \in Dispatched(tick.run) :
            /\ Dispatch(tick.id, new)
            /\ SaveRunAndPrune(tick.id, new) \/ UNCHANGED run
      BY <2>3 DEF TickEnqueued, files
    <3>2. \A k \in Id : run'[k] = run[k] \/ ~run'[k].done
      BY <2>3, <3>1, DispatchWrites DEF TickEnqueued, LoopInv, TickRun, Types, NoRun
    <3> QED
      BY <1>6, <3>2, OthersWrite
  <2>4. ASSUME NEW j \in Job, DeleteAutomation(j)
        PROVE  \A k \in Id : run'[k] = run[k] \/ ~run'[k].done
    BY <2>1, <2>4 DEF DeleteAutomation, NoRun
  <2>5. ASSUME NEW j \in Job, TickFires(j)
        PROVE  \A k \in Id : run'[k] = run[k] \/ ~run'[k].done
    <3>1. ~NewRun(j).done
      BY DEF NewRun, NoRun
    <3> QED
      BY <2>1, <2>5, <3>1 DEF TickFires, SaveRun
  <2>6. CASE UNCHANGED run
    BY <1>6, <2>6, OthersWrite
  <2> QED
    BY <1>6, <2>2, <2>3, <2>4, <2>5, <2>6, OthersWrite, RunKept DEF Reconcile
<1> QED
  BY <1>1, <1>2, <1>4, <1>5, <1>6, RecKept

LEMMA LockStep ==
  ASSUME LoopInv, Next
  PROVE  Lock'
<1>1. CASE rec' = rec /\ disc' = disc
  BY <1>1 DEF LoopInv, Lock
<1>2. CASE Crash
  BY <1>2 DEF Crash, Lock
<1>3. CASE RecFails \/ Reconcile
  <2>1. disc' = disc /\ (rec.pc # "idle" \/ disc = DiscIdle)
    BY <1>3 DEF RecFails, Reconcile, RecBegin, RecSync, RecWritten, RecSends,
       RecDelivered, recOthers, SchedulerFree
  <2>2. rec.pc # "idle" => rec # RecIdle
    BY DEF RecIdle
  <2> QED
    BY <2>1, <2>2 DEF LoopInv, Lock
<1>4. CASE Discussion
  BY <1>4 DEF Discussion, DiscussionOpens, DiscussionCreated, DiscussionWritten, discOthers,
     SchedulerFree, LoopInv, Lock, DiscIdle
<1> QED
  BY <1>1, <1>2, <1>3, <1>4, RecKept, DiscKept

-----------------------------------------------------------------------------
(* The messages.                                                           *)

LEMMA SentKept == Next => sent' = sent \/ RecSends
<1>1. ASSUME NEW j \in Job, Request(j) PROVE sent' = sent
  BY <1>1 DEF Request, CreateAutomation, PauseAutomation, ResumeAutomation, SetRunAt,
     SetSchedule, Rewrite, DeleteAutomation, RunNow, requestOthers
<1>2. CASE RunNowEnqueued \/ Tick \/ \E j \in Job : TickFails(j)
  BY <1>2 DEF RunNowEnqueued, Tick, TickBegin, TickPasses, TickFiredBefore, TickFires,
     TickEnqueued, TickFails, tickOthers
<1>3. CASE Reconcile \/ RecFails
  BY <1>3 DEF Reconcile, RecFails, RecBegin, RecSync, RecWritten, RecDelivered
<1>4. CASE Discussion
  BY <1>4 DEF Discussion, DiscussionOpens, DiscussionCreated, DiscussionWritten, discOthers
<1>5. CASE TimePasses \/ Start \/ Crash \/ \E i \in Id : Tasks(i)
  BY <1>5 DEF TimePasses, Start, Crash, Tasks, TaskRuns, TaskEnds, TaskResumes, taskOthers
<1> QED
  BY <1>1, <1>2, <1>3, <1>4, <1>5 DEF Next

\* A message goes out for the end that the copy of the run tells of.
LEMMA SendsOne ==
  ASSUME LoopInv, Next, sent' # sent
  PROVE  /\ rec.id \in Id /\ ~run[rec.id].done
         /\ sent' = [sent EXCEPT ![rec.id][rec.run.ended] = @ + 1]
<1>1. RecSends /\ sent' = [sent EXCEPT ![rec.id][rec.run.ended] = @ + 1]
  BY SentKept DEF RecSends
<1> QED
  BY <1>1 DEF RecSends, LoopInv, RecRun, Undone, Awaited

LEMMA SentStep ==
  ASSUME LoopInv, Next
  PROVE  sent' \in [Id -> [Attempt -> Nat]]
<1>1. sent \in [Id -> [Attempt -> Nat]]
  BY DEF LoopInv, Types
<1>2. CASE sent' # sent
  <2>1. rec.id \in Id /\ sent' = [sent EXCEPT ![rec.id][rec.run.ended] = @ + 1]
    BY <1>2, SendsOne
  <2>2. rec.run.ended \in Attempt
    BY DEF LoopInv, Types, Run, Attempt
  <2> QED
    BY <1>1, <2>1, <2>2
<1> QED
  BY <1>1, <1>2

-----------------------------------------------------------------------------
(* The invariant.                                                          *)

LEMMA LoopInvInit == Init => LoopInv
<1> SUFFICES ASSUME Init PROVE LoopInv
  OBVIOUS
<1>1. OneTaskInv
  BY InitCounts
<1>2. NoAutomation \in Automation /\ 0 \in Instant /\ 0 \in 0..MaxResumes
  BY LimitAssumption DEF NoAutomation, Automation, Instant
<1>3. TickType
  BY TickIdleType DEF Init, TickType
<1>4. Types
  <2>1. sent \in [Id -> [Attempt -> Nat]]
    BY DEF Init, Attempt
  <2>2. ManualType /\ RecType /\ DiscType
    BY <1>2, NoRunSound DEF Init, ManualType, RecType, DiscType, ManualIdle, RecIdle,
       DiscIdle, RecPc
  <2> QED
    BY <1>2, <1>3, <2>1, <2>2, NoRunSound
       DEF Init, Types, TickType, ManualType, RecType, DiscType
<1>5. Attempts
  BY DEF Init, Attempts, NoTask
<1>6. Files /\ RecRun /\ Undone
  BY NoRunSound DEF Init, Files, RecRun, Undone, RecIdle, Awaited, NoRun
<1>7. TickRun /\ ManualRun /\ DiscRun /\ Lock
  BY DEF Init, TickRun, ManualRun, DiscRun, Lock, TickIdle, DiscIdle
<1> QED
  BY <1>1, <1>4, <1>5, <1>6, <1>7 DEF LoopInv

LEMMA UpStep ==
  ASSUME LoopInv, Next
  PROVE  up' \in BOOLEAN /\ edits' \in Nat
<1> USE DEF bounds, LoopInv, Types
<1>0. up \in BOOLEAN /\ edits \in Nat
  BY DEF LoopInv, Types
<1>1. ASSUME NEW j \in Job, Request(j) PROVE up' = up /\ edits' \in Nat
  <2>1. Edit \/ edits' = edits
    BY <1>1 DEF Request, CreateAutomation, PauseAutomation, ResumeAutomation, SetRunAt,
       SetSchedule, Rewrite, DeleteAutomation, RunNow
  <2>2. up' = up
    BY <1>1 DEF Request, CreateAutomation, PauseAutomation, ResumeAutomation, SetRunAt,
       SetSchedule, Rewrite, DeleteAutomation, RunNow, requestOthers
  <2> QED
    BY <1>0, <2>1, <2>2 DEF Edit
<1>2. CASE RunNowEnqueued \/ TickBegin \/ TickEnqueued
  BY <1>2 DEF RunNowEnqueued, TickBegin, TickEnqueued, tickOthers
<1>3. ASSUME NEW j \in Job, TickPasses(j) \/ TickFiredBefore(j) \/ TickFires(j) \/ TickFails(j)
      PROVE  up' = up /\ edits' = edits
  BY <1>3 DEF TickPasses, TickFiredBefore, TickFires, TickFails, tickOthers
<1>4. CASE Reconcile \/ RecFails
  BY <1>4 DEF Reconcile, RecFails, RecBegin, RecSync, RecWritten, RecSends, RecDelivered, recOthers
<1>5. CASE Discussion
  BY <1>5 DEF Discussion, DiscussionOpens, DiscussionCreated, DiscussionWritten, discOthers
<1>6. CASE TimePasses \/ Start \/ Crash \/ \E i \in Id : Tasks(i)
  BY <1>6 DEF TimePasses, Start, Crash, Tasks, TaskRuns, TaskEnds, TaskResumes, taskOthers
<1> QED
  BY <1>0, <1>1, <1>2, <1>3, <1>4, <1>5, <1>6 DEF Next, Tick

LEMMA LoopInvStep == LoopInv /\ [Next]_vars => LoopInv'
<1>1. CASE LoopInv /\ Next
  <2>1. OneTaskInv' /\ Attempts' /\ resumes' \in 0..MaxResumes
    BY <1>1, TasksStep DEF LoopInv, Types
  <2>2. up' \in BOOLEAN /\ edits' \in Nat
    BY <1>1, UpStep
  <2>3. Types'
    BY <1>1, <2>1, <2>2, AutomationStep, FilesStep, TickStep, ManualStep, RecStep, DiscStep,
       SentStep DEF Types, TickType, ManualType, RecInv, RecType, DiscType
  <2> QED
    BY <1>1, <2>1, <2>3, FilesStep, TickStep, ManualStep, RecStep, DiscStep, LockStep
       DEF LoopInv, RecInv
<1>2. CASE LoopInv /\ UNCHANGED vars
  BY <1>2 DEF vars, files, tasks, loops, bounds, LoopInv, OneTaskInv, Types, Attempts, Files,
     TickRun, ManualRun, RecRun, DiscRun, Lock, Undone
<1> QED
  BY <1>1, <1>2

\* The invariant of the loops holds whatever users edit, files refuse and
\* crashes interrupt.
THEOREM LoopInvHolds == Spec => []LoopInv
BY LoopInvInit, LoopInvStep, PTL DEF Spec

\* The variables have their types: no number goes past its bound, the attempts
\* of a delivery included, which end at _MAX_DELIVERY_ATTEMPTS.
THEOREM SchedulerTypes == Spec => []TypeOK
<1>1. LoopInv => TypeOK
  <2> SUFFICES ASSUME LoopInv PROVE TypeOK
    OBVIOUS
  <2>1. tick \in [pc : {"idle", "scan", "enqueue"}, todo : SUBSET Job, now : 0..clock,
                  id : Id \cup {NoId}, seen : Automation, run : Run]
    BY DEF LoopInv, Types, TickRun, Instant
  <2>2. \A i \in Id : task[i].attempt \in 0..(MaxResumes + 1)
    BY LimitAssumption DEF LoopInv, OneTaskInv, TaskStates, Attempts, Types
  <2>3. task \in [Id -> [status : SettledStatus \cup {"none", "queued", "running"},
                         attempt : 0..(MaxResumes + 1)]]
    BY <2>2 DEF LoopInv, OneTaskInv, TaskStates
  <2> QED
    BY <2>1, <2>3 DEF LoopInv, OneTaskInv, Types, TypeOK, Instant, Attempt, RecPc
<1> QED
  BY <1>1, LoopInvHolds, PTL

\* A message goes out only for an end that the record of the run does not call
\* delivered, whatever the passes of the reconciler wrote back.
THEOREM SentOnceKnowingly == Spec => NothingSentTwiceKnowingly
<1>1. ASSUME LoopInv, Next, sent' # sent, NEW i \in Id, NEW k \in 0..(MaxResumes + 1),
             sent'[i][k] > sent[i][k]
      PROVE  ~(run[i].ended = k /\ run[i].done)
  <2>1. rec.id = i
    <3>1. sent[i][k] \in Nat /\ sent \in [Id -> [Attempt -> Nat]]
      BY <1>1 DEF LoopInv, Types, Attempt
    <3>2. sent'[i] # sent[i]
      BY <1>1, <3>1
    <3> QED
      BY <1>1, <3>1, <3>2, SendsOne
  <2> QED
    BY <1>1, <2>1, SendsOne
<1>2. ASSUME LoopInv, Next, sent' = sent, NEW i \in Id, NEW k \in 0..(MaxResumes + 1)
      PROVE  ~(sent'[i][k] > sent[i][k])
  <2>1. sent[i][k] \in Nat
    BY <1>2, ZenonT(40) DEF LoopInv, Types, Attempt
  <2> QED
    BY <1>2, <2>1
<1>3. LoopInv /\ [Next]_vars =>
        [\A i \in Id, k \in 0..(MaxResumes + 1) :
           sent'[i][k] > sent[i][k] => ~(run[i].ended = k /\ run[i].done)]_vars
  BY <1>1, <1>2
<1> QED
  BY <1>3, LoopInvHolds, PTL DEF Spec, NothingSentTwiceKnowingly

-----------------------------------------------------------------------------
(* The edits of users, while no discussion writes a stale record back.     *)

\* The slot a job is armed for is settled: it has its task, or the record of
\* why there is none, or a recurring job missed it.
SlotOver(j) ==
  LET a == automation[j]  i == <<j, a.next>> IN
  \/ created'[i] = 1 \/ run'[i].status = "failed"
  \/ a.cron /\ clock - a.next > Grace

Quiet == discussions = 0 /\ disc = DiscIdle

LEMMA QuietStep ==
  ASSUME MaxDiscussions = 0, Quiet, [Next]_vars
  PROVE  Quiet'
<1> USE DEF Quiet
<1>1. CASE Discussion
  BY <1>1 DEF Discussion, DiscussionOpens, DiscussionCreated, DiscussionWritten, DiscIdle
<1>2. CASE ~Discussion /\ Next
  <2>1. disc' = DiscIdle
    BY <1>2, DiscKept DEF Crash
  <2>2. ASSUME NEW j \in Job, Request(j) PROVE discussions' = discussions
    BY <2>2 DEF Request, CreateAutomation, PauseAutomation, ResumeAutomation, SetRunAt,
       SetSchedule, Rewrite, DeleteAutomation, RunNow, requestOthers
  <2>3. CASE RunNowEnqueued \/ TickBegin \/ TickEnqueued
    BY <2>3 DEF RunNowEnqueued, TickBegin, TickEnqueued, tickOthers, bounds
  <2>4. ASSUME NEW j \in Job,
               TickPasses(j) \/ TickFiredBefore(j) \/ TickFires(j) \/ TickFails(j)
        PROVE  discussions' = discussions
    BY <2>4 DEF TickPasses, TickFiredBefore, TickFires, TickFails, tickOthers
  <2>5. CASE Reconcile \/ RecFails
    BY <2>5 DEF Reconcile, RecFails, RecBegin, RecSync, RecWritten, RecSends, RecDelivered,
       recOthers
  <2>6. CASE TimePasses \/ Start \/ Crash \/ \E i \in Id : Tasks(i)
    <3>1. discussions' = discussions
      BY <2>6 DEF TimePasses, Start, Crash, Tasks, TaskRuns, TaskEnds, TaskResumes, taskOthers,
         bounds
    <3> QED
      BY <2>1, <3>1
  <2> QED
    BY <1>2, <2>1, <2>2, <2>3, <2>4, <2>5, <2>6 DEF Next, Tick
<1>3. CASE UNCHANGED vars
  BY <1>3 DEF vars, loops, bounds
<1> QED
  BY <1>1, <1>2, <1>3

\* A job changes its state or its time without an edit only from active, and
\* leaves a slot only when it is over.
LEMMA WhoMoves ==
  ASSUME LoopInv, Quiet, Next, edits' = edits, NEW j \in Job
  PROVE  \/ /\ automation'[j].status = automation[j].status
            /\ automation'[j].next = automation[j].next
         \/ automation[j].status = "new"
         \/ automation[j].status = "active" /\ (automation[j].next = 0 \/ SlotOver(j))
<1> DEFINE Same == /\ automation'[j].status = automation[j].status
                   /\ automation'[j].next = automation[j].next
<1>0. Types /\ TickRun /\ automation \in [Job -> Automation]
  BY DEF LoopInv, Types
<1>1. ASSUME NEW k \in Job, Request(k)
      PROVE  Same \/ automation[j].status = "new"
  <2>1. CASE k # j \/ automation' = automation
    BY <1>0, <1>1, <2>1, RequestSaves
  <2>2. CASE CreateAutomation(k) /\ k = j
    BY <2>2 DEF CreateAutomation
  <2>3. ~Edit
    BY DEF Edit, LoopInv, Types
  <2> QED
    BY <1>1, <2>1, <2>2, <2>3 DEF Request, PauseAutomation, ResumeAutomation, SetRunAt,
       SetSchedule, Rewrite, DeleteAutomation, RunNow
<1>2. CASE RunNowEnqueued
  <2> DEFINE k == JobOf(manual.id)
  <2>1. automation' = automation \/ (k \in Job /\ Saved(k, automation[k]))
    BY <1>2, IdParts DEF RunNowEnqueued, LoopInv, ManualRun, files
  <2> QED
    BY <1>0, <2>1, SavedIsAutomation
<1>3. CASE TickEnqueued
  <2> DEFINE i == tick.id  k == JobOf(i)
  <2>1. i \in Id /\ i = <<k, tick.seen.next>> /\ k \in Job /\ tick.seen \in Automation
    BY <1>0, <1>3, IdParts DEF TickEnqueued, TickRun, Types, Id, JobOf
  <2>2. Intent(tick.run) /\ tick.run \in Run /\ Sound(tick.run, created[i])
    BY <1>0, <1>3 DEF TickEnqueued, TickRun, Types
  <2>3. CASE automation' = automation
    BY <2>3
  <2>4. CASE automation' # automation
    <3>1. PICK new \in Dispatched(tick.run) :
            Dispatch(i, new) /\ SaveRunAndPrune(i, new) /\ Rearm(k, tick.seen)
      BY <1>3, <2>4 DEF TickEnqueued, files
    <3>2. Unmoved(k, tick.seen)
      BY <2>4, <3>1 DEF Rearm
    <3>3. new \in Run /\ (~new.linked => new.status = "failed")
      BY <2>2, DispatchedSound
    <3>4. run'[i] = new
      BY <1>0, <2>1, <3>1, <3>3, SaveEffect DEF Types
    <3>5. new.linked => created'[i] = 1
      BY <2>1, <3>1, DispatchCounts DEF LoopInv
    <3>6. CASE k = j
      BY <2>1, <3>2, <3>3, <3>4, <3>5, <3>6 DEF Unmoved, SlotOver
    <3>7. CASE k # j
      BY <1>0, <2>1, <3>1, <3>7, RearmType
    <3> QED
      BY <3>6, <3>7
  <2> QED
    BY <2>3, <2>4
<1>4. ASSUME NEW k \in Job, TickPasses(k)
      PROVE  Same \/ (automation[j].status = "active" /\ (automation[j].next = 0 \/ SlotOver(j)))
  <2> DEFINE a == automation[k]
  <2>1. CASE automation' = automation
    BY <2>1
  <2>2. ASSUME automation' # automation, k # j PROVE Same
    <3>1. a \in Automation /\ NextSlot \in 0..(MaxTime + 1) /\ Upcoming(a) \in 0..(MaxTime + 1)
      BY <1>0, LimitAssumption DEF Types, NextSlot, Instant, Upcoming, TickRun
    <3>2. /\ [a EXCEPT !.next = NextSlot] \in Automation
          /\ [a EXCEPT !.next = Upcoming(a)] \in Automation
      BY <3>1 DEF Automation
    <3>3. Saved(k, [a EXCEPT !.next = NextSlot]) \/ Saved(k, [a EXCEPT !.next = Upcoming(a)])
      BY <1>4, <2>2 DEF TickPasses
    <3> QED
      BY <1>0, <2>2, <3>2, <3>3, SavedIsAutomation
  <2>3. ASSUME automation' # automation, k = j
        PROVE  automation[j].status = "active" /\ (automation[j].next = 0 \/ SlotOver(j))
    <3>1. CASE a.next # 0
      <4>1. a.status = "active" /\ a.next \in 1..tick.now /\ Missed(a)
        BY <1>4, <2>3, <3>1 DEF TickPasses
      <4>2. a.cron /\ clock - a.next > Grace
        BY <1>0, <4>1, LimitAssumption DEF Missed, TickRun, Types, Instant
      <4> QED
        BY <2>3, <4>1, <4>2 DEF SlotOver
    <3>2. CASE a.next = 0
      BY <1>4, <2>3, <3>2 DEF TickPasses
    <3> QED
      BY <3>1, <3>2
  <2> QED
    BY <2>1, <2>2, <2>3
<1>5. ASSUME NEW k \in Job, TickFiredBefore(k)
      PROVE  Same \/ (automation[j].status = "active" /\ SlotOver(j))
  <2>1. CASE k # j \/ automation' = automation
    BY <1>0, <1>5, <2>1, RearmType DEF TickFiredBefore
  <2>2. CASE k = j
    <3> DEFINE i == <<j, automation[j].next>>
    <3>1. /\ automation[j].status = "active" /\ HasRun(run[i])
          /\ automation[j].next \in 1..tick.now /\ tick.now \in 0..MaxTime
          /\ run' = run /\ created' = created
      BY <1>0, <1>5, <2>2 DEF TickFiredBefore, Due, tasks, Types, Instant
    <3>2. i \in Id
      BY <3>1, LimitAssumption DEF Id
    <3>3. Sound(run[i], created[i]) /\ run[i] \in Run
      BY <1>0, <3>2 DEF LoopInv, Files, Types
    <3>4. created[i] = 1 \/ run[i].status = "failed"
      BY <3>1, <3>3 DEF Sound, HasRun, Intent
    <3> QED
      BY <3>1, <3>4 DEF SlotOver
  <2> QED
    BY <2>1, <2>2
<1>6. ASSUME NEW i \in Id, RecSync(i) PROVE Same
  <2>1. automation' = automation \/ \E r, c : AfterWrite(i, r, c)
    BY <1>6 DEF RecSync, files
  <2> QED
    BY <1>0, <2>1, AfterWriteSaves
<1>7. CASE RecWritten
  BY <1>0, <1>7, RecWrittenWrites, AfterWriteSaves
<1>8. ~DiscussionCreated
  BY DEF DiscussionCreated, Quiet, DiscIdle
<1> QED
  BY <1>1, <1>2, <1>3, <1>4, <1>5, <1>6, <1>7, <1>8, AutomationKept

\* A deleted job gets no run.
LEMMA PastMoves ==
  ASSUME LoopInv, NEW i \in Id, RecPast(i)
  PROVE  rec'.pc \in {"idle", "list"} /\ rec'.runs[i] = NoRun
BY DEF RecPast, RecIdle, LoopInv, Types

LEMMA GoneStaysGone ==
  ASSUME LoopInv, Quiet, Next, edits' = edits, rec' = rec, NEW i \in Id,
         automation[JobOf(i)].status = "gone", run[i] = NoRun
  PROVE  run'[i] = NoRun
<1>0. run \in [Id -> Run]
  BY DEF LoopInv, Types
<1>1. ~Exists(JobOf(i))
  BY DEF Exists, AutomationStatus
<1>2. CASE RunNowEnqueued
  <2>1. manual.id \in Id /\ manual.run \in Run /\ Intent(manual.run)
        /\ Sound(manual.run, created[manual.id])
    BY <1>2 DEF RunNowEnqueued, LoopInv, ManualRun, Types
  <2>2. \/ run' = run
        \/ /\ Exists(JobOf(manual.id))
           /\ \E new \in Dispatched(manual.run) : SaveRunAndPrune(manual.id, new)
    BY <1>2 DEF RunNowEnqueued, files
  <2>3. \A new \in Dispatched(manual.run) : new \in Run
    BY <2>1, DispatchedSound
  <2> QED
    BY <1>0, <1>1, <2>1, <2>2, <2>3, SaveEffect
<1>3. CASE TickEnqueued
  <2>1. tick.id \in Id /\ tick.run \in Run /\ Intent(tick.run) /\ Sound(tick.run, created[tick.id])
    BY <1>3 DEF TickEnqueued, LoopInv, TickRun, Types
  <2>2. \/ run' = run
        \/ /\ Exists(JobOf(tick.id))
           /\ \E new \in Dispatched(tick.run) : SaveRunAndPrune(tick.id, new)
    BY <1>3 DEF TickEnqueued, files
  <2>3. \A new \in Dispatched(tick.run) : new \in Run
    BY <2>1, DispatchedSound
  <2> QED
    BY <1>0, <1>1, <2>1, <2>2, <2>3, SaveEffect
<1>4. ASSUME NEW j \in Job, DeleteAutomation(j) PROVE run'[i] = NoRun
  BY <1>4 DEF DeleteAutomation
<1>5. ASSUME NEW j \in Job, TickFires(j) PROVE run'[i] = NoRun
  <2>1. JobOf(<<j, automation[j].next>>) = j /\ Exists(j)
    BY <1>5 DEF TickFires, Due, JobOf, Exists, AutomationStatus
  <2>2. <<j, automation[j].next>> # i
    BY <1>1, <2>1
  <2> QED
    BY <1>0, <1>5, <2>2 DEF TickFires, SaveRun
<1>6. ASSUME NEW k \in Id, RecSync(k) PROVE FALSE
  <2>1. rec.pc = "list" /\ rec.runs[k] # NoRun
    BY <1>6 DEF RecSync
  <2>2. ~RecPast(k)
    BY <2>1, PastMoves
  <2>3. \E pc \in Awaited : \E r : Awaits(pc, k, r)
    BY <1>6, <2>2 DEF RecSync, AfterWrite, Awaited
  <2> QED
    BY <2>1, <2>3 DEF Awaits, Awaited, LoopInv, Types
<1>7. CASE RecWritten
  <2>1. rec.id \in Id /\ rec.pc \in {"write", "retry"}
    BY <1>7, RecWrittenWrites DEF RecWritten
  <2>2. RecPast(rec.id) \/ \E r : Awaits("deliver", rec.id, r)
    BY <1>7 DEF RecWritten, AfterWrite
  <2> QED
    BY <2>1, <2>2, PastMoves DEF Awaits, LoopInv, Types
<1>8. CASE RecDelivered
  <2>1. rec.id \in Id /\ RecPast(rec.id) /\ rec.pc \in Awaited
    BY <1>8, RecDeliveredWrites DEF RecDelivered, Awaited
  <2> QED
    BY <2>1, PastMoves DEF Awaited
<1>9. CASE Discussion
  <2>1. CASE DiscussionCreated \/ DiscussionWritten
    BY <2>1 DEF DiscussionCreated, DiscussionWritten, Quiet, DiscIdle
  <2>2. ASSUME NEW k \in Id, DiscussionOpens(k) PROVE run'[i] = NoRun
    <3>1. JobOf(k) # JobOf(i)
      BY <1>1, <2>2 DEF DiscussionOpens
    <3> QED
      BY <1>0, <2>2, <3>1 DEF DiscussionOpens, SaveRun
  <2> QED
    BY <1>9, <2>1, <2>2 DEF Discussion
<1>10. CASE UNCHANGED run
  BY <1>10
<1> QED
  BY <1>2, <1>3, <1>4, <1>5, <1>6, <1>7, <1>8, <1>9, <1>10, RunKept

LEMMA QuietInv ==
  ASSUME MaxDiscussions = 0
  PROVE  Spec => [](LoopInv /\ Quiet)
<1>1. Init => Quiet
  BY DEF Init, Quiet
<1>2. Quiet /\ [Next]_vars => Quiet'
  BY QuietStep
<1> QED
  BY <1>1, <1>2, LoopInvHolds, PTL DEF Spec

\* Who paused or deleted a job has the last word against every tick, manual run
\* and pass of the reconciler that was awaiting something; only a discussion
\* writes a record back as it was read.
THEOREM EditsHaveTheLastWord ==
  ASSUME MaxDiscussions = 0
  PROVE  Spec => EditsWin
<1>1. LoopInv /\ Quiet /\ [Next]_vars =>
        [edits' = edits => \A j \in Job :
           /\ automation[j].status \in {"paused", "completed", "gone"} =>
                /\ automation'[j].status = automation[j].status
                /\ automation'[j].next = automation[j].next
           /\ automation[j].status = "gone" /\ rec' = rec =>
                \A i \in Id : JobOf(i) = j /\ run[i] = NoRun => run'[i] = NoRun]_vars
  BY WhoMoves, GoneStaysGone
<1> QED
  BY <1>1, QuietInv, PTL DEF Spec, EditsWin

\* No slot of a job is lost between the intent, the task and the next time,
\* whatever crashes, faults and edits come between.
THEOREM SlotsAreNotLost ==
  ASSUME MaxDiscussions = 0
  PROVE  Spec => NoSlotLost
<1>1. LoopInv /\ Quiet /\ [Next]_vars =>
        [edits' = edits => \A j \in Job :
           LET a == automation[j]  slot == a.next IN
           a.status = "active" /\ slot # 0 /\ automation'[j].next # slot =>
             \/ created'[<<j, slot>>] = 1 \/ run'[<<j, slot>>].status = "failed"
             \/ a.cron /\ clock - slot > Grace]_vars
  BY WhoMoves DEF SlotOver
<1> QED
  BY <1>1, QuietInv, PTL DEF Spec, NoSlotLost

-----------------------------------------------------------------------------
(* Copies of runs that are pruned or deleted while somebody holds them.    *)
(*                                                                         *)
(* A run that is pruned although a discussion, or the reconciler after a   *)
(* resume of its task, holds a copy is written again; if its slot was      *)
(* armed again by an edit, the copy replaces the run of the second firing. *)
(* What follows excludes that: nothing is pruned, or the job has neither   *)
(* discussions nor resumed tasks.                                          *)

\* Nothing is pruned, or nothing that was pruned is written again.
Calm == MaxDiscussions = 0 /\ MaxResumes = 0
Undisturbed == Keep > MaxTime \/ Calm

\* A deleted job comes back only through a discussion that was reading it.
Gone(j) == automation[j].status = "gone"
Creating(j) == disc.pc = "create" /\ JobOf(disc.id) = j
Lost(j) == Gone(j) /\ ~Creating(j)

\* A copy r of run i is the file, or its job is deleted; or it will not be written.
Held(i, r) == run[i] = r \/ (Lost(JobOf(i)) /\ (run[i].linked => r.linked))
Inert(i, r) ==
  /\ Calm /\ Prunable(i, r) /\ r.linked
  /\ task[i].status = r.status /\ task[i].attempt = r.ended

TickHolds ==
  tick.pc = "enqueue" =>
    /\ tick.id[2] # 0
    /\ disc.pc # "idle" => tick.id # disc.id
    /\ \/ run[tick.id] = tick.run \/ Lost(JobOf(tick.id))
       \/ run[tick.id] = NoRun /\ MaxDiscussions # 0
ManualHolds ==
  manual # ManualIdle =>
    /\ manual.id[2] = 0 /\ created[manual.id] = 0
    /\ disc.pc # "idle" => manual.id # disc.id
    /\ run[manual.id] = NoRun \/ Lost(JobOf(manual.id))
CopyHolds(i) ==
  rec.runs[i] # NoRun =>
    /\ Concern(i, rec.runs[i])
    /\ \/ rec.pc # "list" /\ i = rec.id
       \/ Held(i, rec.runs[i]) \/ Inert(i, rec.runs[i])
Pending(i, r) == Writable(r) \/ Deliverable(i, r)
RecHolds ==
  /\ \A i \in Id : CopyHolds(i)
  /\ rec.pc \in Awaited => Held(rec.id, rec.run) /\ Pending(rec.id, rec.run)
DiscHolds ==
  disc.pc # "idle" =>
    run[disc.id] = disc.run \/ (run[disc.id] = NoRun /\ Gone(JobOf(disc.id)))
MatchedAt(i) ==
  run[i].linked /\ run[i].status \in {"failed", "canceled"} =>
    Lost(JobOf(i)) \/ (task[i].status = run[i].status /\ task[i].attempt = run[i].ended)
Matched == Calm => \A i \in Id : MatchedAt(i)
Hushed == MaxDiscussions = 0 => Quiet

HoldInv == TickHolds /\ ManualHolds /\ RecHolds /\ DiscHolds /\ Matched /\ Hushed
Holds == LoopInv /\ HoldInv

-----------------------------------------------------------------------------
(* What is pruned.                                                         *)

\* A job has at most one run for each instant and one run by hand.
LEMMA RunsOfJob ==
  ASSUME NEW j \in Job
  PROVE  LET all == {k \in Id : JobOf(k) = j} IN
         IsFiniteSet(all) /\ Cardinality(all) <= MaxTime + 1
<1> DEFINE all == {k \in Id : JobOf(k) = j}
           at == [s \in 0..MaxTime |-> <<j, s>>]
<1>1. MaxTime \in Nat /\ IsFiniteSet(0..MaxTime) /\ Cardinality(0..MaxTime) = MaxTime + 1
  <2>1. MaxTime \in Nat /\ 0 \in Int /\ MaxTime \in Int /\ 0 <= MaxTime
    BY LimitAssumption
  <2>2. IsFiniteSet(0..MaxTime) /\ Cardinality(0..MaxTime) = MaxTime - 0 + 1
    BY <2>1, FS_Interval
  <2> QED
    BY <2>1, <2>2
<1>2. at \in Surjection(0..MaxTime, all)
  <2>1. \A k \in all : \E s \in 0..MaxTime : at[s] = k
    BY DEF Id, JobOf
  <2>2. \A s \in 0..MaxTime : at[s] \in all
    BY DEF Id, JobOf
  <2> QED
    BY <2>1, <2>2 DEF Surjection
<1> HIDE DEF all, at
<1>3. IsFiniteSet(all) /\ Cardinality(all) <= Cardinality(0..MaxTime)
  BY <1>1, <1>2, FS_Surjection
<1> QED
  BY <1>1, <1>3 DEF all

LEMMA PruneEffect ==
  ASSUME Undisturbed, run \in [Id -> Run], NEW i \in Id, NEW r \in Run, SaveRunAndPrune(i, r)
  PROVE  /\ run'[i] = r
         /\ \A k \in Id \ {i} :
              \/ run'[k] = run[k]
              \/ run'[k] = NoRun /\ Calm /\ Prunable(k, run[k]) /\ JobOf(k) = JobOf(i)
<1> DEFINE all == {k \in Id : JobOf(k) = JobOf(i)}
           others == {k \in Id : JobOf(k) = JobOf(i) /\ k # i /\ run[k] # NoRun}
<1>1. PICK S \in SUBSET {k \in others : Prunable(k, run[k])} :
        /\ S = {} \/ Cardinality(others \ S) + 1 >= Keep
        /\ run' = [k \in Id |-> IF k = i THEN r ELSE IF k \in S THEN NoRun ELSE run[k]]
  BY DEF SaveRunAndPrune
<1>2. ASSUME Keep > MaxTime PROVE S = {}
  <2>1. IsFiniteSet(all) /\ Cardinality(all) <= MaxTime + 1 /\ i \in all
    BY RunsOfJob, IdParts
  <2>2. ASSUME NEW k \in S PROVE FALSE
    <3>1. k \in all \ {i} /\ others \ S \subseteq (all \ {i}) \ {k}
      BY <2>2, <1>1
    <3>2. IsFiniteSet(all \ {i}) /\ Cardinality(all \ {i}) = Cardinality(all) - 1
      BY <2>1, FS_RemoveElement
    <3>3. /\ IsFiniteSet((all \ {i}) \ {k})
          /\ Cardinality((all \ {i}) \ {k}) = Cardinality(all \ {i}) - 1
      BY <3>1, <3>2, FS_RemoveElement
    <3>4. /\ IsFiniteSet(others \ S)
          /\ Cardinality(others \ S) <= Cardinality((all \ {i}) \ {k})
      BY <3>1, <3>3, FS_Subset
    <3>5. /\ Cardinality(all) \in Nat /\ Cardinality(others \ S) \in Nat
          /\ Keep \in Nat /\ MaxTime \in Nat
      BY <2>1, <3>4, FS_CardinalityType, LimitAssumption
    <3>6. Cardinality(others \ S) + 1 >= Keep
      BY <1>1, <2>2
    <3> HIDE DEF all, others
    <3> QED
      BY <1>2, <2>1, <3>2, <3>3, <3>4, <3>5, <3>6
  <2> QED
    BY <2>2
<1> QED
  BY <1>1, <1>2 DEF Undisturbed

-----------------------------------------------------------------------------
(* What is gone, what is over.                                             *)

LEMMA GoneRemains ==
  ASSUME LoopInv, Next, ~DiscussionCreated, NEW j \in Job, Gone(j)
  PROVE  Gone(j)'
<1>0. /\ Types /\ TickRun /\ automation \in [Job -> Automation]
      /\ ~Exists(j) /\ automation[j].status = "gone"
  BY DEF LoopInv, Types, Gone, Exists, AutomationStatus
<1>1. ASSUME NEW k \in Job, Request(k)
      PROVE  Gone(j)'
  <2>1. CASE k # j \/ automation' = automation
    BY <1>0, <1>1, <2>1, RequestSaves DEF Gone
  <2>2. CASE k = j /\ automation' # automation
    BY <1>0, <1>1, <2>2 DEF Request, CreateAutomation, PauseAutomation, ResumeAutomation,
       SetRunAt, SetSchedule, Rewrite, DeleteAutomation, RunNow
  <2> QED
    BY <2>1, <2>2
<1>2. CASE RunNowEnqueued
  <2> DEFINE k == JobOf(manual.id)
  <2>1. automation' = automation \/ (Exists(k) /\ Saved(k, automation[k]))
    BY <1>2 DEF RunNowEnqueued, files
  <2>2. k \in Job
    BY <1>2, IdParts DEF RunNowEnqueued, LoopInv, ManualRun
  <2> QED
    BY <1>0, <2>1, <2>2, SavedIsAutomation DEF Gone
<1>3. CASE TickEnqueued
  <2> DEFINE k == JobOf(tick.id)
  <2>1. automation' = automation \/ (Exists(k) /\ Rearm(k, tick.seen))
    BY <1>3 DEF TickEnqueued, files
  <2>2. k \in Job /\ tick.seen \in Automation
    BY <1>0, <1>3, IdParts DEF TickEnqueued, TickRun, Types
  <2> QED
    BY <1>0, <2>1, <2>2, RearmType DEF Gone
<1>4. ASSUME NEW k \in Job, TickPasses(k) \/ TickFiredBefore(k), automation' # automation
      PROVE  Gone(j)'
  <2>1. automation[k].status = "active"
    BY <1>4 DEF TickPasses, TickFiredBefore, Due
  <2>2. \E a : Saved(k, a)
    BY <1>4 DEF TickPasses, TickFiredBefore, Rearm
  <2> QED
    BY <1>0, <2>1, <2>2 DEF Saved, Gone
<1>5. ASSUME NEW i \in Id, RecSync(i)
      PROVE  Gone(j)'
  <2>1. automation' = automation \/ \E r, c : AfterWrite(i, r, c)
    BY <1>5 DEF RecSync, files
  <2> QED
    BY <1>0, <2>1, AfterWriteSaves DEF Gone
<1>6. CASE RecWritten
  BY <1>0, <1>6, RecWrittenWrites, AfterWriteSaves DEF Gone
<1>7. CASE automation' = automation
  BY <1>0, <1>7 DEF Gone
<1> QED
  BY <1>1, <1>2, <1>3, <1>4, <1>5, <1>6, <1>7, AutomationKept

LEMMA LostRemains ==
  ASSUME LoopInv, Next, NEW j \in Job, Lost(j)
  PROVE  Lost(j)'
<1>0. Gone(j) /\ ~Creating(j)
  BY DEF Lost
<1>1. CASE DiscussionCreated
  <2>1. /\ disc.pc = "create" /\ disc.id \in Id /\ disc'.pc = "write"
        /\ automation' = [automation EXCEPT ![JobOf(disc.id)] = [disc.seen EXCEPT !.chat = TRUE]]
    BY <1>1 DEF DiscussionCreated, LoopInv, DiscRun
  <2>2. JobOf(disc.id) # j /\ automation'[j] = automation[j]
    BY <1>0, <2>1, IdParts DEF Creating, LoopInv, Types
  <2> QED
    BY <1>0, <2>1, <2>2 DEF Lost, Gone, Creating
<1>2. CASE ~DiscussionCreated
  <2>1. Gone(j)'
    BY <1>0, <1>2, GoneRemains
  <2>2. ~Creating(j)'
    <3>1. CASE disc' = disc
      BY <1>0, <3>1 DEF Creating
    <3>2. CASE Crash \/ DiscussionWritten
      BY <3>2 DEF Crash, DiscussionWritten, DiscIdle, Creating
    <3>3. ASSUME NEW i \in Id, DiscussionOpens(i)
          PROVE  ~Creating(j)'
      <4>1. Exists(JobOf(i)) /\ disc'.id = i
        BY <3>3 DEF DiscussionOpens
      <4> QED
        BY <1>0, <4>1 DEF Creating, Gone, Exists, AutomationStatus
    <3> QED
      BY <1>2, <3>1, <3>2, <3>3, DiscKept DEF Discussion
  <2> QED
    BY <2>1, <2>2 DEF Lost
<1> QED
  BY <1>1, <1>2

\* Without resumes, what has ended has ended.
LEMMA EndedRemains ==
  ASSUME LoopInv, Next, MaxResumes = 0, NEW i \in Id, task[i].status \in SettledStatus
  PROVE  task'[i] = task[i]
<1>0. /\ OneTaskInv /\ task[i] # NoTask /\ resumes = 0
      /\ task[i].status \notin {"queued", "running"}
  BY DEF LoopInv, Types, NoTask, SettledStatus
<1>1. CASE UNCHANGED <<task, created, resumes>>
  BY <1>1
<1>2. ASSUME NEW k \in Id, NEW new, Dispatch(k, new)
      PROVE  task'[i] = task[i]
  <2>1. task' = task \/ task' = [task EXCEPT ![k] = Submitted(@)]
    BY <1>2 DEF Dispatch, tasks
  <2>2. Submitted(task[i]) = task[i]
    BY <1>0 DEF Submitted
  <2> QED
    BY <1>0, <2>1, <2>2 DEF OneTaskInv
<1>3. CASE RunNowEnqueued
  BY <1>2, <1>3 DEF RunNowEnqueued, LoopInv, ManualRun
<1>4. CASE TickEnqueued
  BY <1>2, <1>4 DEF TickEnqueued, LoopInv, TickRun
<1>5. CASE Crash
  <2>1. PICK S \in SUBSET {k \in {tick.id, manual.id} \cap Id : task[k] = NoTask} :
          task' = [k \in Id |->
                    IF k \in S THEN Submitted(task[k])
                    ELSE IF task[k].status = "running" THEN [task[k] EXCEPT !.status = "queued"]
                    ELSE task[k]]
    BY <1>5 DEF Crash
  <2> QED
    BY <1>0, <2>1
<1>6. ASSUME NEW k \in Id, Tasks(k)
      PROVE  task'[i] = task[i]
  BY <1>0, <1>6 DEF Tasks, TaskRuns, TaskEnds, TaskResumes, OneTaskInv
<1> QED
  BY <1>1, <1>3, <1>4, <1>5, <1>6, TasksKept

LEMMA InertRemains ==
  ASSUME LoopInv, Next, NEW i \in Id, NEW r, Inert(i, r)
  PROVE  Inert(i, r)'
<1>1. task[i].status \in SettledStatus /\ MaxResumes = 0
  BY DEF Inert, Prunable, Settled, Calm
<1>2. task'[i] = task[i]
  BY <1>1, EndedRemains
<1> QED
  BY <1>2 DEF Inert, Calm, Prunable, Settled

\* Where nothing changes the file, a copy is as good as it was.
LEMMA HeldRemains ==
  ASSUME LoopInv, Next, NEW i \in Id, NEW r, Held(i, r), run'[i] = run[i]
  PROVE  Held(i, r)'
BY LostRemains, IdParts DEF Held

\* Copies the reconciler works on.
LEMMA ConcernIsRun ==
  ASSUME NEW i \in Id, NEW r, Concern(i, r)
  PROVE  HasRun(r) /\ ~Intent(r) /\ r # NoRun
BY DEF Concern, HasRun, Intent, Writable, Deliverable, Settled, SettledStatus, NoRun

LEMMA PendingIsKept ==
  ASSUME NEW i \in Id, NEW r, Pending(i, r)
  PROVE  Concern(i, r) /\ Settled(r) /\ \A s : ~Inert(i, r)
BY DEF Pending, Concern, Writable, Deliverable, Settled, SettledStatus, Inert, Prunable

LEMMA NoDiscussion ==
  ASSUME Hushed, NEW c \in {0}, MaxDiscussions = c, [Next]_vars
  PROVE  disc = DiscIdle /\ disc.pc = "idle" /\ Hushed'
BY QuietStep DEF Hushed, Quiet, DiscIdle

-----------------------------------------------------------------------------
(* Who changes the file of a run.                                          *)

ByDeletion(k) == Exists(JobOf(k)) /\ Gone(JobOf(k))' /\ disc' = disc /\ run'[k] = NoRun
ByPruning(k) == Exists(JobOf(k)) /\ Calm /\ Prunable(k, run[k]) /\ run'[k] = NoRun
ByFiring(k) ==
  /\ tick.pc = "scan" /\ k[2] # 0 /\ automation[JobOf(k)].status = "active"
  /\ ~HasRun(run[k]) /\ Intent(run'[k])
ByTick(k) ==
  TickEnqueued /\ k = tick.id /\ Exists(JobOf(k)) /\ run'[k] \in Dispatched(tick.run)
ByManual(k) ==
  RunNowEnqueued /\ k = manual.id /\ Exists(JobOf(k)) /\ run'[k] \in Dispatched(manual.run)

\* From a copy r, with what the task says, or as it was.
From(k, r) ==
  /\ run'[k].linked = r.linked
  /\ \/ run'[k].status = r.status /\ run'[k].ended = r.ended
     \/ /\ run'[k].status = task[k].status
        /\ Settled(run'[k]) => run'[k].ended = task[k].attempt
ByReconciler(k) ==
  /\ Reconcile /\ rec.pc # "idle" /\ UNCHANGED task
  /\ \E r \in Run : Concern(k, r) /\ Held(k, r) /\ From(k, r)
ByDiscussion(k) ==
  /\ Discussion
  /\ \/ /\ SchedulerFree /\ discussions < MaxDiscussions
        /\ Exists(JobOf(k)) /\ Settled(run[k]) /\ run'[k].linked = run[k].linked
     \/ k = disc.id /\ disc.pc # "idle" /\ run'[k].linked = disc.run.linked

Effect(k) ==
  ByDeletion(k) \/ ByPruning(k) \/ ByFiring(k) \/ ByTick(k) \/ ByManual(k)
    \/ ByReconciler(k) \/ ByDiscussion(k)

LEMMA DispatchEffect ==
  ASSUME LoopInv, Undisturbed, NEW i \in Id, NEW r \in Run, Intent(r), Sound(r, created[i]),
         NEW new \in Dispatched(r), SaveRunAndPrune(i, new), Exists(JobOf(i)),
         NEW k \in Id, run'[k] # run[k]
  PROVE  (k = i /\ run'[k] = new) \/ ByPruning(k)
<1>1. new \in Run
  BY DispatchedSound
<1>2. run \in [Id -> Run]
  BY DEF LoopInv, Types
<1> QED
  BY <1>1, <1>2, PruneEffect DEF ByPruning

LEMMA RecSyncEffect ==
  ASSUME Holds, NEW i \in Id, RecSync(i), NEW k \in Id, run'[k] # run[k]
  PROVE  ByReconciler(k)
<1> DEFINE r == rec.runs[i]  t == Linked(i, r)  new == Synced(r, t)
<1>1. /\ rec.pc = "list" /\ r # NoRun /\ task' = task
      /\ r \in Run /\ Concern(i, r) /\ (Held(i, r) \/ Inert(i, r))
  BY DEF RecSync, recOthers, tasks, Holds, HoldInv, LoopInv, Types, RecHolds, CopyHolds
<1>2. SaveRun(i, new) /\ (~Settled(r) \/ Resumed(r, t)) /\ t # NoTask
  BY DEF RecSync, files, AfterWrite
<1>3. k = i /\ run'[k] = new
  BY <1>2 DEF SaveRun, Holds, LoopInv, Types
<1>4. r.linked /\ r.status # "completed" /\ t = task[i]
  BY <1>2 DEF Linked
<1>5. ~Inert(i, r)
  BY <1>2, <1>4 DEF Inert, Prunable, Resumed
<1>6. PICK base \in Run : /\ base.linked = r.linked
                          /\ base = IF Resumed(r, t) THEN Reset(r) ELSE r
  <2>1. Reset(r) \in Run /\ Reset(r).linked = r.linked
    <3>1. PICK note \in {"none", "due", "written"} :
            Reset(r) = [r EXCEPT !.ended = 0, !.done = FALSE, !.tries = 0, !.note = note]
      BY <1>1 DEF Run, Reset
    <3>2. 0 \in 0..MaxAttempts /\ 0 \in 0..(MaxResumes + 1)
      BY LimitAssumption
    <3> QED
      BY <1>1, <3>1, <3>2 DEF Run
  <2> QED
    BY <1>1, <2>1
<1>7. new = [base EXCEPT !.status = t.status,
                         !.ended = IF t.status \in SettledStatus THEN t.attempt ELSE base.ended]
  BY <1>6 DEF Synced, Run
<1>8. new.linked = r.linked /\ new.status = t.status /\ (Settled(new) => new.ended = t.attempt)
  BY <1>6, <1>7 DEF Run, Settled
<1> HIDE DEF new
<1> QED
  BY <1>1, <1>3, <1>4, <1>5, <1>8 DEF ByReconciler, From, Reconcile

LEMMA AwaitedEffect ==
  ASSUME Holds, RecWritten \/ RecDelivered, NEW k \in Id, run'[k] # run[k]
  PROVE  ByReconciler(k)
<1> DEFINE r == rec.run
<1>1. /\ rec.pc \in Awaited /\ rec.id \in Id /\ task' = task /\ run \in [Id -> Run]
      /\ r \in Run /\ Held(rec.id, r) /\ Concern(rec.id, r)
  BY PendingIsKept DEF RecWritten, RecDelivered, recOthers, tasks, Holds, HoldInv, LoopInv, Types,
     RecHolds, Awaited, RecRun
<1>2. ASSUME NEW new, SaveRun(rec.id, new), new.linked = r.linked,
             new.status = r.status, new.ended = r.ended
      PROVE  ByReconciler(k)
  <2>1. k = rec.id /\ run'[k] = new
    BY <1>1, <1>2 DEF SaveRun
  <2> QED
    BY <1>1, <1>2, <2>1 DEF ByReconciler, From, Awaited, Reconcile
<1>3. CASE RecWritten
  <2>1. PICK note : SaveRun(rec.id, [r EXCEPT !.note = note])
    BY <1>3 DEF RecWritten
  <2> QED
    BY <1>1, <1>2, <2>1 DEF Run
<1>4. CASE RecDelivered
  <2>1. PICK new :
          SaveRun(rec.id, new) /\ (new = [r EXCEPT !.done = TRUE] \/ new \in Undelivered(r))
    BY <1>4 DEF RecDelivered
  <2>2. new.linked = r.linked /\ new.status = r.status /\ new.ended = r.ended
    BY <1>1, <2>1 DEF Run, Undelivered
  <2> QED
    BY <1>2, <2>1, <2>2
<1> QED
  BY <1>3, <1>4

LEMMA RunEffect ==
  ASSUME Holds, Undisturbed, Next, NEW k \in Id, run'[k] # run[k]
  PROVE  Effect(k)
<1>0. LoopInv /\ run \in [Id -> Run]
  BY DEF Holds, LoopInv, Types
<1>1. CASE RunNowEnqueued
  <2>1. PICK new \in Dispatched(manual.run) :
          Dispatch(manual.id, new) /\ SaveRunAndPrune(manual.id, new) /\ Exists(JobOf(manual.id))
    BY <1>1 DEF RunNowEnqueued, files
  <2>2. /\ manual.id \in Id /\ manual.run \in Run /\ Intent(manual.run)
        /\ Sound(manual.run, created[manual.id])
    BY <1>0, <1>1 DEF RunNowEnqueued, LoopInv, ManualRun, Types
  <2> QED
    BY <1>0, <1>1, <2>1, <2>2, DispatchEffect DEF Effect, ByManual
<1>2. CASE TickEnqueued
  <2>1. PICK new \in Dispatched(tick.run) :
          Dispatch(tick.id, new) /\ SaveRunAndPrune(tick.id, new) /\ Exists(JobOf(tick.id))
    BY <1>2 DEF TickEnqueued, files
  <2>2. /\ tick.id \in Id /\ tick.run \in Run /\ Intent(tick.run)
        /\ Sound(tick.run, created[tick.id])
    BY <1>0, <1>2 DEF TickEnqueued, LoopInv, TickRun, Types
  <2> QED
    BY <1>0, <1>2, <2>1, <2>2, DispatchEffect DEF Effect, ByTick
<1>3. ASSUME NEW j \in Job, DeleteAutomation(j) PROVE ByDeletion(k)
  <2>1. JobOf(k) = j /\ run'[k] = NoRun /\ disc' = disc /\ Exists(j)
    BY <1>0, <1>3 DEF DeleteAutomation, requestOthers, loops
  <2>2. automation'[j].status = "gone"
    BY <1>0, <1>3 DEF DeleteAutomation, LoopInv, Types, Deleted, NoAutomation
  <2> QED
    BY <2>1, <2>2 DEF ByDeletion, Gone
<1>4. ASSUME NEW j \in Job, TickFires(j) PROVE ByFiring(k)
  <2> DEFINE i == <<j, automation[j].next>>
             r == IF run[i] = NoRun THEN NewRun(j) ELSE run[i]
  <2>1. /\ automation[j].next \in 1..tick.now /\ tick.now \in 0..MaxTime /\ ~HasRun(run[i])
        /\ automation[j].status = "active" /\ tick.pc = "scan" /\ SaveRun(i, r)
    BY <1>0, <1>4 DEF TickFires, Due, LoopInv, Types, Instant
  <2>2. i \in Id /\ i[2] # 0 /\ JobOf(i) = j
    BY <2>1, LimitAssumption DEF Id, JobOf
  <2>3. k = i /\ run'[k] = r
    BY <1>0, <2>1, <2>2 DEF SaveRun
  <2>4. Intent(r)
    BY <2>1, NewRunSound DEF HasRun
  <2> HIDE DEF r
  <2> QED
    BY <2>1, <2>2, <2>3, <2>4 DEF ByFiring
<1>5. ASSUME NEW i \in Id, DiscussionOpens(i) PROVE ByDiscussion(k)
  <2>1. k = i /\ run'[k] = Discussed(run[k]) /\ SchedulerFree /\ Settled(run[k])
        /\ Exists(JobOf(k)) /\ discussions < MaxDiscussions
    BY <1>0, <1>5 DEF DiscussionOpens, SaveRun
  <2>2. Discussed(run[k]).linked = run[k].linked
    BY <1>0 DEF Discussed, Run
  <2> QED
    BY <1>5, <2>1, <2>2 DEF ByDiscussion, Discussion
<1>6. CASE DiscussionCreated \/ DiscussionWritten
  <2>1. PICK new : SaveRun(disc.id, new) /\ \E note : new = [disc.run EXCEPT !.note = note]
    BY <1>6 DEF DiscussionCreated, DiscussionWritten
  <2>2. new.linked = disc.run.linked
    BY <1>0, <2>1 DEF LoopInv, Types, Run
  <2>3. k = disc.id /\ run'[k] = new /\ disc.pc # "idle"
    BY <1>0, <1>6, <2>1 DEF SaveRun, DiscussionCreated, DiscussionWritten
  <2> QED
    BY <1>6, <2>2, <2>3 DEF Effect, ByDiscussion, Discussion
<1> QED
  BY <1>1, <1>2, <1>3, <1>4, <1>5, <1>6, RecSyncEffect, AwaitedEffect, RunKept
     DEF Effect, Discussion

-----------------------------------------------------------------------------
(* The copies stay as good as they were.                                   *)

LEMMA EndIsKept ==
  ASSUME Holds, Undisturbed, Next, Calm
  PROVE  Matched'
<1>0. MaxResumes = 0 /\ MaxDiscussions = 0 /\ LoopInv /\ Matched
  BY DEF Calm, Holds, HoldInv
<1>1. SUFFICES ASSUME NEW i \in Id, run'[i].linked, run'[i].status \in {"failed", "canceled"}
               PROVE  Lost(JobOf(i))' \/ (task'[i].status = run'[i].status
                                          /\ task'[i].attempt = run'[i].ended)
  BY DEF Matched, MatchedAt
<1>2. CASE Lost(JobOf(i))
  BY <1>0, <1>2, LostRemains, IdParts
<1>3. ASSUME task[i].status = run'[i].status, task[i].attempt = run'[i].ended
      PROVE  task'[i].status = run'[i].status /\ task'[i].attempt = run'[i].ended
  <2>1. task'[i] = task[i]
    BY <1>0, <1>1, <1>3, EndedRemains DEF SettledStatus
  <2> QED
    BY <1>3, <2>1
<1>4. CASE run'[i] = run[i]
  BY <1>0, <1>1, <1>2, <1>3, <1>4 DEF Matched, MatchedAt
<1>5. CASE run'[i] # run[i]
  <2>1. Effect(i)
    BY <1>5, RunEffect
  <2>2. ~ByDeletion(i) /\ ~ByPruning(i) /\ ~ByFiring(i)
    BY <1>1 DEF ByDeletion, ByPruning, ByFiring, NoRun, Intent
  <2>3. ASSUME NEW r \in Run, Intent(r), run'[i] \in Dispatched(r) PROVE FALSE
    BY <1>1, <2>3 DEF Dispatched, Run, Intent
  <2>4. ~ByTick(i) /\ ~ByManual(i)
    BY <1>0, <2>3 DEF ByTick, ByManual, TickEnqueued, RunNowEnqueued, LoopInv, Types,
       TickRun, ManualRun
  <2>5. ~ByDiscussion(i)
    <3>1. disc = DiscIdle /\ discussions = 0
      BY <1>0 DEF Holds, HoldInv, Hushed, Quiet
    <3> QED
      BY <1>0, <3>1 DEF ByDiscussion, DiscIdle
  <2>6. CASE ByReconciler(i)
    <3>1. PICK r \in Run : Held(i, r) /\ From(i, r)
      BY <2>6 DEF ByReconciler
    <3>2. CASE run'[i].status = task[i].status /\ run'[i].ended = task[i].attempt
      BY <1>3, <3>2
    <3>3. CASE run'[i].status = r.status /\ run'[i].ended = r.ended /\ run[i] = r
      BY <1>0, <1>1, <1>2, <1>3, <3>1, <3>3 DEF Matched, MatchedAt, From
    <3> QED
      BY <1>1, <1>2, <3>1, <3>2, <3>3 DEF From, Held, Settled, SettledStatus
  <2> QED
    BY <2>1, <2>2, <2>4, <2>5, <2>6 DEF Effect
<1> QED
  BY <1>4, <1>5

\* What others do to a run the reconciler has a copy of: at most, it is pruned.
LEMMA CopyRemains ==
  ASSUME Holds, Undisturbed, Next, rec' = rec, ~Reconcile, rec # RecIdle,
         NEW i \in Id, NEW r \in Run, Concern(i, r), Held(i, r)
  PROVE  Held(i, r)' \/ (run[i] = r /\ ByPruning(i))
<1>0. /\ LoopInv /\ disc.pc = "idle" /\ TickHolds /\ ManualHolds
      /\ HasRun(r) /\ ~Intent(r) /\ r # NoRun
  BY ConcernIsRun DEF Holds, HoldInv, LoopInv, Lock, DiscIdle
<1>1. CASE run'[i] = run[i]
  BY <1>0, <1>1, HeldRemains
<1>2. CASE run'[i] # run[i]
  <2>1. Effect(i)
    BY <1>2, RunEffect
  <2>2. ~ByReconciler(i) /\ ~ByDiscussion(i)
    BY <1>0 DEF ByReconciler, ByDiscussion, SchedulerFree
  <2>3. ASSUME Exists(JobOf(i)) \/ automation[JobOf(i)].status = "active" PROVE run[i] = r
    BY <2>3 DEF Held, Lost, Gone, Exists, AutomationStatus
  <2>4. CASE ByDeletion(i)
    <3>1. Lost(JobOf(i))'
      BY <1>0, <2>4 DEF ByDeletion, Lost, Creating
    <3> QED
      BY <2>4, <3>1 DEF ByDeletion, Held, NoRun
  <2>5. CASE ByPruning(i)
    BY <2>3, <2>5 DEF ByPruning
  <2>6. ~ByFiring(i)
    BY <1>0, <2>3 DEF ByFiring
  <2>7. ~ByTick(i)
    BY <1>0, <2>3 DEF ByTick, TickEnqueued, TickHolds, Lost, Gone, Exists, AutomationStatus,
       LoopInv, TickRun
  <2>8. ~ByManual(i)
    BY <1>0, <2>3 DEF ByManual, RunNowEnqueued, ManualHolds, Lost, Gone, Exists, AutomationStatus
  <2> QED
    BY <2>1, <2>2, <2>4, <2>5, <2>6, <2>7, <2>8 DEF Effect
<1> QED
  BY <1>1, <1>2

\* A copy whose run was pruned while its job exists will not be written.
LEMMA PrunedIsInert ==
  ASSUME Holds, NEW i \in Id, NEW r \in Run, Concern(i, r), run[i] = r, ByPruning(i)
  PROVE  Inert(i, r) /\ ~Pending(i, r)
<1>1. Calm /\ Prunable(i, r) /\ Exists(JobOf(i)) /\ MatchedAt(i)
  BY DEF ByPruning, Holds, HoldInv, Matched
<1>2. ~Pending(i, r)
  BY <1>1 DEF Pending, Prunable, Writable, Deliverable
<1>3. r.linked /\ r.status \in {"failed", "canceled"}
  BY <1>1, <1>2 DEF Concern, Pending, Prunable, Settled, SettledStatus
<1>4. ~Lost(JobOf(i))
  BY <1>1 DEF Lost, Gone, Exists, AutomationStatus
<1> QED
  BY <1>1, <1>2, <1>3, <1>4 DEF MatchedAt, Inert

LEMMA OthersLeaveCopies ==
  ASSUME Holds, Undisturbed, Next, rec' = rec, ~Reconcile
  PROVE  RecHolds'
<1>0. LoopInv /\ RecHolds
  BY DEF Holds, HoldInv
<1>1. CASE rec = RecIdle
  BY <1>1 DEF RecIdle, RecHolds, CopyHolds, Awaited
<1>2. CASE rec # RecIdle
  <2>1. ASSUME NEW i \in Id PROVE CopyHolds(i)'
    <3>1. PICK r \in Run : r = rec.runs[i] /\ CopyHolds(i)
      BY <1>0 DEF LoopInv, Types, RecHolds
    <3>2. ASSUME r # NoRun, Held(i, r) PROVE Held(i, r)' \/ Inert(i, r)'
      <4>1. Concern(i, r)
        BY <3>1, <3>2 DEF CopyHolds
      <4> QED
        BY <1>0, <1>2, <3>2, <4>1, CopyRemains, PrunedIsInert, InertRemains
    <3>3. ASSUME Inert(i, r) PROVE Inert(i, r)'
      BY <1>0, <3>3, InertRemains
    <3> QED
      BY <3>1, <3>2, <3>3 DEF CopyHolds
  <2>2. ASSUME rec.pc \in Awaited PROVE Held(rec.id, rec.run)' /\ Pending(rec.id, rec.run)'
    <3>1. PICK i \in Id, r \in Run : i = rec.id /\ r = rec.run
      BY <1>0, <2>2 DEF LoopInv, Types, RecRun
    <3>2. Held(i, r) /\ Pending(i, r) /\ Concern(i, r)
      BY <1>0, <2>2, <3>1, PendingIsKept DEF RecHolds
    <3>3. Held(i, r)'
      BY <1>2, <3>2, CopyRemains, PrunedIsInert
    <3> QED
      BY <3>1, <3>2, <3>3 DEF Held, Pending, Writable, Deliverable, Settled
  <2> QED
    BY <2>1, <2>2 DEF RecHolds, Awaited
<1> QED
  BY <1>1, <1>2

\* The copies that the reconciler is not working on, when it writes one run.
LEMMA ListHolds ==
  ASSUME Holds, Next, NEW i \in Id, rec.pc = "list" \/ rec.id = i,
         NEW k \in Id \ {i}, rec.runs[k] # NoRun, run'[k] = run[k]
  PROVE  /\ Concern(k, rec.runs[k])
         /\ \A r \in Run : r = rec.runs[k] => Held(k, r)' \/ Inert(k, r)'
<1>1. CopyHolds(k) /\ LoopInv
  BY DEF Holds, HoldInv, RecHolds
<1>2. Held(k, rec.runs[k]) \/ Inert(k, rec.runs[k])
  BY <1>1 DEF CopyHolds
<1> QED
  BY <1>1, <1>2, HeldRemains, InertRemains DEF CopyHolds

LEMMA PastHolds ==
  ASSUME Holds, Next, NEW i \in Id, rec.pc = "list" \/ rec.id = i, RecPast(i),
         \A k \in Id \ {i} : run'[k] = run[k]
  PROVE  RecHolds'
<1>1. CASE rec' = RecIdle
  BY <1>1 DEF RecIdle, RecHolds, CopyHolds, Awaited
<1>2. CASE rec' # RecIdle
  <2> DEFINE left == [rec.runs EXCEPT ![i] = NoRun]
  <2>1. rec' = [rec EXCEPT !.pc = "list", !.runs = left, !.id = NoId, !.run = NoRun]
    BY <1>2 DEF RecPast
  <2>2. rec.runs \in [Id -> Run]
    BY DEF Holds, LoopInv, Types
  <2>3. left[i] = NoRun /\ \A k \in Id \ {i} : left[k] = rec.runs[k]
    BY <2>2
  <2> HIDE DEF left
  <2>4. rec'.pc = "list" /\ rec'.runs = left
    BY <2>1 DEF Holds, LoopInv, Types
  <2>5. ASSUME NEW k \in Id PROVE CopyHolds(k)'
    <3>1. CASE left[k] = NoRun
      BY <2>4, <3>1 DEF CopyHolds
    <3>2. CASE left[k] # NoRun
      <4>1. k # i
        BY <2>3, <3>2
      <4>2. PICK r \in Run : r = rec.runs[k] /\ r = left[k]
        BY <2>2, <2>3, <4>1
      <4> QED
        BY <2>4, <3>2, <4>1, <4>2, ListHolds
           DEF CopyHolds, Concern, Writable, Deliverable, Settled
    <3> QED
      BY <3>1, <3>2
  <2> QED
    BY <2>4, <2>5 DEF RecHolds, Awaited
<1> QED
  BY <1>1, <1>2

LEMMA AwaitHolds ==
  ASSUME Holds, Next, NEW i \in Id, rec.pc = "list" \/ rec.id = i,
         \A k \in Id \ {i} : run'[k] = run[k],
         NEW pc \in Awaited, NEW r \in Run, Awaits(pc, i, r), Pending(i, r), Held(i, r)'
  PROVE  RecHolds'
<1>1. rec'.pc = pc /\ rec'.id = i /\ rec'.run = r /\ rec'.runs = rec.runs
  BY DEF Awaits, Holds, LoopInv, Types
<1>2. ASSUME NEW k \in Id PROVE CopyHolds(k)'
  <2>1. CASE rec.runs[k] = NoRun
    BY <1>1, <2>1 DEF CopyHolds
  <2>2. CASE k = i /\ rec.runs[k] # NoRun
    <3>1. Concern(i, rec.runs[i])
      BY <2>2 DEF Holds, HoldInv, RecHolds, CopyHolds
    <3> QED
      BY <1>1, <2>2, <3>1 DEF CopyHolds, Concern, Writable, Deliverable, Settled, Awaited
  <2>3. CASE k # i /\ rec.runs[k] # NoRun
    <3>1. PICK s \in Run : s = rec.runs[k]
      BY DEF Holds, LoopInv, Types
    <3> QED
      BY <1>1, <2>3, <3>1, ListHolds DEF CopyHolds, Concern, Writable, Deliverable, Settled
  <2> QED
    BY <2>1, <2>2, <2>3
<1> QED
  BY <1>1, <1>2 DEF RecHolds, Pending, Writable, Deliverable, Settled

LEMMA WriteHolds ==
  ASSUME Holds, Next, NEW i \in Id, rec.pc = "list" \/ rec.id = i,
         \A k \in Id \ {i} : run'[k] = run[k],
         NEW r \in Run, NEW changed, AfterWrite(i, r, changed),
         Pending(i, r) => Held(i, r)'
  PROVE  RecHolds'
<1>1. CASE RecPast(i)
  BY <1>1, PastHolds
<1>2. CASE ~RecPast(i)
  <2>1. Awaits("deliver", i, r) /\ Deliverable(i, r)
    BY <1>2 DEF AfterWrite
  <2> QED
    BY <2>1, AwaitHolds DEF Pending, Awaited
<1> QED
  BY <1>1, <1>2

LEMMA BeginHolds ==
  ASSUME Holds, NEW j \in Job, RecBegin(j)
  PROVE  RecHolds'
<1>1. rec'.pc = "list" /\ rec'.runs = Listed(j) /\ run' = run
  BY DEF RecBegin, RecIdle, files
<1>2. ASSUME NEW i \in Id, Listed(j)[i] # NoRun
      PROVE  Listed(j)[i] = run[i] /\ Concern(i, run[i])
  BY <1>2 DEF Listed
<1> QED
  BY <1>1, <1>2 DEF RecHolds, CopyHolds, Held, Awaited, Concern, Writable, Deliverable, Settled

LEMMA SyncHolds ==
  ASSUME Holds, Next, NEW i \in Id, RecSync(i)
  PROVE  RecHolds'
<1>r. PICK r \in Run : r = rec.runs[i]
  BY DEF Holds, LoopInv, Types
<1>t. PICK t : t = Linked(i, r)
  OBVIOUS
<1>n. PICK new : new = Synced(r, t)
  OBVIOUS
<1>1. r = rec.runs[i] /\ t = Linked(i, r) /\ new = Synced(r, t)
  BY <1>r, <1>t, <1>n
<1>2. rec.pc = "list" /\ r # NoRun /\ run \in [Id -> Run] /\ LoopInv
  BY <1>1 DEF RecSync, Holds, LoopInv, Types
<1>3. Pending(i, r) => Held(i, r)
  BY <1>1, <1>2, PendingIsKept DEF Holds, HoldInv, RecHolds, CopyHolds
<1>4. CASE run' = run /\ RecPast(i)
  BY <1>2, <1>4, PastHolds
<1>5. CASE Settled(r) /\ ~Resumed(r, t)
  <2>1. run' = run
    BY <1>1, <1>5 DEF RecSync
  <2>2. Pending(i, r) => Held(i, r)'
    BY <1>2, <1>3, <2>1, HeldRemains
  <2>3. CASE Writable(r)
    <3>1. Awaits("retry", i, r) /\ Pending(i, r)
      BY <1>1, <1>5, <2>3 DEF RecSync, Pending
    <3> QED
      BY <1>2, <2>1, <2>2, <3>1, AwaitHolds DEF Awaited
  <2>4. CASE ~Writable(r)
    <3>1. AfterWrite(i, r, FALSE)
      BY <1>1, <1>5, <2>4 DEF RecSync
    <3> QED
      BY <1>2, <2>1, <2>2, <3>1, WriteHolds
  <2> QED
    BY <2>3, <2>4
<1>6. CASE /\ ~Settled(r) \/ Resumed(r, t)
           /\ t # NoTask /\ SaveRun(i, new)
           /\ IF Writable(new) THEN Awaits("write", i, new) ELSE AfterWrite(i, new, TRUE)
  <2>1. new \in Run
    BY <1>1, <1>2, <1>6, SyncReads
  <2>2. run'[i] = new /\ \A k \in Id \ {i} : run'[k] = run[k]
    BY <1>2, <1>6 DEF SaveRun
  <2>3. Held(i, new)'
    BY <2>2 DEF Held
  <2>4. CASE Writable(new)
    BY <1>2, <1>6, <2>1, <2>2, <2>3, <2>4, AwaitHolds DEF Awaited, Pending
  <2>5. CASE ~Writable(new)
    BY <1>2, <1>6, <2>1, <2>2, <2>3, <2>5, WriteHolds
  <2> QED
    BY <2>4, <2>5
<1> QED
  BY <1>1, <1>4, <1>5, <1>6 DEF RecSync, files

LEMMA ReconcilerKeepsCopies ==
  ASSUME Holds, Next, Reconcile \/ RecFails
  PROVE  RecHolds'
<1>0. LoopInv /\ run \in [Id -> Run]
  BY DEF Holds, LoopInv, Types
<1>1. ASSUME rec.pc \in Awaited PROVE rec.id \in Id /\ Pending(rec.id, rec.run)
  BY <1>1 DEF Holds, HoldInv, LoopInv, RecRun, RecHolds
<1>2. CASE RecWritten
  <2>1. rec.id \in Id /\ rec.pc \in Awaited
    BY <1>1, <1>2 DEF RecWritten, Awaited
  <2>2. PICK i \in Id : i = rec.id
    BY <2>1
  <2>3. PICK r \in Run :
          /\ AfterWrite(i, r, rec.pc = "write")
          /\ SaveRun(i, r) \/ (run' = run /\ r = rec.run)
    BY <1>0, <1>2, <2>2, RecWrittenWrites
  <2>4. Held(i, r)' /\ \A k \in Id \ {i} : run'[k] = run[k]
    <3>1. CASE SaveRun(i, r)
      BY <1>0, <3>1 DEF SaveRun, Held
    <3>2. CASE run' = run /\ r = rec.run
      <4>1. Held(i, r)
        BY <2>1, <2>2, <3>2 DEF Holds, HoldInv, RecHolds
      <4> QED
        BY <1>0, <3>2, <4>1, HeldRemains
    <3> QED
      BY <2>3, <3>1, <3>2
  <2> QED
    BY <2>2, <2>3, <2>4, WriteHolds
<1>3. CASE RecSends
  <2>1. run' = run /\ rec.pc \in Awaited
    BY <1>3 DEF RecSends, files, Awaited
  <2>2. PICK i \in Id, r \in Run : i = rec.id /\ r = rec.run
    BY <1>0, <1>1, <2>1 DEF LoopInv, Types
  <2>3. Pending(i, r) /\ Held(i, r)
    BY <2>1, <2>2 DEF Holds, HoldInv, RecHolds
  <2>4. Held(i, r)'
    BY <1>0, <2>1, <2>3, HeldRemains
  <2>5. Awaits("sent", i, r) \/ Awaits("refused", i, r) \/ RecPast(i)
    BY <1>3, <2>2 DEF RecSends
  <2> QED
    BY <2>1, <2>2, <2>3, <2>4, <2>5, AwaitHolds, PastHolds DEF Awaited
<1>4. CASE RecDelivered
  <2>1. rec.id \in Id /\ RecPast(rec.id) /\ \A k \in Id \ {rec.id} : run'[k] = run[k]
    BY <1>0, <1>4, RecDeliveredWrites DEF RecDelivered, SaveRun
  <2> QED
    BY <2>1, PastHolds
<1>5. CASE RecFails
  <2>1. run' = run
    BY <1>5 DEF RecFails, files
  <2>2. \E i \in Id : (rec.pc = "list" \/ rec.id = i) /\ RecPast(i)
    BY <1>1, <1>5 DEF RecFails, Awaited
  <2> QED
    BY <2>1, <2>2, PastHolds
<1> QED
  BY <1>2, <1>3, <1>4, <1>5, BeginHolds, SyncHolds DEF Reconcile

LEMMA RecHoldsStep ==
  ASSUME Holds, Undisturbed, Next
  PROVE  RecHolds'
<1>1. CASE Crash
  BY <1>1 DEF Crash, RecIdle, RecHolds, CopyHolds, Awaited
<1> QED
  BY <1>1, RecKept, OthersLeaveCopies, ReconcilerKeepsCopies

\* No discussion begins about, or is about, a run that is not settled.
LEMMA NotDiscussed ==
  ASSUME Holds, NEW i \in Id, ~HasRun(run[i]), Exists(JobOf(i))
  PROVE  disc.pc # "idle" => i # disc.id
BY DEF Holds, HoldInv, DiscHolds, LoopInv, DiscRun, HasRun, Intent, Settled, SettledStatus,
   NoRun, Gone, Exists, AutomationStatus

LEMMA DiscMoves ==
  ASSUME Holds, Next
  PROVE  disc'.pc # "idle" =>
           \/ disc.pc # "idle" /\ disc'.id = disc.id
           \/ /\ disc'.id \in Id /\ disc' # disc /\ UNCHANGED automation
              /\ Exists(JobOf(disc'.id)) /\ Settled(run[disc'.id])
<1>1. ASSUME NEW i \in Id, DiscussionOpens(i)
      PROVE  /\ disc'.id \in Id /\ disc' # disc /\ UNCHANGED automation
             /\ Exists(JobOf(disc'.id)) /\ Settled(run[disc'.id])
  BY <1>1 DEF DiscussionOpens, SchedulerFree, DiscIdle
<1> QED
  BY <1>1, DiscKept DEF Discussion, DiscussionCreated, DiscussionWritten, Crash, DiscIdle

LEMMA DiscHoldsStep ==
  ASSUME Holds, Undisturbed, Next
  PROVE  DiscHolds'
<1>0. LoopInv /\ DiscHolds /\ TickHolds /\ ManualHolds /\ Hushed
  BY DEF Holds, HoldInv
<1>1. CASE disc' = disc /\ disc.pc # "idle"
  <2>1. PICK i \in Id : i = disc.id
    BY <1>0, <1>1 DEF LoopInv, DiscRun
  <2>2. Settled(disc.run) /\ HasRun(disc.run) /\ JobOf(i) \in Job /\ MaxDiscussions # 0
    BY <1>0, <1>1, <2>1, IdParts
       DEF LoopInv, DiscRun, HasRun, Settled, SettledStatus, NoRun, Intent,
       Hushed, Quiet, DiscIdle
  <2>3. CASE run'[i] = run[i]
    <3>1. ~DiscussionCreated
      BY <1>1 DEF DiscussionCreated
    <3>2. Gone(JobOf(i)) => Gone(JobOf(i))'
      BY <1>0, <2>2, <3>1, GoneRemains
    <3> QED
      BY <1>0, <1>1, <2>1, <2>3, <3>2 DEF DiscHolds
  <2>4. CASE run'[i] # run[i]
    <3>1. Effect(i)
      BY <2>4, RunEffect
    <3>2. ~ByPruning(i) /\ ~ByFiring(i) /\ ~ByReconciler(i)
      BY <1>0, <1>1, <2>1, <2>2
         DEF ByPruning, ByFiring, ByReconciler, Calm, DiscHolds, HasRun, Gone, LoopInv, Lock,
             DiscIdle, RecIdle
    <3>3. ~ByTick(i) /\ ~ByManual(i)
      BY <1>0, <1>1, <2>1
         DEF ByTick, ByManual, TickHolds, ManualHolds, TickEnqueued, RunNowEnqueued
    <3>4. ~ByDiscussion(i)
      BY <1>1 DEF ByDiscussion, Discussion, DiscussionOpens, DiscussionCreated,
         DiscussionWritten, SchedulerFree, DiscIdle
    <3> QED
      BY <1>1, <2>1, <3>1, <3>2, <3>3, <3>4 DEF Effect, ByDeletion, DiscHolds
  <2> QED
    BY <2>3, <2>4
<1>2. ASSUME NEW i \in Id, DiscussionOpens(i) PROVE DiscHolds'
  <2>1. run \in [Id -> Run]
    BY <1>0 DEF LoopInv, Types
  <2> QED
    BY <1>2, <2>1 DEF DiscussionOpens, SaveRun, DiscHolds
<1>3. CASE DiscussionCreated
  <2>1. run \in [Id -> Run] /\ disc.id \in Id
    BY <1>0, <1>3 DEF LoopInv, Types, DiscRun, DiscussionCreated
  <2> QED
    BY <1>3, <2>1 DEF DiscussionCreated, SaveRun, DiscHolds
<1>4. CASE Crash \/ DiscussionWritten \/ (disc' = disc /\ disc.pc = "idle")
  BY <1>4 DEF Crash, DiscussionWritten, DiscIdle, DiscHolds
<1> QED
  BY <1>1, <1>2, <1>3, <1>4, DiscKept DEF Discussion

LEMMA TickPastEnds ==
  ASSUME NEW j, TickPast(j)
  PROVE  tick'.pc # "enqueue"
BY DEF TickPast, TickIdle

LEMMA TickHoldsStep ==
  ASSUME Holds, Undisturbed, Next
  PROVE  TickHolds'
<1>0. LoopInv /\ TickHolds /\ ManualHolds /\ Hushed /\ run \in [Id -> Run]
  BY DEF Holds, HoldInv, LoopInv, Types
<1>1. CASE tick' = tick /\ tick.pc = "enqueue"
  <2>1. PICK i \in Id : i = tick.id
    BY <1>0, <1>1 DEF LoopInv, TickRun
  <2>2. Intent(tick.run) /\ ~HasRun(tick.run) /\ ~Settled(tick.run) /\ JobOf(i) \in Job /\ i[2] # 0
    BY <1>0, <1>1, <2>1, IdParts
       DEF LoopInv, TickRun, HasRun, Intent, Settled, SettledStatus, TickHolds
  <2>3. (~HasRun(run[i]) /\ ~Settled(run[i])) \/ Lost(JobOf(i))
    BY <1>0, <1>1, <2>1, <2>2 DEF TickHolds, HasRun, Settled, SettledStatus, NoRun
  <2>4. disc'.pc # "idle" => i # disc'.id
    BY <1>0, <1>1, <2>1, <2>3, DiscMoves DEF TickHolds, Lost, Gone, Exists, AutomationStatus
  <2>5. CASE Lost(JobOf(i))
    BY <1>0, <1>1, <2>1, <2>2, <2>4, <2>5, LostRemains DEF TickHolds
  <2>6. CASE ~Lost(JobOf(i)) /\ run'[i] = run[i]
    BY <1>0, <1>1, <2>1, <2>2, <2>4, <2>6 DEF TickHolds
  <2>7. CASE ~Lost(JobOf(i)) /\ run'[i] # run[i]
    <3>1. Effect(i)
      BY <2>7, RunEffect
    <3>2. ~ByPruning(i) /\ ~ByFiring(i)
      BY <1>1, <2>3, <2>7 DEF ByPruning, ByFiring, Prunable
    <3>3. ~ByTick(i)
      BY <1>1, TickPastEnds DEF ByTick, TickEnqueued
    <3>4. ~ByManual(i)
      BY <1>0, <2>2 DEF ByManual, ManualHolds, RunNowEnqueued
    <3>5. ~ByReconciler(i)
      BY <2>3, <2>7, ConcernIsRun DEF ByReconciler, Held
    <3>6. ~ByDiscussion(i)
      BY <1>0, <1>1, <2>1, <2>3, <2>7 DEF ByDiscussion, TickHolds
    <3>7. run'[i] = NoRun /\ disc' = disc /\ Gone(JobOf(i))'
      BY <3>1, <3>2, <3>3, <3>4, <3>5, <3>6 DEF Effect, ByDeletion
    <3>8. MaxDiscussions = 0 => Lost(JobOf(i))'
      BY <1>0, <3>7 DEF Hushed, Quiet, DiscIdle, Lost, Creating
    <3> QED
      BY <1>1, <2>1, <2>2, <2>4, <3>7, <3>8 DEF TickHolds
  <2> QED
    BY <2>5, <2>6, <2>7
<1>2. ASSUME NEW j \in Job, TickFires(j) PROVE TickHolds'
  <2> DEFINE i == <<j, automation[j].next>>
             r == IF run[i] = NoRun THEN NewRun(j) ELSE run[i]
  <2>1. /\ automation[j].next \in 1..tick.now /\ tick.now \in 0..MaxTime /\ ~HasRun(run[i])
        /\ automation[j].status = "active" /\ SaveRun(i, r) /\ disc' = disc
    BY <1>0, <1>2 DEF TickFires, Due, LoopInv, Types, Instant, tickOthers
  <2>2. i \in Id /\ i[2] # 0 /\ JobOf(i) = j
    BY <2>1, LimitAssumption DEF Id, JobOf
  <2>3. run'[i] = r
    BY <1>0, <2>1, <2>2 DEF SaveRun
  <2>4. tick'.id = i /\ tick'.run = r
    BY <1>0, <1>2 DEF TickFires, LoopInv, Types
  <2>5. disc.pc # "idle" => i # disc.id
    BY <2>1, <2>2, NotDiscussed DEF Exists, AutomationStatus
  <2> HIDE DEF i, r
  <2> QED
    BY <2>1, <2>2, <2>3, <2>4, <2>5 DEF TickHolds
<1>3. ASSUME NEW j, TickPast(j) PROVE TickHolds'
  BY <1>3, TickPastEnds DEF TickHolds
<1>4. CASE TickBegin \/ Crash \/ (tick' = tick /\ tick.pc # "enqueue")
  <2>1. tick'.pc # "enqueue"
    <3>1. TickBegin => tick'.pc = "scan"
      BY DEF TickBegin, TickIdle
    <3> QED
      BY <1>4, <3>1 DEF Crash, TickIdle
  <2> QED
    BY <2>1 DEF TickHolds
<1>5. CASE TimePasses
  BY <1>1, <1>4, <1>5 DEF TimePasses, loops
<1> QED
  BY <1>1, <1>2, <1>3, <1>4, <1>5, TickKept DEF TickEnqueued, TickPasses, TickFiredBefore, TickFails

LEMMA ManualKept ==
  Next => \/ manual' = manual /\ ~RunNowEnqueued /\ ~Crash
          \/ manual' = ManualIdle \/ \E j \in Job : RunNow(j)
<1>1. ASSUME NEW j \in Job, Request(j) PROVE manual' = manual \/ RunNow(j)
  BY <1>1 DEF Request, CreateAutomation, PauseAutomation, ResumeAutomation, SetRunAt,
     SetSchedule, Rewrite, DeleteAutomation, requestOthers, loops
<1>2. ASSUME Tick \/ \E j \in Job : TickFails(j) PROVE manual' = manual
  BY <1>2 DEF Tick, TickBegin, TickPasses, TickFiredBefore, TickFires, TickEnqueued,
     TickFails, tickOthers
<1>3. ASSUME Reconcile \/ RecFails PROVE manual' = manual
  BY <1>3 DEF Reconcile, RecFails, RecBegin, RecSync, RecWritten, RecSends, RecDelivered,
     recOthers
<1>4. ASSUME Discussion PROVE manual' = manual
  BY <1>4 DEF Discussion, DiscussionOpens, DiscussionCreated, DiscussionWritten, discOthers
<1>5. ASSUME TimePasses \/ Start \/ \E i \in Id : Tasks(i) PROVE manual' = manual
  BY <1>5 DEF TimePasses, Start, Tasks, TaskRuns, TaskEnds, TaskResumes, taskOthers, loops
<1>6. RunNowEnqueued \/ Crash => manual' = ManualIdle
  BY DEF RunNowEnqueued, Crash
<1> QED
  BY <1>1, <1>2, <1>3, <1>4, <1>5, <1>6 DEF Next

LEMMA ManualHoldsStep ==
  ASSUME Holds, Undisturbed, Next
  PROVE  ManualHolds'
<1>0. LoopInv /\ TickHolds /\ ManualHolds /\ run \in [Id -> Run]
  BY DEF Holds, HoldInv, LoopInv, Types
<1>1. CASE manual' = manual /\ manual # ManualIdle /\ ~RunNowEnqueued /\ ~Crash
  <2>1. PICK i \in Id : i = manual.id
    BY <1>0, <1>1 DEF LoopInv, ManualRun
  <2>2. i[2] = 0 /\ JobOf(i) \in Job /\ (run[i] = NoRun \/ Lost(JobOf(i)))
    BY <1>0, <1>1, <2>1, IdParts DEF ManualHolds
  <2>3. disc'.pc # "idle" => i # disc'.id
    BY <1>0, <1>1, <2>1, <2>2, DiscMoves
       DEF ManualHolds, Lost, Gone, Exists, AutomationStatus, Settled, SettledStatus, NoRun
  <2>4. created'[i] = 0
    <3>1. CASE created' = created
      BY <1>0, <1>1, <2>1, <3>1 DEF ManualHolds
    <3>2. CASE TickEnqueued
      <4>1. tick.id # i /\ \E new : Dispatch(tick.id, new)
        BY <1>0, <2>2, <3>2 DEF TickEnqueued, TickHolds
      <4>2. created'[i] = created[i]
        BY <1>0, <4>1 DEF Dispatch, tasks, LoopInv, OneTaskInv
      <4> QED
        BY <1>0, <1>1, <2>1, <4>2 DEF ManualHolds
    <3> QED
      BY <1>1, <3>1, <3>2, TasksKept DEF Tasks, TaskRuns, TaskEnds, TaskResumes, taskOthers
  <2>5. CASE Lost(JobOf(i))
    BY <1>0, <1>1, <2>1, <2>2, <2>3, <2>4, <2>5, LostRemains DEF ManualHolds
  <2>6. CASE run[i] = NoRun /\ ~Lost(JobOf(i))
    <3>1. ASSUME run'[i] # NoRun PROVE FALSE
      <4>1. Effect(i)
        BY <2>6, <3>1, RunEffect
      <4>2. ~ByDeletion(i) /\ ~ByPruning(i) /\ ~ByFiring(i) /\ ~ByManual(i)
        BY <1>1, <2>2, <3>1 DEF ByDeletion, ByPruning, ByFiring, ByManual
      <4>3. ~ByTick(i)
        BY <1>0, <2>2 DEF ByTick, TickEnqueued, TickHolds
      <4>4. ~ByReconciler(i)
        BY <2>6, ConcernIsRun DEF ByReconciler, Held
      <4>5. ~ByDiscussion(i)
        BY <1>0, <1>1, <2>1, <2>6
           DEF ByDiscussion, ManualHolds, Settled, SettledStatus, NoRun
      <4> QED
        BY <4>1, <4>2, <4>3, <4>4, <4>5 DEF Effect
    <3> QED
      BY <1>1, <2>1, <2>2, <2>3, <2>4, <3>1 DEF ManualHolds
  <2> QED
    BY <2>2, <2>5, <2>6
<1>2. ASSUME NEW j \in Job, RunNow(j) PROVE ManualHolds'
  <2>1. PICK i \in Id : i = <<j, 0>>
    <3>1. 0 \in 0..MaxTime
      BY LimitAssumption
    <3> QED
      BY <3>1 DEF Id
  <2>2. /\ run[i] = NoRun /\ created[i] = 0 /\ Exists(JobOf(i)) /\ i[2] = 0
        /\ disc' = disc /\ run' = run /\ created' = created
        /\ manual'.id = i
    BY <1>2, <2>1 DEF RunNow, JobOf, files, tasks
  <2>3. disc.pc # "idle" => i # disc.id
    BY <2>2, NotDiscussed DEF HasRun
  <2> QED
    BY <2>2, <2>3 DEF ManualHolds
<1>3. CASE manual' = ManualIdle
  BY <1>3 DEF ManualHolds
<1> QED
  BY <1>1, <1>2, <1>3, ManualKept

-----------------------------------------------------------------------------
LEMMA HoldsInit == Init => Holds
<1> SUFFICES ASSUME Init PROVE Holds
  OBVIOUS
<1>1. LoopInv
  BY LoopInvInit
<1>2. TickHolds /\ ManualHolds /\ RecHolds /\ DiscHolds /\ Matched /\ Hushed
  BY DEF Init, TickHolds, ManualHolds, RecHolds, CopyHolds, DiscHolds, Matched, MatchedAt, Hushed,
     Quiet, TickIdle, ManualIdle, RecIdle, DiscIdle, Awaited, NoRun
<1> QED
  BY <1>1, <1>2 DEF Holds, HoldInv

LEMMA HoldsStep ==
  ASSUME Undisturbed, Holds, [Next]_vars
  PROVE  Holds'
<1>1. LoopInv'
  BY LoopInvStep DEF Holds
<1>2. Hushed'
  BY QuietStep DEF Holds, HoldInv, Hushed
<1>3. CASE Next
  <2>1. Matched'
    BY <1>3, EndIsKept DEF Matched
  <2> QED
    BY <1>1, <1>2, <1>3, <2>1, TickHoldsStep, ManualHoldsStep, RecHoldsStep, DiscHoldsStep
       DEF Holds, HoldInv
<1>4. CASE UNCHANGED vars
  BY <1>1, <1>2, <1>4
     DEF vars, files, tasks, loops, bounds, Holds, HoldInv, TickHolds, ManualHolds, RecHolds,
         CopyHolds, DiscHolds, Matched, MatchedAt, Held, Inert, Lost, Gone, Creating, Pending,
         Concern, Writable, Deliverable, Settled, Prunable
<1> QED
  BY <1>3, <1>4

LEMMA HoldsAlways ==
  ASSUME Undisturbed
  PROVE  Spec => []Holds
<1>1. Holds /\ [Next]_vars => Holds'
  BY HoldsStep
<1> QED
  BY <1>1, HoldsInit, PTL DEF Spec

-----------------------------------------------------------------------------
(* What the copies do not take away.                                       *)

LEMMA LinkStays ==
  ASSUME Holds, Undisturbed, Next, NEW i \in Id, run[i].linked
  PROVE  run'[i].linked \/ run'[i] = NoRun
<1>0. LoopInv /\ TickHolds /\ ManualHolds /\ RecHolds /\ DiscHolds
  BY DEF Holds, HoldInv
<1>1. HasRun(run[i]) /\ ~Intent(run[i]) /\ run[i] # NoRun
  BY DEF HasRun, Intent, NoRun
<1>2. CASE run'[i] # run[i]
  <2>1. Effect(i)
    BY <1>2, RunEffect
  <2>2. CASE ByDeletion(i) \/ ByPruning(i)
    BY <2>2 DEF ByDeletion, ByPruning
  <2>3. ~ByFiring(i)
    BY <1>1 DEF ByFiring
  <2>4. ~ByTick(i)
    BY <1>0, <1>1 DEF ByTick, TickEnqueued, TickHolds, Lost, Gone, Exists, AutomationStatus,
       LoopInv, TickRun
  <2>5. ~ByManual(i)
    BY <1>0, <1>1 DEF ByManual, RunNowEnqueued, ManualHolds, Lost, Gone, Exists, AutomationStatus
  <2>6. CASE ByReconciler(i)
    BY <2>6 DEF ByReconciler, From, Held
  <2>7. CASE ByDiscussion(i)
    BY <1>0, <1>1, <2>7 DEF ByDiscussion, DiscHolds
  <2> QED
    BY <2>1, <2>2, <2>3, <2>4, <2>5, <2>6, <2>7 DEF Effect
<1> QED
  BY <1>2

LEMMA PausedStays ==
  ASSUME Holds, Undisturbed, MaxDiscussions = 0, Next, NEW j \in Job, NEW slot \in 1..MaxTime,
         automation[j].status = "paused", run[<<j, slot>>] = NoRun
  PROVE  run'[<<j, slot>>] = NoRun
<1>0. LoopInv /\ TickHolds /\ ManualHolds /\ disc = DiscIdle /\ discussions = 0
  BY DEF Holds, HoldInv, Hushed, Quiet
<1>1. PICK i \in Id : i = <<j, slot>>
  BY LimitAssumption DEF Id
<1>2. JobOf(i) = j /\ i[2] # 0 /\ ~Lost(j) /\ run[i] = NoRun
  BY <1>1 DEF JobOf, Lost, Gone
<1>3. CASE run'[i] # NoRun
  <2>1. Effect(i)
    BY <1>2, <1>3, RunEffect
  <2>2. ~ByDeletion(i) /\ ~ByPruning(i) /\ ~ByFiring(i)
    BY <1>2, <1>3 DEF ByDeletion, ByPruning, ByFiring
  <2>3. ~ByTick(i)
    BY <1>0, <1>2 DEF ByTick, TickEnqueued, TickHolds, LoopInv, TickRun, Intent, NoRun
  <2>4. ~ByManual(i)
    BY <1>0, <1>2 DEF ByManual, RunNowEnqueued, ManualHolds
  <2>5. ~ByReconciler(i)
    BY <1>2, ConcernIsRun DEF ByReconciler, Held
  <2>6. ~ByDiscussion(i)
    BY <1>0 DEF ByDiscussion, DiscIdle
  <2> QED
    BY <2>1, <2>2, <2>3, <2>4, <2>5, <2>6 DEF Effect
<1> QED
  BY <1>1, <1>3

\* The link of a run to its task outlives every copy that the loops, the
\* requests and the discussions write back after their awaits, as long as no run
\* is pruned while one of them holds it: none is pruned, or there is nobody, a
\* discussion or a resumed task, who makes a pruned run be written again.
THEOREM LinksAreKept ==
  ASSUME Keep > MaxTime \/ (MaxDiscussions = 0 /\ MaxResumes = 0)
  PROVE  Spec => LinkIsKept
<1>1. Undisturbed
  BY DEF Undisturbed, Calm
<1>2. Holds /\ [Next]_vars =>
        [\A i \in Id : run[i].linked => run'[i].linked \/ run'[i] = NoRun]_vars
  BY <1>1, LinkStays
<1>3. Spec => []Holds
  BY <1>1, HoldsAlways
<1> QED
  BY <1>2, <1>3, PTL DEF Spec, LinkIsKept

\* A paused job gets no run, neither from the tick that listed it as active nor
\* from a copy that a loop held while it was paused.
THEOREM PausedJobsStay ==
  ASSUME MaxDiscussions = 0, Keep > MaxTime \/ MaxResumes = 0
  PROVE  Spec => PausedJobsRest
<1>1. Undisturbed
  BY DEF Undisturbed, Calm
<1>2. Holds /\ [Next]_vars =>
        [\A j \in Job, slot \in 1..MaxTime :
           automation[j].status = "paused" /\ run[<<j, slot>>] = NoRun =>
             run'[<<j, slot>>] = NoRun]_vars
  BY <1>1, PausedStays
<1>3. Spec => []Holds
  BY <1>1, HoldsAlways
<1> QED
  BY <1>2, <1>3, PTL DEF Spec, PausedJobsRest
=============================================================================
