------------------------ MODULE AutomationScheduler ------------------------
(***************************************************************************)
(* Automations: AutomationManager of src/deepseek_tui/tools/automation.py, *)
(* the dispatch and delivery of automation/pipeline.py, and the discussion *)
(* of server/runtime.py, over the files they share.                        *)
(*                                                                         *)
(* Two loops run beside the requests of users: scheduler_tick, under       *)
(* _tick_lock, and reconcile_run_statuses, under _scheduler_lock, which    *)
(* open_automation_discussion takes too.  A step is what a coroutine does  *)
(* between two awaits; requests that do not await are one step.  Whatever  *)
(* a coroutine read before an await it may write back after it.            *)
(*                                                                         *)
(* Time is counted in slots, and a recurring job has one slot per unit of  *)
(* time.  Names, prompts, digests and error texts are left out, and so are *)
(* the runs of HTTP triggers, which have no automation.                    *)
(***************************************************************************)
EXTENDS Naturals, FiniteSets

CONSTANTS
  Job,             \* the automations users create
  Delivering,      \* those with an active delivery
  FromChat,        \* those created from a conversation
  Grace,           \* MISFIRE_GRACE_SECS, in slots
  Keep,            \* MAX_RUNS_PER_AUTOMATION
  MaxAttempts,     \* _MAX_DELIVERY_ATTEMPTS
  Ends,            \* bound: what tasks end with
  MaxTime,         \* bound: the last instant
  MaxEdits,        \* bound: requests that change an automation or run it
  MaxDiscussions,  \* bound: discussions opened
  MaxResumes,      \* bound: resumes of finished tasks
  MaxStops,        \* bound: crashes
  MaxFaults        \* bound: file writes that fail in a loop

SettledStatus == {"completed", "failed", "canceled"}

ASSUME JobAssumption == Delivering \subseteq Job /\ FromChat \subseteq Job
ASSUME EndsAssumption == Ends \subseteq SettledStatus
ASSUME LimitAssumption ==
  /\ Grace \in Nat /\ Keep \in Nat \ {0} /\ MaxAttempts \in Nat \ {0}
  /\ MaxTime \in Nat /\ MaxEdits \in Nat /\ MaxDiscussions \in Nat
  /\ MaxResumes \in Nat /\ MaxStops \in Nat /\ MaxFaults \in Nat

VARIABLES
  up,           \* the process runs
  clock,        \* the wall clock
  automation,   \* <root>/<id>.json
  run,          \* <root>/runs/<automation>/<id>.json
  task,         \* the task queue, by the idempotency key of the run
  created,      \* history: how many tasks each run has had
  tick,         \* scheduler_tick
  manual,       \* run_now
  rec,          \* reconcile_run_statuses
  disc,         \* open_automation_discussion
  sent,         \* the messages a channel accepted, by run and attempt
  edits, discussions, resumes, stops, faults  \* what the bounds count

files == <<automation, run>>
tasks == <<task, created>>
loops == <<tick, manual, rec, disc>>
bounds == <<edits, discussions, resumes, stops, faults>>
vars == <<up, clock, files, tasks, loops, sent, bounds>>

\* A scheduled run is named by its slot (uuid5 of the automation and
\* next_run_at), so that a slot has one run; slot 0 stands for the fresh name
\* of a manual run.
Id == Job \X (0..MaxTime)
JobOf(id) == id[1]
NoId == <<>>

\* `next' is 0 when there is no next_run_at; `stamp' tells the values of
\* updated_at apart; `chat' says whether conversation_thread_id is set.
AutomationStatus == {"active", "paused", "completed"}
NoAutomation == [status |-> "new", cron |-> FALSE, next |-> 0, stamp |-> 0, chat |-> FALSE]
Deleted == [NoAutomation EXCEPT !.status = "gone"]
Exists(j) == automation[j].status \in AutomationStatus

\* `ended' is the attempt of the task whose end the run has recorded, as its
\* ended_at does; `note' follows conversation_thread_id and conversation_written.
NoRun == [status |-> "none", linked |-> FALSE, ended |-> 0,
          done |-> FALSE, tries |-> 0, note |-> "none"]
NewRun(j) == [NoRun EXCEPT !.status = "queued",
                           !.note = IF automation[j].chat THEN "due" ELSE "none"]
Settled(r) == r.status \in SettledStatus
Intent(r) == r.status = "queued" /\ ~r.linked

NoTask == [status |-> "none", attempt |-> 0]

TickIdle == [pc |-> "idle", todo |-> {}, now |-> 0, id |-> NoId,
             seen |-> NoAutomation, run |-> NoRun]
ManualIdle == [id |-> NoId, run |-> NoRun]
RecIdle == [pc |-> "idle", runs |-> [i \in Id |-> NoRun],
            id |-> NoId, run |-> NoRun]
DiscIdle == [pc |-> "idle", id |-> NoId, seen |-> NoAutomation, run |-> NoRun]

Init ==
  /\ up = TRUE /\ clock = 0
  /\ automation = [j \in Job |-> NoAutomation] /\ run = [i \in Id |-> NoRun]
  /\ task = [i \in Id |-> NoTask] /\ created = [i \in Id |-> 0]
  /\ tick = TickIdle /\ manual = ManualIdle /\ rec = RecIdle /\ disc = DiscIdle
  /\ sent = [i \in Id |-> [k \in 0..(MaxResumes + 1) |-> 0]]
  /\ edits = 0 /\ discussions = 0 /\ resumes = 0 /\ stops = 0 /\ faults = 0

-----------------------------------------------------------------------------
(* Files.                                                                  *)

\* An updated_at that no copy kept over an await has.
Fresh ==
  CHOOSE s \in 0..2 : s \notin {tick.seen.stamp, disc.seen.stamp}

Saved(j, a) == automation' = [automation EXCEPT ![j] = [a EXCEPT !.stamp = Fresh]]
SaveRun(i, r) == run' = [run EXCEPT ![i] = r]

\* prune_runs keeps runs in flight, results still to be written and deliveries
\* still to be made; which of the others are the oldest is left open.
Prunable(i, r) ==
  /\ Settled(r) /\ r.note # "due"
  /\ (r.done \/ r.status = "canceled" \/ JobOf(i) \notin Delivering)
SaveRunAndPrune(i, r) ==
  LET others == {k \in Id : JobOf(k) = JobOf(i) /\ k # i /\ run[k] # NoRun} IN
  \E S \in SUBSET {k \in others : Prunable(k, run[k])} :
    /\ (S = {} \/ Cardinality(others \ S) + 1 >= Keep)
    /\ run' = [k \in Id |-> IF k = i THEN r ELSE IF k \in S THEN NoRun ELSE run[k]]

Fault == faults < MaxFaults /\ faults' = faults + 1
NoFault == faults' = faults

-----------------------------------------------------------------------------
(* Requests of users and agents.                                           *)

NextSlot == clock + 1
Edit == up /\ edits < MaxEdits /\ edits' = edits + 1
requestOthers == <<up, clock, tasks, loops, sent, discussions, resumes, stops, faults>>

CreateAutomation(j) ==
  /\ up /\ automation[j].status = "new"
  /\ \E status \in {"active", "paused"}, cron \in BOOLEAN, at \in 0..MaxTime :
       /\ cron \/ at # 0
       /\ Saved(j, [NoAutomation EXCEPT
                      !.status = status, !.cron = cron, !.chat = j \in FromChat,
                      !.next = IF at = 0 /\ status = "active" THEN NextSlot ELSE at])
  /\ UNCHANGED <<run, edits, requestOthers>>

\* A paused job keeps its time.
PauseAutomation(j) ==
  /\ Edit /\ Exists(j)
  /\ Saved(j, [automation[j] EXCEPT !.status = "paused"])
  /\ UNCHANGED <<run, requestOthers>>

\* A one-shot that has run cannot be resumed.
ResumeAutomation(j) ==
  /\ Edit /\ Exists(j)
  /\ (automation[j].cron \/ automation[j].next # 0)
  /\ Saved(j, [automation[j] EXCEPT
                 !.status = "active", !.next = IF automation[j].cron THEN NextSlot ELSE @])
  /\ UNCHANGED <<run, requestOthers>>

Revived(s) == IF s = "completed" THEN "active" ELSE s

SetRunAt(j) ==
  /\ Edit /\ Exists(j)
  /\ \E at \in 1..MaxTime :
       Saved(j, [automation[j] EXCEPT !.status = Revived(@), !.cron = FALSE, !.next = at])
  /\ UNCHANGED <<run, requestOthers>>

SetSchedule(j) ==
  /\ Edit /\ Exists(j)
  /\ LET s == Revived(automation[j].status) IN
     Saved(j, [automation[j] EXCEPT !.status = s, !.cron = TRUE,
                                    !.next = IF s = "active" THEN NextSlot ELSE @])
  /\ UNCHANGED <<run, requestOthers>>

\* A new name or prompt only moves updated_at.
Rewrite(j) ==
  /\ Edit /\ Exists(j) /\ Saved(j, automation[j])
  /\ UNCHANGED <<run, requestOthers>>

DeleteAutomation(j) ==
  /\ Edit /\ Exists(j)
  /\ automation' = [automation EXCEPT ![j] = Deleted]
  /\ run' = [i \in Id |-> IF JobOf(i) = j THEN NoRun ELSE run[i]]
  /\ UNCHANGED requestOthers

-----------------------------------------------------------------------------
(* Dispatch: what _enqueue_run_task does to the run and the task queue.    *)

\* add_task returns the task it already has under the run's key.
Submitted_NoKey(t) == [status |-> "queued", attempt |-> 1]
Submitted(t) == IF t = NoTask THEN [status |-> "queued", attempt |-> 1] ELSE t

\* The task is linked, or the run fails with the reason it could not be queued.
Dispatched(r) == {[r EXCEPT !.linked = TRUE], [r EXCEPT !.status = "failed"]}
Dispatch(i, new) ==
  IF new.linked
  THEN /\ task' = [task EXCEPT ![i] = Submitted(@)]
       /\ created' = IF Submitted(task[i]) # task[i] \/ created[i] = 0
                     THEN [created EXCEPT ![i] = @ + 1] ELSE created
  ELSE UNCHANGED tasks

RunNow(j) ==
  /\ Edit /\ Exists(j) /\ manual = ManualIdle
  /\ run[<<j, 0>>] = NoRun /\ created[<<j, 0>>] = 0
  /\ manual' = [id |-> <<j, 0>>, run |-> NewRun(j)]
  /\ UNCHANGED <<up, clock, files, tasks, tick, rec, disc, sent,
                 discussions, resumes, stops, faults>>

\* run_now rereads the automation after the await; deleted, it gets no run.
RunNowEnqueued ==
  LET i == manual.id  j == JobOf(i) IN
  /\ up /\ manual # ManualIdle
  /\ manual' = ManualIdle
  /\ \E new \in Dispatched(manual.run) :
       /\ Dispatch(i, new)
       /\ IF Exists(j) THEN SaveRunAndPrune(i, new) /\ Saved(j, automation[j])
                       ELSE UNCHANGED files
  /\ UNCHANGED <<up, clock, tick, rec, disc, sent, bounds>>

-----------------------------------------------------------------------------
(* scheduler_tick.                                                         *)

tickOthers == <<up, clock, manual, rec, disc, sent, edits, discussions, resumes, stops>>

TickBegin ==
  /\ up /\ tick = TickIdle /\ \E j \in Job : Exists(j)
  /\ tick' = [TickIdle EXCEPT !.pc = "scan", !.now = clock,
                              !.todo = {j \in Job : Exists(j)}]
  /\ UNCHANGED <<files, tasks, faults, tickOthers>>

\* The loop goes on with the next job, and the tick ends after the last one.
TickPast(j) ==
  tick' = IF tick.todo = {j} THEN TickIdle
          ELSE [TickIdle EXCEPT !.pc = "scan", !.now = tick.now, !.todo = tick.todo \ {j}]

Upcoming_Skips(a) == IF a.cron THEN tick.now + 2 ELSE 0
Upcoming(a) == IF a.cron THEN tick.now + 1 ELSE 0
Missed_AnyKind(a) == tick.now - a.next > Grace
Missed(a) == a.cron /\ tick.now - a.next > Grace

\* The record read before the await must still be the one on disk.
Unmoved_SlotOnly(j, seen) == automation[j].next = seen.next
Unmoved_StatusOnly(j, seen) == automation[j].status = "active"
Unmoved(j, seen) ==
  /\ automation[j].status = "active"
  /\ automation[j].next = seen.next /\ automation[j].stamp = seen.stamp
Rearm(j, seen) ==
  IF Unmoved(j, seen)
  THEN Saved(j, [automation[j] EXCEPT !.next = Upcoming(seen),
                                      !.status = IF automation[j].cron
                                                 THEN @ ELSE "completed"])
  ELSE UNCHANGED automation

\* A job that is not due, or is recurring and was never armed, or was missed.
TickPasses(j) ==
  LET a == automation[j] IN
  /\ up /\ tick.pc = "scan" /\ j \in tick.todo
  /\ \/ /\ \/ a.status # "active" \/ a.next > tick.now
           \/ a.next = 0 /\ ~a.cron
        /\ UNCHANGED automation
     \/ /\ a.status = "active" /\ a.next = 0 /\ a.cron
        /\ Saved(j, [a EXCEPT !.next = NextSlot])
     \/ /\ a.status = "active" /\ a.next \in 1..tick.now /\ Missed(a)
        /\ Saved(j, [a EXCEPT !.next = Upcoming(a)])
  /\ TickPast(j)
  /\ UNCHANGED <<run, tasks, faults, tickOthers>>

Due_Listed(j) ==
  /\ up /\ tick.pc = "scan" /\ j \in tick.todo
  /\ automation[j].next \in 1..tick.now /\ ~Missed(automation[j])
Due(j) ==
  /\ up /\ tick.pc = "scan" /\ j \in tick.todo
  /\ automation[j].status = "active" /\ automation[j].next \in 1..tick.now
  /\ ~Missed(automation[j])

\* The slot has its run already.
HasRun(r) == r # NoRun /\ ~Intent(r)

TickFiredBefore(j) ==
  /\ Due(j) /\ HasRun(run[<<j, automation[j].next>>])
  /\ Rearm(j, automation[j]) /\ TickPast(j)
  /\ UNCHANGED <<run, tasks, faults, tickOthers>>

\* The intent is on disk before the task is queued; an intent found there,
\* left by a crash, is dispatched again.
TickFires(j) ==
  LET i == <<j, automation[j].next>>
      r == IF run[i] = NoRun THEN NewRun(j) ELSE run[i] IN
  /\ Due(j) /\ ~HasRun(run[i])
  /\ SaveRun(i, r)
  /\ tick' = [tick EXCEPT !.pc = "enqueue", !.id = i, !.seen = automation[j], !.run = r]
  /\ UNCHANGED <<automation, tasks, faults, tickOthers>>

TickEnqueued ==
  LET i == tick.id  j == JobOf(i) IN
  /\ up /\ tick.pc = "enqueue"
  /\ \E new \in Dispatched(tick.run) :
       /\ Dispatch(i, new)
       /\ \/ /\ NoFault
             /\ IF Exists(j) THEN SaveRunAndPrune(i, new) /\ Rearm(j, tick.seen)
                             ELSE UNCHANGED files
          \/ /\ Fault /\ Exists(j)     \* neither, or only the run, is written
             /\ (UNCHANGED run \/ SaveRunAndPrune(i, new))
             /\ UNCHANGED automation
  /\ TickPast(j)
  /\ UNCHANGED tickOthers

\* A write that raises ends the handling of the job.
TickFails(j) ==
  /\ Due(j) /\ Fault /\ TickPast(j)
  /\ UNCHANGED <<files, tasks, tickOthers>>

-----------------------------------------------------------------------------
(* reconcile_run_statuses.                                                 *)

SchedulerFree == rec = RecIdle /\ disc = DiscIdle
recOthers == <<up, clock, tasks, tick, manual, disc, edits, discussions, resumes, stops>>

Writable(r) == Settled(r) /\ r.note = "due"
Deliverable_Again(i, r) ==
  JobOf(i) \in Delivering /\ r.status \in {"completed", "failed"}
Deliverable(i, r) ==
  JobOf(i) \in Delivering /\ r.status \in {"completed", "failed"} /\ ~r.done

\* The runs of a job are read at once; only those that concern the pass are
\* awaited for, one after the other.
Concern(i, r) ==
  (r.linked /\ r.status # "completed") \/ Writable(r) \/ Deliverable(i, r)
Listed(j) == [i \in Id |-> IF JobOf(i) = j /\ Concern(i, run[i]) THEN run[i] ELSE NoRun]

\* A pass visits job after job; a visit touches the files of its job alone.
RecBegin(j) ==
  /\ up /\ SchedulerFree /\ Exists(j) /\ \E i \in Id : Listed(j)[i] # NoRun
  /\ rec' = [RecIdle EXCEPT !.pc = "list", !.runs = Listed(j)]
  /\ UNCHANGED <<files, sent, faults, recOthers>>

\* On with the next run, or the end of the visit.
RecPast(i) ==
  LET left == [rec.runs EXCEPT ![i] = NoRun] IN
  rec' = IF \A k \in Id : left[k] = NoRun THEN RecIdle
         ELSE [rec EXCEPT !.pc = "list", !.runs = left, !.id = NoId, !.run = NoRun]

Awaits(pc, i, r) == rec' = [rec EXCEPT !.pc = pc, !.id = i, !.run = r]

\* The task a run reads; a completed run does not read its task any more.
Linked(i, r) == IF r.linked /\ r.status # "completed" THEN task[i] ELSE NoTask

\* A failed or canceled run whose task is back, or has ended once more.
Resumed_StatusOnly(r, t) ==
  r.status \in {"failed", "canceled"} /\ t.status \in {"queued", "running", "completed"}
Resumed(r, t) ==
  /\ r.status \in {"failed", "canceled"}
  /\ \/ t.status \in {"queued", "running", "completed"}
     \/ t.status \in SettledStatus /\ t.attempt # r.ended

Reset_Unlinks(r) ==
  [r EXCEPT !.linked = FALSE, !.ended = 0, !.done = FALSE, !.tries = 0]
Reset(r) == [r EXCEPT !.ended = 0, !.done = FALSE, !.tries = 0,
                      !.note = IF @ = "written" THEN "due" ELSE @]
Synced(r, t) ==
  [(IF Resumed(r, t) THEN Reset(r) ELSE r) EXCEPT
     !.status = t.status, !.ended = IF t.status \in SettledStatus THEN t.attempt ELSE @]

\* What follows the write of the result: last_run_at, then the delivery.  The
\* KeyError of a deleted automation ends the handling of the run.
AfterWrite(i, r, changed) ==
  LET j == JobOf(i) IN
  IF changed /\ Settled(r)
  THEN IF Exists(j) THEN Saved(j, automation[j])
                         /\ (IF Deliverable(i, r) THEN Awaits("deliver", i, r) ELSE RecPast(i))
                    ELSE UNCHANGED automation /\ RecPast(i)
  ELSE /\ UNCHANGED automation
       /\ IF Deliverable(i, r) THEN Awaits("deliver", i, r) ELSE RecPast(i)

RecSync(i) ==
  LET r == rec.runs[i]  t == Linked(i, r)  new == Synced(r, t) IN
  /\ up /\ rec.pc = "list" /\ r # NoRun
  /\ \/ /\ Settled(r) /\ ~Resumed(r, t)
        /\ UNCHANGED run
        /\ IF Writable(r) THEN Awaits("retry", i, r) /\ UNCHANGED automation
                          ELSE AfterWrite(i, r, FALSE)
     \/ /\ (~Settled(r) \/ Resumed(r, t))
        /\ (t = NoTask \/ new = r)
        /\ RecPast(i) /\ UNCHANGED files
     \/ /\ (~Settled(r) \/ Resumed(r, t))
        /\ t # NoTask /\ new # r
        /\ SaveRun(i, new)
        /\ IF Writable(new) THEN Awaits("write", i, new) /\ UNCHANGED automation
                            ELSE AfterWrite(i, new, TRUE)
  /\ UNCHANGED <<sent, faults, recOthers>>

\* The result is sent only while the task still says what the run says.
Agrees(i, r) ==
  IF r.linked THEN task[i].status = r.status ELSE r.status # "completed"

\* The result is written to the conversation, or the conversation is gone, or
\* it is busy and the write is left for the next pass.
RecWritten ==
  LET i == rec.id  r == rec.run IN
  /\ up /\ rec.pc \in {"write", "retry"}
  /\ \/ /\ Agrees(i, r)
        /\ \E note \in {"written", "none"} :
             LET new == [r EXCEPT !.note = note] IN
             SaveRun(i, new) /\ AfterWrite(i, new, rec.pc = "write")
     \/ UNCHANGED run /\ AfterWrite(i, r, rec.pc = "write")
  /\ UNCHANGED <<sent, faults, recOthers>>

\* The channel accepts the message, refuses it, or is not asked: the task has
\* moved on, or the failure is the program's own.
RecSends ==
  LET i == rec.id  r == rec.run IN
  /\ up /\ rec.pc = "deliver"
  /\ \/ /\ Agrees(i, r)
        /\ sent' = [sent EXCEPT ![i][r.ended] = @ + 1]
        /\ Awaits("sent", i, r)
     \/ /\ Agrees(i, r) /\ Awaits("refused", i, r) /\ UNCHANGED sent
     \/ /\ ~Agrees(i, r) /\ RecPast(i) /\ UNCHANGED sent
  /\ UNCHANGED <<files, faults, recOthers>>

LastTry(n) == n >= MaxAttempts

\* Whether a delivery is best effort, tried once, is read anew for each try.
Undelivered(r) == {[r EXCEPT !.done = TRUE],
                   [r EXCEPT !.tries = @ + 1, !.done = LastTry(r.tries + 1)]}

\* The answer arrives, or the 30 seconds end although the message went out.
RecDelivered ==
  LET i == rec.id  r == rec.run IN
  /\ up
  /\ \/ rec.pc = "sent" /\ SaveRun(i, [r EXCEPT !.done = TRUE])
     \/ rec.pc \in {"sent", "refused"} /\ \E new \in Undelivered(r) : SaveRun(i, new)
     \/ rec.pc = "deliver" /\ r.status = "failed" /\ Agrees(i, r)
          /\ SaveRun(i, [r EXCEPT !.done = TRUE])
  /\ RecPast(i)
  /\ UNCHANGED <<automation, sent, faults, recOthers>>

\* A write that raises ends the handling of the run.
RecFails ==
  /\ up /\ Fault
  /\ \/ rec.pc = "list" /\ \E i \in Id : rec.runs[i] # NoRun /\ RecPast(i)
     \/ rec.pc \in {"write", "retry", "sent", "refused"} /\ RecPast(rec.id)
  /\ UNCHANGED <<files, sent, recOthers>>

-----------------------------------------------------------------------------
(* open_automation_discussion, under the same lock as reconcile.           *)

discOthers == <<up, clock, tasks, tick, manual, rec, sent, edits, resumes, stops, faults>>

Discussed(r) == IF r.note = "none" THEN [r EXCEPT !.note = "due"] ELSE r

\* The run has a conversation or takes over that of its automation; there is
\* none, or it was deleted, and the creation of one is awaited.
DiscussionOpens(i) ==
  LET r == run[i]  a == automation[JobOf(i)] IN
  /\ up /\ SchedulerFree /\ Exists(JobOf(i)) /\ Settled(r)
  /\ discussions < MaxDiscussions /\ discussions' = discussions + 1
  /\ \/ /\ r.note # "none" \/ a.chat
        /\ SaveRun(i, Discussed(r))
        /\ disc' = [pc |-> "write", id |-> i, seen |-> NoAutomation, run |-> Discussed(r)]
     \/ /\ disc' = [pc |-> "create", id |-> i, seen |-> a, run |-> r]
        /\ UNCHANGED run
  /\ UNCHANGED <<automation, discOthers>>

\* The automation is written as it was read before the await.
DiscussionCreated ==
  LET i == disc.id  new == [disc.run EXCEPT !.note = "due"] IN
  /\ up /\ disc.pc = "create"
  /\ automation' = [automation EXCEPT ![JobOf(i)] = [disc.seen EXCEPT !.chat = TRUE]]
  /\ SaveRun(i, new)
  /\ disc' = [pc |-> "write", id |-> i, seen |-> NoAutomation, run |-> new]
  /\ UNCHANGED <<discussions, discOthers>>

DiscussionWritten ==
  LET i == disc.id  r == disc.run IN
  /\ up /\ disc.pc = "write"
  /\ \/ /\ Writable(r) /\ Agrees(i, r)
        /\ \E note \in {"written", "none"} : SaveRun(i, [r EXCEPT !.note = note])
     \/ UNCHANGED run
  /\ disc' = DiscIdle
  /\ UNCHANGED <<automation, discussions, discOthers>>

-----------------------------------------------------------------------------
(* The task queue, as its clients see it, the clock and the process.       *)

taskOthers == <<up, clock, files, created, loops, sent, edits, discussions, stops, faults>>

TaskRuns(i) ==
  /\ up /\ task[i].status = "queued"
  /\ task' = [task EXCEPT ![i].status = "running"]
  /\ UNCHANGED <<resumes, taskOthers>>
TaskEnds(i) ==
  /\ up /\ task[i].status = "running"
  /\ \E s \in Ends : task' = [task EXCEPT ![i].status = s]
  /\ UNCHANGED <<resumes, taskOthers>>
TaskResumes(i) ==
  /\ up /\ task[i].status \in {"failed", "canceled"}
  /\ resumes < MaxResumes /\ resumes' = resumes + 1
  /\ task' = [task EXCEPT ![i] = [status |-> "queued", attempt |-> @.attempt + 1]]
  /\ UNCHANGED taskOthers

TimePasses ==
  /\ clock < MaxTime /\ clock' = clock + 1
  /\ UNCHANGED <<up, files, tasks, loops, sent, bounds>>

\* The coroutines are gone; the task a tick or a run_now was queueing may be on
\* disk, and running tasks are queued again.
Crash ==
  /\ up /\ stops < MaxStops /\ stops' = stops + 1
  /\ up' = FALSE
  /\ tick' = TickIdle /\ manual' = ManualIdle /\ rec' = RecIdle /\ disc' = DiscIdle
  /\ \E S \in SUBSET {i \in {tick.id, manual.id} \cap Id : task[i] = NoTask} :
       /\ task' = [i \in Id |->
                    IF i \in S THEN Submitted(task[i])
                    ELSE IF task[i].status = "running" THEN [task[i] EXCEPT !.status = "queued"]
                    ELSE task[i]]
       /\ created' = [i \in Id |-> IF i \in S THEN created[i] + 1 ELSE created[i]]
  /\ UNCHANGED <<clock, files, sent, edits, discussions, resumes, faults>>
Start ==
  /\ ~up /\ up' = TRUE
  /\ UNCHANGED <<clock, files, tasks, loops, sent, bounds>>

-----------------------------------------------------------------------------
Request(j) ==
  CreateAutomation(j) \/ PauseAutomation(j) \/ ResumeAutomation(j) \/ SetRunAt(j)
    \/ SetSchedule(j) \/ Rewrite(j) \/ DeleteAutomation(j) \/ RunNow(j)
Tick ==
  TickBegin \/ TickEnqueued
    \/ \E j \in Job : TickPasses(j) \/ TickFiredBefore(j) \/ TickFires(j)
Reconcile ==
  RecWritten \/ RecSends \/ RecDelivered
    \/ (\E j \in Job : RecBegin(j)) \/ (\E i \in Id : RecSync(i))
Discussion == (\E i \in Id : DiscussionOpens(i)) \/ DiscussionCreated \/ DiscussionWritten
Tasks(i) == TaskRuns(i) \/ TaskEnds(i) \/ TaskResumes(i)

Next ==
  \/ \E j \in Job : Request(j)
  \/ RunNowEnqueued \/ Tick \/ Reconcile \/ RecFails \/ Discussion
  \/ \E j \in Job : TickFails(j)
  \/ \E i \in Id : Tasks(i)
  \/ TimePasses \/ Crash \/ Start

Spec == Init /\ [][Next]_vars

\* Both loops run every few seconds, time passes, tasks end, and the program is
\* started again.
FairSpec ==
  /\ Spec
  /\ WF_vars(Tick) /\ WF_vars(Reconcile) /\ WF_vars(Start) /\ WF_vars(TimePasses)
  /\ WF_vars(DiscussionCreated) /\ WF_vars(DiscussionWritten)
  /\ \A i \in Id : WF_vars(TaskRuns(i) \/ TaskEnds(i))

-----------------------------------------------------------------------------
(* Properties.                                                             *)

Automation == [status : AutomationStatus \cup {"new", "gone"}, cron : BOOLEAN,
               next : 0..(MaxTime + 1), stamp : 0..2, chat : BOOLEAN]
Run == [status : SettledStatus \cup {"none", "queued", "running"}, linked : BOOLEAN,
        ended : 0..(MaxResumes + 1), done : BOOLEAN, tries : 0..MaxAttempts,
        note : {"none", "due", "written"}]

TypeOK ==
  /\ up \in BOOLEAN /\ clock \in 0..MaxTime
  /\ automation \in [Job -> Automation] /\ run \in [Id -> Run]
  /\ task \in [Id -> [status : SettledStatus \cup {"none", "queued", "running"},
                      attempt : 0..(MaxResumes + 1)]]
  /\ created \in [Id -> Nat] /\ sent \in [Id -> [0..(MaxResumes + 1) -> Nat]]
  /\ tick \in [pc : {"idle", "scan", "enqueue"}, todo : SUBSET Job, now : 0..clock,
               id : Id \cup {NoId}, seen : Automation, run : Run]
  /\ manual \in [id : Id \cup {NoId}, run : Run]
  /\ rec \in [pc : {"idle", "list", "write", "retry", "deliver", "sent", "refused"},
              runs : [Id -> Run], id : Id \cup {NoId}, run : Run]
  /\ disc \in [pc : {"idle", "create", "write"}, id : Id \cup {NoId},
               seen : Automation, run : Run]

\* A slot has one task, however often a tick comes back to it: after a crash
\* between the intent and the link, a failed write, a pause and a resume, or an
\* edit that names the slot again.
SlotDispatchedOnce == \A i \in Id : created[i] <= 1

\* The link of a run to its task survives every stale copy that the loops write
\* back; it goes only with the run, by deletion or pruning.  (A copy of a run that
\* was pruned and whose slot fired again is not covered: see LinksAreKept.)
LinkIsKept ==
  [][\A i \in Id : run[i].linked => run'[i].linked \/ run'[i] = NoRun]_vars

\* Who paused or deleted a job has the last word: a tick or a manual run that
\* was awaiting the enqueue does not bring the job, its time or a run back, and
\* a one-shot that has run stays completed.
EditsWin ==
  [][edits' = edits => \A j \in Job :
       /\ automation[j].status \in {"paused", "completed", "gone"} =>
            /\ automation'[j].status = automation[j].status
            /\ automation'[j].next = automation[j].next
       /\ automation[j].status = "gone" /\ rec' = rec =>
            \A i \in Id : JobOf(i) = j /\ run[i] = NoRun => run'[i] = NoRun]_vars

\* A job that is paused after a tick listed it as active, while the tick awaits
\* the enqueue of another one, gets no run in that tick; and nobody writes a run
\* back that was pruned, while nothing resumes its task or discusses it.
PausedJobsRest ==
  [][\A j \in Job, slot \in 1..MaxTime :
       automation[j].status = "paused" /\ run[<<j, slot>>] = NoRun =>
         run'[<<j, slot>>] = NoRun]_vars

\* A job moves off a slot only when that slot has its task or the record of why
\* it could not be queued, or when a recurring job missed it by more than the
\* grace: a crash, a failed write or an edit during the await loses no slot.
NoSlotLost ==
  [][edits' = edits => \A j \in Job :
       LET a == automation[j]  slot == a.next IN
       a.status = "active" /\ slot # 0 /\ automation'[j].next # slot =>
         \/ created'[<<j, slot>>] = 1 \/ run'[<<j, slot>>].status = "failed"
         \/ a.cron /\ clock - slot > Grace]_vars

\* A message goes out again for the same end of a task only while the record
\* of the run does not say that this end is delivered.
NothingSentTwiceKnowingly ==
  [][\A i \in Id, k \in 0..(MaxResumes + 1) :
       sent'[i][k] > sent[i][k] => ~(run[i].ended = k /\ run[i].done)]_vars

\* A one-shot that is left active fires, however late its time is noticed.
OneShotFires ==
  \A j \in Job :
    automation[j].status = "active" /\ ~automation[j].cron
      ~> automation[j].status # "active" \/ automation[j].cron

\* Every end of a task that has a delivery, the end of a resumed attempt too, is
\* delivered or given up on, unless the task is resumed or the run removed.
EveryEndIsDelivered ==
  \A i \in {k \in Id : JobOf(k) \in Delivering} : \A k \in 1..(MaxResumes + 1) :
    run[i].linked /\ task[i].attempt = k /\ task[i].status \in {"completed", "failed"}
      ~> (run[i].ended = k /\ run[i].done) \/ task[i].attempt # k \/ run[i] = NoRun

\* Stated by the docstring of AutomationManager: without preemption, concurrent
\* corruption of its state is impossible.  A handler, a discussion included,
\* does not restore an automation that was paused or deleted meanwhile.
ChangedIsNotRestored ==
  [][edits' = edits => \A j \in Job :
       automation[j].status \in {"paused", "gone"} =>
         automation'[j].status = automation[j].status]_vars

\* Stated by the comment of _tick_automation: the intent on disk is durable, and
\* by the audit: no task is lost when the program recovers.
IntentsAreDispatched == \A i \in Id : Intent(run[i]) ~> ~Intent(run[i])
=============================================================================
