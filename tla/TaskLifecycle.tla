--------------------------- MODULE TaskLifecycle ---------------------------
(***************************************************************************)
(* What TaskManager promises about a task, seen from its file on disk and  *)
(* from the outside world its executions act on: which statuses follow     *)
(* which, that a task executes only while its record says RUNNING, and     *)
(* that cron tasks execute one at a time.                                  *)
(***************************************************************************)
CONSTANTS Task, Cron

VARIABLES
  record,     \* the durable status of each task
  executing   \* the tasks some executor works on

Resumable == {"failed", "canceled", "timed_out"}
Terminal == Resumable \cup {"completed"}
Record == {"absent", "queued", "running"} \cup Terminal

Init == record = [t \in Task |-> "absent"] /\ executing = {}

Moves(t, from, to) == record[t] \in from /\ record'[t] \in to
Executed(t) == t \in executing
Executes(t) == t \in executing'

Stays(t) == record'[t] = record[t] /\ (Executes(t) <=> Executed(t))
Submitted(t) == Moves(t, {"absent"}, {"queued"}) /\ ~Executed(t) /\ ~Executes(t)
\* A claim is durable before the execution begins; it may be written and then
\* taken back.
Claimed(t) == Moves(t, {"queued", "running"}, {"running"}) /\ ~Executed(t)
\* An execution ends with its outcome written, or not yet written.
Ended(t) == Moves(t, {"running"}, Terminal \cup {"running"}) /\ Executed(t) /\ ~Executes(t)
\* A record left RUNNING gets its outcome, or is queued again.
Repaired(t) ==
  Moves(t, {"running"}, Terminal \cup {"queued"}) /\ ~Executed(t) /\ ~Executes(t)
\* Canceled before it ran, or its workspace is gone.
Dropped(t) == Moves(t, {"queued"}, {"canceled", "failed"}) /\ ~Executed(t) /\ ~Executes(t)
Resumed(t) == Moves(t, Resumable, {"queued"}) /\ ~Executed(t) /\ ~Executes(t)

Next ==
  /\ record' \in [Task -> Record] /\ executing' \in SUBSET Task
  /\ \A t \in Task :
       \/ Stays(t) \/ Submitted(t) \/ Claimed(t) \/ Ended(t)
       \/ Repaired(t) \/ Dropped(t) \/ Resumed(t)
  /\ \A t, u \in Cron \cap executing' : t = u

Spec == Init /\ [][Next]_<<record, executing>>
=============================================================================
