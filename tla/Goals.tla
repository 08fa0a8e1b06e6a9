------------------------------- MODULE Goals -------------------------------
(***************************************************************************)
(* The goal of a thread and its queue of upcoming goals, as operators on   *)
(* the state of src/deepseek_tui/goal/service.py.  None of the service's   *)
(* methods awaits, so that each is one step of whoever calls it.           *)
(*                                                                         *)
(* Objectives, requirements and evidence are left out, with the checks of  *)
(* a completion: what the model reports is taken as valid.  A goal has a   *)
(* budget of turns, which is counted, and one of tokens and time, which is *)
(* spent or not.  The mode always allows goals.                            *)
(***************************************************************************)
EXTENDS Naturals, Sequences, SequencesExt

None == 0   \* no goal, no queue item, no turn, no budget

Status ==
  {"none", "active", "paused", "blocked", "budget_limited", "complete"}

NoGoal == [id |-> None, status |-> "none", turns |-> 0, limit |-> None,
           spent |-> FALSE, item |-> None]

\* counted: the live turn has been counted.  touched: the user changed the
\* status since the live turn noted the control epoch.
Service == [goal |-> NoGoal, queue |-> <<>>, promoted |-> None,
            counted |-> FALSE, touched |-> FALSE]

HeadItem(s) == IF s.queue = <<>> THEN None ELSE Head(s.queue)
Unfinished(s) == s.goal.status \notin {"none", "complete"}
Active(s) == s.goal.status = "active"
TurnsReached(g) == g.limit # None /\ g.turns >= g.limit
Continuable(s) == Active(s) /\ ~TurnsReached(s.goal) /\ ~s.goal.spent
-----------------------------------------------------------------------------
SetStatus(s, status, byUser) ==
  [s EXCEPT !.goal.status = status, !.touched = @ \/ byUser]

Cleared(s) == [s EXCEPT !.goal = NoGoal, !.counted = FALSE, !.promoted = None]

MayCreate(s, item, replace) ==
  /\ item # None => HeadItem(s) = item
  /\ Unfinished(s) => replace
Created(s, id, item) ==
  [s EXCEPT !.goal = [NoGoal EXCEPT !.id = id, !.status = "active", !.item = item],
            !.counted = FALSE, !.promoted = None]

\* The budget of turns does not stop a turn that it has already counted.
BudgetChecked(s, withTurns) ==
  IF Active(s) /\ (s.goal.spent \/ (withTurns /\ TurnsReached(s.goal)))
  THEN SetStatus(s, "budget_limited", FALSE) ELSE s

\* A change of the budgets also renews what there is of tokens and time.
BudgetSet(s, limit) ==
  BudgetChecked([s EXCEPT !.goal.limit = limit, !.goal.spent = FALSE], ~s.counted)

MayResume(s) ==
  \/ Unfinished(s)
  \/ s.goal.status = "complete" /\ s.queue # <<>>
Resumed_Unchecked(s, id) ==
  IF s.goal.status = "complete" THEN Created(s, id, Head(s.queue))
  ELSE IF Active(s) THEN s ELSE SetStatus(s, "active", TRUE)
Resumed(s, id) ==
  IF s.goal.status = "complete" THEN Created(s, id, Head(s.queue))
  ELSE IF Active(s) THEN s
  ELSE BudgetChecked(SetStatus(s, "active", TRUE), TRUE)

\* resume starts the next goal when there is one, but not of a reopened goal.
Reopened(s, id) ==
  Resumed(SetStatus([s EXCEPT !.promoted = None], "paused", TRUE), id)

Completed(s) ==
  [SetStatus(s, "complete", FALSE) EXCEPT !.promoted = HeadItem(s)]
-----------------------------------------------------------------------------
\* What mark_complete noted, unless the queue has changed since.
Consumed(s) == IF s.promoted = HeadItem(s) THEN s.promoted ELSE None

\* An item is in the queue once at most: its id is a fresh UUID.
WithoutItem(q, item) ==
  IF item \in Range(q) THEN RemoveAt(q, CHOOSE n \in DOMAIN q : q[n] = item) ELSE q
Acknowledged(s, item) ==
  IF s.goal.item = item
  THEN [s EXCEPT !.queue = WithoutItem(@, item), !.goal.item = None]
  ELSE IF HeadItem(s) = item THEN [s EXCEPT !.queue = Tail(@)]
  ELSE s

Moved(q, src, dest) == InsertAt(RemoveAt(q, src), dest, q[src])
-----------------------------------------------------------------------------
Adopted(s) ==
  IF Active(s) /\ ~s.counted
  THEN [s EXCEPT !.goal.turns = @ + 1, !.counted = TRUE] ELSE s

TurnStarted_Unacknowledged(s) ==
  IF ~Active(s) THEN [s EXCEPT !.counted = FALSE] ELSE Adopted(s)
TurnStarted(s) ==
  IF ~Active(s) THEN [s EXCEPT !.counted = FALSE]
  ELSE LET checked == BudgetChecked(s, TRUE) IN
       IF ~Active(checked) THEN checked
       ELSE Adopted(IF s.goal.item = None THEN s ELSE Acknowledged(s, s.goal.item))
\* automatic: a continuation; worked: it called a tool that does work;
\* stalled: the third with the same results and no progress.
Unproductive_Stalled(automatic, worked, stalled) == automatic /\ stalled
Unproductive(automatic, worked, stalled) == automatic /\ (~worked \/ stalled)
TurnEnded(s, outcome, automatic, worked, stalled) ==
  LET over == BudgetChecked([s EXCEPT !.counted = FALSE], TRUE) IN
  IF ~Active(s) THEN [s EXCEPT !.counted = FALSE]
  ELSE IF outcome # "completed"
  THEN [SetStatus(s, "paused", outcome = "cancelled") EXCEPT !.counted = FALSE]
  ELSE IF Active(over) /\ Unproductive(automatic, worked, stalled)
  THEN SetStatus(over, "paused", FALSE)
  ELSE over
=============================================================================
