---------------------------- MODULE ThreadTurns ----------------------------
(***************************************************************************)
(* The turns of one thread in one runtime: the tasks that start them, the  *)
(* engine that runs them and the monitors that close them                  *)
(* (src/deepseek_tui/server/threads/manager.py,                            *)
(* src/deepseek_tui/engine/orchestrator/core.py and engine/handle.py),     *)
(* with the goal that makes one turn lead to the next.                     *)
(*                                                                         *)
(* Left out: what a turn says, its items and checkpoints, background       *)
(* deliveries, steering, the loading and eviction of engines, and the      *)
(* shutdown of the runtime, which ends every turn itself.  What raises is  *)
(* named by the faults below.                                              *)
(***************************************************************************)
EXTENDS Goals, FiniteSets

CONSTANTS
  Client,        \* requests that start turns, one at a time each
  MaxTurns,      \* turn records
  MaxGoals,      \* goals created
  MaxCommands,   \* user commands
  MaxFaults,     \* faults
  Faults,        \* what may raise: "error": a turn of the engine; "crash": a
                 \* monitor or its setup, before the end of its turn; "late":
                 \* a monitor, after it; "start": a start or a compaction whose
                 \* record is saved; and "timeout": no first response in time
  Commands,      \* the kinds of commands the user gives
  Items,         \* queue items, in the order in which the user adds them
  Restored,      \* how many of them may be in the queue of a restored thread
  Limits         \* budgets of turns the user sets

Turn == 1..MaxTurns
Task == Client \cup Turn   \* a turn stands for its monitor
Kinds == {"message", "create", "next", "resume", "reopen", "pause", "cancel",
          "budget", "queue", "interrupt", "compact"}

ASSUME Assumptions ==
  /\ Client \cap Nat = {} /\ IsFiniteSet(Client)
  /\ {MaxTurns, MaxGoals, MaxCommands, MaxFaults} \subseteq Nat
  /\ Faults \subseteq {"error", "crash", "late", "start", "timeout"}
  /\ Commands \subseteq Kinds
  /\ Items \in Seq(Nat \ {None}) /\ IsInjective(Items)
  /\ Restored \subseteq 0..Len(Items)
  /\ Limits \subseteq Nat \ {None}

VARIABLES
  svc,      \* the goal service of the engine
  meta,     \* what the engine notes of the turn, and the flags for its monitor
  slot,     \* active_turn of the thread, and interrupt_requested
  lease,    \* who owns the lease of the thread
  record,   \* the turn records
  monitor,  \* where the monitor of each turn is
  watchdog, \* the first-response watchdog of each turn
  result,   \* turn_status of each monitor
  start,    \* start_turn, in each task that is in it
  ops,      \* the operations queued for the engine
  pending,  \* its pending_messages
  events,   \* the terminal events queued for a monitor
  cancel,   \* cancel_event
  eng,      \* the engine's turn task
  left,     \* what is left of the bounds, and the goals and items made
  seen      \* history, for the properties

vars == <<svc, meta, slot, lease, record, monitor, watchdog, result, start, ops,
          pending, events, cancel, eng, left, seen>>
host == <<slot, lease, record, monitor, watchdog, result, start>>
queues == <<ops, pending, events, cancel>>

Free == [turn |-> None, asked |-> FALSE]
NoStart == [pc |-> "idle", why |-> "none", goal |-> None, item |-> None, turn |-> None]
NoPromotion == [item |-> None, goal |-> None]
Rest == [pc |-> "idle", turn |-> None, auto |-> FALSE, hard |-> FALSE,
         worked |-> FALSE, outcome |-> "completed"]
Stop == [turn |-> None, auto |-> FALSE, goal |-> None]   \* a CancelRequestOp

Unset == MaxGoals + 1   \* goal_turn_id before the first turn

\* A restored thread may have a queue of upcoming goals.
Init ==
  /\ \E n \in Restored :
       /\ svc = [Service EXCEPT !.queue = SubSeq(Items, 1, n)]
       /\ left = [goals |-> MaxGoals, items |-> SubSeq(Items, n + 1, Len(Items)),
                  commands |-> MaxCommands, faults |-> MaxFaults]
  /\ meta = [id |-> Unset, continue |-> FALSE, promote |-> NoPromotion]
  /\ slot = Free /\ lease = None
  /\ record = [t \in Turn |-> "none"]
  /\ monitor = [t \in Turn |-> "none"]
  /\ watchdog = [t \in Turn |-> "off"]
  /\ result = [t \in Turn |-> "completed"]
  /\ start = [t \in Task |-> NoStart]
  /\ ops = <<>> /\ pending = <<>> /\ events = <<>> /\ cancel = FALSE
  /\ eng = Rest
  /\ seen = [fresh |-> FALSE, idle |-> FALSE, begun |-> {}]
-----------------------------------------------------------------------------
Fault(kind) ==
  kind \in Faults /\ left.faults > 0 /\ left' = [left EXCEPT !.faults = @ - 1]

\* start_turn.

Busy == slot.turn # None
Fresh == {t \in Turn : record[t] = "none"}
NextTurn == CHOOSE t \in Fresh : TRUE

Automatic(st) == st.why \in {"resume", "continue"}
\* next-add is the one start of a goal that does not bind its goal.
Expected(st) == IF st.why = "next" THEN None ELSE st.goal
Outdated(st) == Expected(st) # None
                /\ ~(svc.goal.id = Expected(st) /\ Continuable(svc))

\* What the caller of start_turn does with the goal when it raises.
Undone(st, busy, conflict) ==
  IF busy \/ st.goal = None \/ svc.goal.id # st.goal THEN svc
  ELSE IF st.why \in {"create", "next"} \/ (st.why = "promote" /\ ~conflict)
  THEN Cleared(svc)
  ELSE IF Active(svc) /\ (st.why = "resume" \/ (st.why = "continue" /\ ~conflict))
  THEN SetStatus(svc, "paused", FALSE)
  ELSE svc

Returned(t) ==
  /\ start' = [start EXCEPT ![t] = NoStart]
  /\ monitor' = IF t \in Turn THEN [monitor EXCEPT ![t] = "done"] ELSE monitor

\* A holder that is winding down is waited for, for a bounded time; one that
\* runs a turn refuses at once.
HandoffPending ==
  IF Busy THEN slot.asked \/ record[slot.turn] # "in_progress" ELSE TRUE

Launched_Hasty(t, st) ==
  IF lease = None \/ HandoffPending THEN
    /\ lease' = t /\ start' = [start EXCEPT ![t] = [st EXCEPT !.pc = "prep"]]
  ELSE UNCHANGED <<lease, start>>
Launched(t, st) ==
  IF lease = None THEN
    /\ lease' = t /\ start' = [start EXCEPT ![t] = [st EXCEPT !.pc = "prep"]]
  ELSE IF HandoffPending THEN
    /\ UNCHANGED lease /\ start' = [start EXCEPT ![t] = [st EXCEPT !.pc = "wait"]]
  ELSE UNCHANGED <<lease, start>>
Rejected == lease # None /\ ~HandoffPending

Claims(t) ==
  /\ start[t].pc = "wait" /\ lease = None
  /\ lease' = t
  /\ start' = [start EXCEPT ![t].pc = "prep"]
  /\ UNCHANGED <<svc, meta, slot, record, monitor, watchdog, result, queues, eng, left, seen>>

\* Another start was faster, or the wait is over, which may be at any time.
Refused(t) ==
  /\ start[t].pc = "wait" /\ lease # None
  /\ svc' = Undone(start[t], Busy, TRUE)
  /\ Returned(t)
  /\ UNCHANGED <<meta, slot, lease, record, watchdog, result, queues, eng, left, seen>>

\* The lock is held from the check of the slot and of the goal to the
\* reservation; the record follows.
Booked(t, pc) ==
  /\ start[t].pc = "prep" /\ ~Busy /\ ~Outdated(start[t]) /\ Fresh # {}
  /\ slot' = [turn |-> NextTurn, asked |-> FALSE]
  /\ record' = [record EXCEPT ![NextTurn] = "in_progress"]
  /\ start' = [start EXCEPT ![t].pc = pc, ![t].turn = NextTurn]
\* Then the monitor, whose the lease is from now on.
Reserves(t) ==
  /\ Booked(t, "ready")
  /\ lease' = NextTurn
  /\ monitor' = [monitor EXCEPT ![NextTurn] = "setup"]
  /\ UNCHANGED <<svc, meta, watchdog, result, queues, eng, left, seen>>
\* What comes between the record and the monitor raises.
ReservationFails(t) ==
  /\ Booked(t, "raised") /\ Fault("start")
  /\ UNCHANGED <<svc, meta, lease, monitor, watchdog, result, queues, eng, seen>>

\* A failed start clears the slot of the thread, whatever turn is in it, and
\* leaves its record as it is.
Unwinds(t, conflict) ==
  /\ slot' = Free /\ lease' = None
  /\ svc' = Undone(start[t], FALSE, conflict)
  /\ Returned(t)
  /\ UNCHANGED <<meta, record, watchdog, result, queues, eng, left, seen>>
GoalChanged(t) ==
  start[t].pc = "prep" /\ (Busy \/ Outdated(start[t])) /\ Unwinds(t, TRUE)
PreparationFails(t) == start[t].pc = "prep" /\ Unwinds(t, FALSE)
StartFails(t) == start[t].pc \in {"failing", "raised"} /\ Unwinds(t, FALSE)

\* The first turn of a promoted goal takes its item off the queue.
Started(st) ==
  IF st.why = "promote" THEN Acknowledged(svc, st.item) ELSE svc

\* checkpoint_ready: the monitor listens, and the engine may see the prompt.
Dispatches(t) ==
  LET st == start[t] IN
  /\ st.pc = "ready" /\ monitor[st.turn] = "setup"
  /\ ops' = Append(ops, [turn |-> st.turn, auto |-> Automatic(st), goal |-> Expected(st)])
  /\ svc' = Started(st)
  /\ start' = [start EXCEPT ![t] = NoStart]
  /\ monitor' = [u \in Turn |-> IF u = st.turn THEN "watch"
                                ELSE IF u = t THEN "done" ELSE monitor[u]]
  /\ watchdog' = [watchdog EXCEPT ![st.turn] = "armed"]
  /\ UNCHANGED <<meta, slot, lease, record, result, pending, events, cancel, eng, left, seen>>

SetupFails(t) ==
  LET u == start[t].turn IN
  /\ start[t].pc = "ready" /\ monitor[u] = "setup" /\ Fault("crash")
  /\ monitor' = [monitor EXCEPT ![u] = "done"]
  /\ record' = [record EXCEPT ![u] = "failed"]
  /\ start' = [start EXCEPT ![t].pc = "failing"]
  /\ UNCHANGED <<svc, meta, slot, lease, watchdog, result, queues, eng, seen>>

Starts(t) ==
  \/ Claims(t) \/ Refused(t) \/ Reserves(t) \/ ReservationFails(t) \/ GoalChanged(t)
  \/ PreparationFails(t) \/ StartFails(t) \/ Dispatches(t) \/ SetupFails(t)
-----------------------------------------------------------------------------
\* The engine: Engine.run and _handle_send_message.

Emit(kind) == events' = Append(events, kind)

\* A turn of an earlier goal, or from before the user's last word on it.
Superseded_ById == meta.id # Unset /\ meta.id # svc.goal.id
Superseded == meta.id # Unset /\ (meta.id # svc.goal.id \/ svc.touched)
\* _finish_goal_turn.  A goal that was completed makes room for the next item.
Finishes(outcome) ==
  IF Superseded
  THEN /\ meta' = [meta EXCEPT !.continue = @ \/ Continuable(svc)]
       /\ UNCHANGED <<svc, left, seen>>
  ELSE \E stalled \in IF eng.auto THEN BOOLEAN ELSE {FALSE} :
         LET ended == TurnEnded(svc, outcome, eng.auto, eng.worked, stalled)
             item == Consumed(ended) IN
         IF outcome # "completed"
         THEN /\ svc' = [ended EXCEPT !.promoted = None]
              /\ UNCHANGED <<meta, left, seen>>
         ELSE /\ seen' = [seen EXCEPT !.idle = Active(svc) /\ eng.auto /\ ~eng.worked]
              /\ IF item # None /\ left.goals > 0
                 THEN LET id == MaxGoals - left.goals + 1 IN
                      /\ svc' = Created([ended EXCEPT !.promoted = None], id, item)
                      /\ meta' = [meta EXCEPT !.promote = [item |-> item, goal |-> id]]
                      /\ left' = [left EXCEPT !.goals = @ - 1]
                 ELSE /\ svc' = [ended EXCEPT !.promoted = None]
                      /\ meta' = [meta EXCEPT !.continue = @ \/ Continuable(ended)]
                      /\ UNCHANGED left

Idle == eng.pc = "idle"
Inbox == IF pending # <<>> THEN pending ELSE ops
NextOp == Head(Inbox)
OutOfDate(op) ==
  (op.goal # None \/ op.auto)
  /\ ~(Continuable(svc) /\ op.goal \in {None, svc.goal.id})

\* The queue of deferred messages goes first.
PopsOp ==
  /\ Inbox # <<>>
  /\ IF pending # <<>> THEN pending' = Tail(pending) /\ UNCHANGED ops
     ELSE ops' = Tail(ops) /\ UNCHANGED pending

\* A turn begins by forgetting a cancellation; a continuation whose goal has
\* changed ends at once.
EngineTakes ==
  /\ Idle /\ PopsOp /\ NextOp # Stop
  /\ cancel' = FALSE
  /\ IF OutOfDate(NextOp) THEN Emit("cancelled") /\ UNCHANGED eng
     ELSE /\ eng' = [Rest EXCEPT !.pc = "prep", !.turn = NextOp.turn, !.auto = NextOp.auto]
          /\ UNCHANGED events
  /\ UNCHANGED <<svc, meta, host, left, seen>>
EngineIgnoresStop ==
  /\ Idle /\ pending = <<>> /\ ops # <<>> /\ Head(ops) = Stop
  /\ ops' = Tail(ops) /\ cancel' = TRUE
  /\ UNCHANGED <<svc, meta, host, pending, events, eng, left, seen>>

\* While a turn is live, messages are deferred and a stop cancels its task.
EngineDefers ==
  /\ ~Idle /\ ops # <<>> /\ Head(ops) # Stop
  /\ ops' = Tail(ops) /\ pending' = Append(pending, Head(ops))
  /\ UNCHANGED <<svc, meta, host, events, cancel, eng, left, seen>>
EngineStops ==
  /\ ~Idle /\ ops # <<>> /\ Head(ops) = Stop
  /\ ops' = Tail(ops) /\ cancel' = TRUE /\ eng' = [eng EXCEPT !.hard = TRUE]
  /\ UNCHANGED <<svc, meta, host, pending, events, left, seen>>

Live(pc) == eng.pc = pc /\ ~eng.hard

\* A hook refuses the prompt.
PromptBlocked ==
  /\ Live("prep") /\ ~eng.auto
  /\ svc' = IF Active(svc) THEN SetStatus(svc, "blocked", FALSE) ELSE svc
  /\ Emit("completed") /\ eng' = Rest
  /\ UNCHANGED <<meta, host, ops, pending, cancel, left, seen>>

ModelStarts ==
  /\ Live("prep")
  /\ LET begun == TurnStarted(svc) IN
     /\ svc' = [begun EXCEPT !.touched = FALSE]
     /\ meta' = [meta EXCEPT !.id = begun.goal.id]
     /\ seen' = [seen EXCEPT
          !.fresh = FALSE, !.idle = @ /\ eng.auto,
          !.begun = IF Active(begun) THEN (@ \cup {svc.goal.item}) \ {None} ELSE @]
  /\ eng' = [eng EXCEPT !.pc = "run"]
  /\ UNCHANGED <<host, queues, left>>

ModelWorks ==
  /\ Live("run") /\ eng.auto /\ ~eng.worked
  /\ eng' = [eng EXCEPT !.worked = TRUE]
  /\ UNCHANGED <<svc, meta, host, queues, left, seen>>

\* The clock of an active goal goes on between turns, where nobody looks at it.
TimeRunsOut ==
  /\ Active(svc) /\ svc.goal.limit # None /\ ~svc.goal.spent
  /\ svc' = [svc EXCEPT !.goal.spent = TRUE]
  /\ UNCHANGED <<meta, host, queues, eng, left, seen>>

\* Out of tokens or time; the deadline task may see it before the turn ends.
GoalSpends ==
  /\ Live("run") /\ Active(svc) /\ svc.goal.limit # None
  /\ svc' = BudgetChecked([svc EXCEPT !.goal.spent = TRUE], FALSE)
  /\ \/ cancel' = TRUE /\ ops' = Append(ops, Stop)
     \/ UNCHANGED <<cancel, ops>>
  /\ UNCHANGED <<meta, host, pending, events, eng, left, seen>>

\* The model's goal tools refuse when the goal is no longer the turn's.
ModelUpdatesGoal ==
  /\ Live("run") /\ ~Superseded /\ Active(svc)
  /\ svc' \in {Completed(svc), SetStatus(svc, "blocked", FALSE)}
  /\ UNCHANGED <<meta, host, queues, eng, left, seen>>
ModelCreatesGoal ==
  /\ Live("run") /\ ~Superseded /\ "create" \in Commands
  /\ left.goals > 0 /\ \E replace \in BOOLEAN : MayCreate(svc, None, replace)
  /\ LET id == MaxGoals - left.goals + 1 IN
     /\ svc' = Adopted([Created(svc, id, None) EXCEPT !.touched = FALSE])
     /\ meta' = [meta EXCEPT !.id = id]
  /\ left' = [left EXCEPT !.goals = @ - 1]
  /\ UNCHANGED <<host, queues, eng, seen>>

\* The terminal event is out before the goal is told of the end.
ModelEnds ==
  /\ Live("run")
  /\ \E outcome \in {"completed", "failed"} \cup (IF cancel THEN {"cancelled"} ELSE {}) :
       /\ Emit(outcome)
       /\ eng' = [eng EXCEPT !.pc = "told", !.outcome = outcome, !.turn = None]
  /\ UNCHANGED <<svc, meta, host, ops, pending, cancel, left, seen>>
TurnFinishes ==
  /\ Live("told")
  /\ Finishes(eng.outcome)
  /\ eng' = [Rest EXCEPT !.pc = "tail"]
  /\ UNCHANGED <<host, queues>>
EngineReturns ==
  /\ Live("tail") /\ eng' = Rest
  /\ UNCHANGED <<svc, meta, host, queues, left, seen>>

Thrown_Silent ==
  /\ eng.hard /\ eng' = Rest
  /\ UNCHANGED <<svc, meta, host, queues, left, seen>>
\* A stop that arrives while a task awaits, wherever that is, throws it out of
\* there; the handler announces the cancellation, even after another end, and
\* a second stop throws it out of the handler.
Thrown ==
  /\ eng.hard
  /\ IF eng.pc = "thrown" THEN eng' = Rest /\ UNCHANGED events
     ELSE Emit("cancelled") /\ eng' = [Rest EXCEPT !.pc = "thrown"]
  /\ UNCHANGED <<svc, meta, host, ops, pending, cancel, left, seen>>
ThrownFinishes ==
  /\ Live("thrown")
  /\ Finishes("cancelled")
  /\ eng' = Rest
  /\ UNCHANGED <<host, queues>>

\* Any other exception fails the goal's turn and ends in an ErrorEvent.
EngineFails ==
  /\ Live("prep") \/ Live("run")
  /\ Fault("error")
  /\ svc' = IF Superseded THEN svc
            ELSE [TurnEnded(svc, "failed", eng.auto, eng.worked, FALSE)
                    EXCEPT !.promoted = None]
  /\ meta' = [meta EXCEPT !.continue = @ \/ (Superseded /\ Continuable(svc))]
  /\ Emit("error") /\ eng' = Rest
  /\ UNCHANGED <<host, ops, pending, cancel, seen>>

Engine ==
  \/ EngineTakes \/ EngineIgnoresStop \/ EngineDefers \/ EngineStops
  \/ PromptBlocked \/ ModelStarts \/ ModelWorks \/ GoalSpends
  \/ ModelUpdatesGoal \/ ModelCreatesGoal \/ ModelEnds \/ TurnFinishes
  \/ EngineReturns \/ Thrown \/ ThrownFinishes \/ EngineFails
-----------------------------------------------------------------------------
\* The monitor of turn u: _monitor_turn_safe, _monitor_turn.

\* EngineHandle.cancel.
Cancels == cancel' = TRUE /\ ops' = Append(ops, Stop)

Outcome_Untranslated ==
  [completed |-> "completed", failed |-> "failed", cancelled |-> "cancelled",
   timeout |-> "failed", error |-> "failed"]
Outcome == [completed |-> "completed", failed |-> "failed",
            cancelled |-> "interrupted", timeout |-> "failed", error |-> "failed"]

\* An ErrorEvent is not the end of a turn, but it is a response, as a
\* completion is; a cancellation is not.
MonitorTakes(u) ==
  /\ monitor[u] = "watch" /\ events # <<>>
  /\ events' = Tail(events)
  /\ result' = [result EXCEPT ![u] = Outcome[Head(events)]]
  /\ monitor' = [monitor EXCEPT ![u] = IF Head(events) = "error" THEN "watch" ELSE "close"]
  /\ watchdog' = [watchdog EXCEPT ![u] =
       IF Head(events) \in {"cancelled", "timeout"} THEN @ ELSE "off"]
  /\ UNCHANGED <<svc, meta, slot, lease, record, start, ops, pending, cancel, eng, left, seen>>

\* No first response in time: the watchdog cancels the turn of the engine, and
\* if that is not answered by a response either, puts an event in the engine's
\* place.  It outlives a monitor that crashed, whose events it cannot see.
TimesOut(u) ==
  /\ watchdog[u] = "armed" /\ Fault("timeout")
  /\ Cancels
  /\ watchdog' = [watchdog EXCEPT ![u] = "fired"]
  /\ UNCHANGED <<svc, meta, slot, lease, record, monitor, result, start, pending, events, eng,
                 seen>>
IsAnswered(u) ==
  /\ watchdog[u] = "fired"
  /\ Emit("timeout") \/ (monitor[u] = "watch" /\ UNCHANGED events)
  /\ watchdog' = [watchdog EXCEPT ![u] = "off"]
  /\ UNCHANGED <<svc, meta, slot, lease, record, monitor, result, start, ops, pending, cancel,
                 eng, left, seen>>

MonitorCrashes(u) ==
  /\ monitor[u] = "watch" /\ Fault("crash")
  /\ monitor' = [monitor EXCEPT ![u] = "drain"]
  /\ UNCHANGED <<svc, meta, slot, lease, record, watchdog, result, start, queues, eng, seen>>
\* Here an ErrorEvent is an end, any cancellation an interruption, and the
\* user's own is not looked at; a turn whose record is closed is left alone.
Drained == [Outcome EXCEPT !.timeout = "interrupted"]
MonitorDrains(u) ==
  /\ monitor[u] = "drain" /\ events # <<>>
  /\ events' = Tail(events)
  /\ IF record[u] = "in_progress"
     THEN /\ record' = [record EXCEPT ![u] = Drained[Head(events)]]
          /\ monitor' = [monitor EXCEPT ![u] = "free_crashed"]
     ELSE monitor' = [monitor EXCEPT ![u] = "done"] /\ UNCHANGED record
  /\ UNCHANGED <<svc, meta, slot, lease, watchdog, result, start, ops, pending, cancel,
                 eng, left, seen>>
\* A monitor that raises after the end of its turn waits for another end; one
\* that raises while it recovers gives up.  The lease is let go of in a finally.
MonitorCrashesLate(u) ==
  /\ Fault("late")
  /\ \/ /\ monitor[u] \in {"close", "free", "release"}
        /\ monitor' = [monitor EXCEPT ![u] = "drain"] /\ UNCHANGED events
        /\ lease' = IF monitor[u] = "release" THEN None ELSE lease
     \/ /\ monitor[u] = "free_crashed" \/ (monitor[u] = "drain" /\ events # <<>>)
        /\ monitor' = [monitor EXCEPT ![u] = "done"] /\ UNCHANGED lease
        /\ events' = IF monitor[u] = "drain" THEN Tail(events) ELSE events
  /\ UNCHANGED <<svc, meta, slot, record, watchdog, result, start, ops, pending, cancel, eng, seen>>

\* _close_turn_record: the record, then the slot, then the lease.
MonitorCloses(u) ==
  /\ monitor[u] = "close"
  /\ record' = [record EXCEPT ![u] =
       IF slot = [turn |-> u, asked |-> TRUE] THEN "interrupted" ELSE result[u]]
  /\ result' = [result EXCEPT ![u] = "completed"]
  /\ monitor' = [monitor EXCEPT ![u] = "free"]
  /\ watchdog' = [watchdog EXCEPT ![u] = "off"]
  /\ UNCHANGED <<svc, meta, slot, lease, start, queues, eng, left, seen>>
MonitorFrees(u) ==
  /\ monitor[u] \in {"free", "free_crashed"}
  /\ slot' = IF slot.turn = u THEN Free ELSE slot
  /\ monitor' = [monitor EXCEPT ![u] = IF @ = "free" THEN "release" ELSE "release_crashed"]
  /\ UNCHANGED <<svc, meta, lease, record, watchdog, result, start, queues, eng, left, seen>>
MonitorReleases(u) ==
  /\ monitor[u] \in {"release", "release_crashed"}
  /\ lease' = None
  /\ monitor' = [monitor EXCEPT ![u] = IF @ = "release" THEN "next" ELSE "done"]
  /\ UNCHANGED <<svc, meta, slot, record, watchdog, result, start, queues, eng, left, seen>>

\* _maybe_continue_goal: the flags are taken unless a turn is live.
Promotes == meta.promote.goal # None
Following ==
  IF Promotes /\ svc.goal.id = meta.promote.goal
  THEN [NoStart EXCEPT !.why = "promote", !.goal = svc.goal.id, !.item = meta.promote.item]
  ELSE IF ~Promotes /\ meta.continue /\ Continuable(svc)
  THEN [NoStart EXCEPT !.why = "continue", !.goal = svc.goal.id]
  ELSE NoStart
Continues(u) ==
  /\ monitor[u] = "next"
  /\ meta' = IF Busy THEN meta
             ELSE [meta EXCEPT !.continue = FALSE, !.promote = NoPromotion]
  /\ IF Busy \/ Following = NoStart \/ Rejected
     THEN monitor' = [monitor EXCEPT ![u] = "done"] /\ UNCHANGED <<lease, start>>
     ELSE monitor' = [monitor EXCEPT ![u] = "starts"] /\ Launched(u, Following)
  /\ UNCHANGED <<svc, slot, record, watchdog, result, queues, eng, left, seen>>

\* What a monitor and its watchdog do by themselves.
Tends(u) ==
  \/ MonitorTakes(u) \/ IsAnswered(u) \/ MonitorDrains(u) \/ MonitorCloses(u)
  \/ MonitorFrees(u) \/ MonitorReleases(u) \/ Continues(u)
Monitors(u) ==
  \/ Tends(u) \/ TimesOut(u) \/ MonitorCrashes(u) \/ MonitorCrashesLate(u)
-----------------------------------------------------------------------------
\* The user: start_turn, interrupt_turn, compact_thread, apply_goal_command.

Commanded(kind) == kind \in Commands /\ left.commands > 0
Spent(goals, items) ==
  /\ left' = [left EXCEPT !.commands = @ - 1, !.goals = @ - goals,
                          !.items = IF items = 0 THEN @ ELSE Tail(@)]
  /\ seen' = [seen EXCEPT !.idle = FALSE]

NextGoal == MaxGoals - left.goals + 1
Starting(why, goal) == [NoStart EXCEPT !.why = why, !.goal = goal]

Message(c) ==
  /\ start[c].pc = "idle" /\ Commanded("message")
  /\ Launched(c, Starting("message", None)) /\ Spent(0, 0)
  /\ UNCHANGED <<svc, meta, slot, record, monitor, watchdog, result, queues, eng>>

\* A goal whose turn is rejected because another is live is kept for that one.
Founded(c, why) ==
  /\ left.goals > 0
  /\ svc' = Created(svc, NextGoal, None)
  /\ Launched(c, Starting(why, NextGoal))
  /\ Spent(1, 0)
  /\ UNCHANGED <<meta, slot, record, monitor, watchdog, result, queues, eng>>
GoalCreate(c) ==
  /\ start[c].pc = "idle" /\ Commanded("create")
  /\ \E replace \in BOOLEAN : MayCreate(svc, None, replace)
  /\ Founded(c, "create")

\* Queued behind an unfinished goal, or begun at once.
GoalNext(c) ==
  /\ start[c].pc = "idle" /\ Commanded("next")
  /\ \/ ~Unfinished(svc) /\ Founded(c, "next")
     \/ /\ Unfinished(svc) /\ left.items # <<>>
        /\ svc' = [svc EXCEPT !.queue = Append(@, Head(left.items))]
        /\ Spent(0, 1)
        /\ UNCHANGED <<meta, host, queues, eng>>

\* A live turn is left to go on with the goal; otherwise a turn is started, and
\* when that is rejected the goal is paused again.
Relaunches(c, after) ==
  LET st == Starting("resume", after.goal.id)
      opens == Continuable(after) /\ ~Busy IN
  /\ after.goal.id # svc.goal.id => left.goals > 0
  /\ IF opens THEN Launched(c, st) ELSE UNCHANGED <<lease, start>>
  /\ svc' = IF opens /\ Rejected THEN SetStatus(after, "paused", FALSE) ELSE after
  /\ left' = [left EXCEPT !.commands = @ - 1,
                          !.goals = IF after.goal.id = svc.goal.id THEN @ ELSE @ - 1]
  /\ seen' = [seen EXCEPT !.idle = FALSE, !.fresh = @ \/ (~Active(svc) /\ Active(svc'))]
  /\ UNCHANGED <<meta, slot, record, monitor, watchdog, result, queues, eng>>
GoalResume(c) ==
  /\ start[c].pc = "idle" /\ Commanded("resume") /\ MayResume(svc)
  /\ Relaunches(c, Resumed(svc, NextGoal))
GoalReopen(c) ==
  /\ start[c].pc = "idle" /\ Commanded("reopen") /\ svc.goal.status = "complete"
  /\ Relaunches(c, Reopened(svc, NextGoal))
\* resume_after_budget sets the budget and resumes in one request.
GoalBudget(c) ==
  /\ Commanded("budget") /\ svc.goal.status # "none"
  /\ \E limit \in Limits :
       \/ /\ svc' = BudgetSet(svc, limit) /\ Spent(0, 0)
          /\ UNCHANGED <<meta, host, queues, eng>>
       \/ /\ start[c].pc = "idle" /\ MayResume(BudgetSet(svc, limit))
          /\ Relaunches(c, Resumed(BudgetSet(svc, limit), NextGoal))

Interrupted ==
  IF Busy THEN Cancels /\ slot' = [slot EXCEPT !.asked = TRUE]
  ELSE UNCHANGED <<cancel, ops, slot>>
Interrupt ==
  /\ Busy /\ Commanded("interrupt") /\ Interrupted /\ Spent(0, 0)
  /\ UNCHANGED <<svc, meta, lease, record, monitor, watchdog, result, start, pending, events, eng>>
GoalPause ==
  /\ svc.goal.status \in {"active", "paused"} /\ Commanded("pause")
  /\ svc' = IF Active(svc) THEN SetStatus(svc, "paused", TRUE) ELSE svc
  /\ Interrupted /\ Spent(0, 0)
  /\ UNCHANGED <<meta, lease, record, monitor, watchdog, result, start, pending, events, eng>>
GoalCancel ==
  /\ svc.goal.status # "none" /\ Commanded("cancel")
  /\ svc' = Cleared(svc)
  /\ Interrupted /\ Spent(0, 0)
  /\ UNCHANGED <<meta, lease, record, monitor, watchdog, result, start, pending, events, eng>>

QueueChange ==
  /\ Commanded("queue")
  /\ \E n \in DOMAIN svc.queue :
       \/ svc' = [svc EXCEPT !.queue = RemoveAt(@, n)]
       \/ \E dest \in DOMAIN svc.queue : svc' = [svc EXCEPT !.queue = Moved(@, n, dest)]
  /\ Spent(0, 0)
  /\ UNCHANGED <<meta, host, queues, eng>>

\* Compaction is a turn without an engine's turn and without a monitor; nothing
\* continues a goal after it.
Compact(c) ==
  /\ start[c].pc = "idle" /\ Commanded("compact") /\ lease = None /\ Fresh # {}
  /\ lease' = c /\ slot' = [turn |-> NextTurn, asked |-> FALSE]
  /\ record' = [record EXCEPT ![NextTurn] = "in_progress"]
  /\ start' = [start EXCEPT ![c] = [NoStart EXCEPT !.pc = "compact", !.turn = NextTurn]]
  /\ Spent(0, 0)
  /\ UNCHANGED <<svc, meta, monitor, watchdog, result, queues, eng>>
Compacted(c) ==
  /\ start[c].pc = "compact"
  /\ record' = [record EXCEPT ![start[c].turn] = "completed"]
  /\ slot' = Free /\ lease' = None
  /\ start' = [start EXCEPT ![c] = NoStart]
  /\ UNCHANGED <<svc, meta, monitor, watchdog, result, queues, eng, left, seen>>
\* Whatever raises in it, its record stays as it is.
CompactionFails(c) ==
  /\ start[c].pc = "compact" /\ Fault("start")
  /\ slot' = Free /\ lease' = None
  /\ start' = [start EXCEPT ![c] = NoStart]
  /\ UNCHANGED <<svc, meta, record, monitor, watchdog, result, queues, eng, seen>>

User ==
  \/ \E c \in Client :
       \/ Message(c) \/ GoalCreate(c) \/ GoalNext(c) \/ GoalResume(c)
       \/ GoalReopen(c) \/ GoalBudget(c) \/ Compact(c)
  \/ Interrupt \/ GoalPause \/ GoalCancel \/ QueueChange

Next ==
  \/ \E t \in Task : Starts(t)
  \/ \E c \in Client : Compacted(c) \/ CompactionFails(c)
  \/ \E u \in Turn : Monitors(u)
  \/ Engine \/ TimeRunsOut \/ User

Spec == Init /\ [][Next]_vars
\* Tasks run, model requests and compactions end, by their timeouts if nothing
\* else; no fault is owed, nor anything by the user.
FairSpec ==
  /\ Spec
  /\ WF_vars(Engine)
  /\ \A t \in Task : WF_vars(Starts(t))
  /\ \A c \in Client : WF_vars(Compacted(c))
  /\ \A u \in Turn : WF_vars(Tends(u))
-----------------------------------------------------------------------------
\* The types of the variables.
Sends == [turn : Turn, auto : BOOLEAN, goal : 0..MaxGoals]
GoalIds == 0..MaxGoals
ItemIds == Range(Items) \cup {None}
TypeOK ==
  /\ svc \in [goal : [id : GoalIds, status : Status, turns : Nat, limit : Limits \cup {None},
                      spent : BOOLEAN, item : ItemIds],
              queue : Seq(Range(Items)), promoted : ItemIds,
              counted : BOOLEAN, touched : BOOLEAN]
  /\ meta \in [id : 0..Unset, continue : BOOLEAN,
               promote : [item : ItemIds, goal : GoalIds]]
  /\ slot \in [turn : Turn \cup {None}, asked : BOOLEAN]
  /\ lease \in Task \cup {None}
  /\ record \in [Turn -> {"none", "in_progress", "completed", "failed", "interrupted"}]
  /\ monitor \in [Turn -> {"none", "setup", "watch", "drain", "close", "free",
       "free_crashed", "release", "release_crashed", "next", "starts", "done"}]
  /\ watchdog \in [Turn -> {"off", "armed", "fired"}]
  /\ result \in [Turn -> {"completed", "failed", "interrupted"}]
  /\ start \in [Task ->
       [pc : {"idle", "wait", "prep", "ready", "raised", "failing", "compact"},
        why : Kinds \cup {"none", "promote", "continue"}, goal : GoalIds,
        item : ItemIds, turn : Turn \cup {None}]]
  /\ ops \in Seq(Sends \cup {Stop}) /\ pending \in Seq(Sends)
  /\ events \in Seq(DOMAIN Outcome) /\ cancel \in BOOLEAN
  /\ eng \in [pc : {"idle", "prep", "run", "told", "tail", "thrown"},
              turn : Turn \cup {None}, auto : BOOLEAN, hard : BOOLEAN,
              worked : BOOLEAN, outcome : {"completed", "failed", "cancelled"}]
  /\ left \in [goals : 0..MaxGoals, items : Seq(Range(Items)), commands : 0..MaxCommands,
              faults : 0..MaxFaults]
  /\ seen \in [fresh : BOOLEAN, idle : BOOLEAN, begun : SUBSET Range(Items)]

\* A turn whose monitor has begun has the slot of its thread until its record
\* is closed, and so has the turn of a start or compaction that is under way; the
\* lease is that turn's, or its starter's, whatever starts, failed starts,
\* crashes and compactions come between (threads/manager.py:3732: "any active
\* slot carrying this thread was reserved by this failed start attempt").  A turn
\* whose start raised before it had a monitor, or whose compaction raised, has
\* neither, and its record stays open.
TurnOwnsThread ==
  /\ \A u \in Turn : record[u] = "in_progress" /\ monitor[u] # "none" => slot.turn = u
  /\ \A t \in Task : start[t].turn # None => slot.turn = start[t].turn
  /\ Busy => lease = slot.turn \/ (lease # None /\ start[lease].turn = slot.turn)

\* A continuation that did no work is not followed by another before the user
\* has spoken (goal/service.py:699).
NoIdleLoop == seen.idle => ~(eng.auto /\ eng.pc = "run")

\* An item whose goal has begun a turn is off the queue and is not begun again,
\* however the queue was changed since.  A promotion takes its item off before the
\* engine sees the turn; the hard cases are goals that are resumed or replaced
\* while their item is still queued.
PromotedOnce ==
  /\ seen.begun \cap Range(svc.queue) = {}
  /\ svc.goal.item \notin seen.begun

\* The end of a turn that began before the user resumed the goal does not pause
\* it (docs/goal-mode.md: an old turn's cancellation must not undo a newer
\* resume), unless the thread has not had a turn yet.
UserResumeSticks ==
  [][seen.fresh /\ meta.id # Unset /\ Active(svc) /\ eng' # eng
       => svc'.goal.status # "paused"]_vars

\* Between turns, an active goal has turns left, however resumes, changes of
\* the budget and ends of turns follow one another (goal/service.py:797).
ActiveHasTurns == Active(svc) /\ ~svc.counted => ~TurnsReached(svc.goal)

\* Every turn whose monitor has begun is closed and every lease comes back: no
\* start, stop, timeout, failed setup, failed start or crash before the end of a
\* turn leaves a thread that refuses turns for ever.  This is not so with the
\* faults "late" and "error": a monitor that raises after the end of its turn
\* waits for another end, and an ErrorEvent is no end to it (ErrorsEndTurns).
TurnsSettle ==
  /\ \A u \in Turn : record[u] = "in_progress" /\ monitor[u] # "none"
                       ~> record[u] # "in_progress"
  /\ lease # None ~> lease = None

\* Stated by _finalize_turn_after_monitor_crash (threads/manager.py:5565), for
\* which an ErrorEvent is terminal: "Drain engine events until terminal so UI is
\* not stuck in_progress".
ErrorsEndTurns == \A u \in Turn : record[u] = "in_progress" ~> record[u] # "in_progress"
=============================================================================
