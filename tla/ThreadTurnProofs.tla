-------------------------- MODULE ThreadTurnProofs --------------------------
(***************************************************************************)
(* A turn whose monitor has begun owns its thread, and an active goal has  *)
(* turns left: proofs for any clients, bounds, faults, commands, items and *)
(* budgets.                                                                *)
(*                                                                         *)
(* A turn keeps the slot and the lease only if nobody else clears them.    *)
(* Failed starts, compactions and monitors all clear both without looking  *)
(* at whose they are, so that each must be shown to hold the lease when it *)
(* does: of a start that has reserved its turn, this needs that the setup  *)
(* of the turn's monitor is over only when the start has failed.  A turn   *)
(* without a monitor owns nothing but through the task that works on it.   *)
(*                                                                         *)
(* For the budget, each operator of the goal service that can leave a goal *)
(* active has looked at its turns, or counts one, or makes a new goal.     *)
(***************************************************************************)
EXTENDS ThreadTurns, TLAPS

Kind == {"completed", "failed", "cancelled", "timeout", "error"}
End == {"completed", "failed", "interrupted"}
StartPc == {"idle", "wait", "prep", "ready", "raised", "failing", "compact"}

\* A start is a record, and has no turn before it books one.
Whole(st) ==
  /\ st = [pc |-> st.pc, why |-> st.why, goal |-> st.goal, item |-> st.item,
           turn |-> st.turn]
  /\ st.pc \in {"idle", "wait", "prep"} => st.turn = None
Shape ==
  /\ slot \in [turn : Turn \cup {None}, asked : BOOLEAN]
  /\ lease \in Task \cup {None}
  /\ record \in [Turn -> End \cup {"none", "in_progress"}]
  /\ result \in [Turn -> End]
  /\ DOMAIN monitor = Turn /\ monitor = [u \in Turn |-> monitor[u]]
  /\ start = [t \in Task |-> start[t]]
  /\ \A t \in Task : Whole(start[t]) /\ start[t].pc \in StartPc
  /\ events \in Seq(Kind)

\* The monitor of turn u is at work on a turn that is its own, or has given the
\* slot back; a monitor that has crashed is at work until the turn is closed.
Held == {"setup", "watch", "close", "free", "free_crashed"}
Leaving == {"release", "release_crashed"}
Owner(u) == monitor[u] \in Held \/ (record[u] = "in_progress" /\ monitor[u] # "none")
Quiet(u) == ~Owner(u) /\ monitor[u] \notin Leaving
\* A start whose turn has a monitor, and a task that is alone with its turn.
Begun == {"ready", "failing"}
Alone == {"raised", "compact"}

\* Parts of the inductive invariant, of one task and of one turn.
PrepHolds(t) == start[t].pc = "prep" => lease = t /\ ~Busy
BegunHolds(t) ==
  start[t].pc \in Begun =>
    /\ start[t].turn \in Turn /\ lease = start[t].turn /\ slot.turn = start[t].turn
    /\ monitor[start[t].turn] = IF start[t].pc = "ready" THEN "setup" ELSE "done"
    /\ start[t].pc = "failing" => record[start[t].turn] # "in_progress"
    /\ record[start[t].turn] # "none"
AloneHolds(t) ==
  start[t].pc \in Alone =>
    /\ lease = t
    /\ start[t].turn \in Turn /\ slot.turn = start[t].turn
    /\ monitor[start[t].turn] = "none"
OneBegins(t) == \A v \in Task : start[t].pc \in Begun /\ start[v].pc \in Begun => v = t
MonitorStarts(u) == start[u].pc # "idle" => monitor[u] = "starts"
Begins(t) ==
  /\ PrepHolds(t) /\ BegunHolds(t) /\ AloneHolds(t) /\ OneBegins(t)

OwnerHolds(u) == Owner(u) => lease = u /\ slot.turn = u
LeavingHolds(u) == monitor[u] \in Leaving => lease = u /\ ~Busy
FreshIsUnwatched(u) == record[u] = "none" => monitor[u] = "none"
ClosedThenFreed(u) ==
  monitor[u] \in {"free", "free_crashed", "next", "starts"} \cup Leaving
    => record[u] # "in_progress"
Turning(u) ==
  /\ OwnerHolds(u) /\ LeavingHolds(u) /\ FreshIsUnwatched(u) /\ ClosedThenFreed(u)
  /\ MonitorStarts(u)

BusyIsHeld ==
  Busy => \/ lease = slot.turn
          \/ lease \in Task /\ start[lease].pc \in Alone /\ start[lease].turn = slot.turn

ThreadInv ==
  /\ Shape /\ BusyIsHeld
  /\ \A t \in Task : Begins(t)
  /\ \A u \in Turn : Turning(u)

-----------------------------------------------------------------------------
(* Constants, and what the helpers do.                                     *)

LEMMA Apart ==
  /\ None \notin Task /\ None \notin Turn /\ Client \cap Turn = {}
  /\ Turn \subseteq Task /\ Client \subseteq Task
BY Assumptions DEF Task, Turn, None

LEMMA FreshIsTurn ==
  ASSUME Fresh # {}
  PROVE  NextTurn \in Turn /\ record[NextTurn] = "none"
BY DEF NextTurn, Fresh

LEMMA OutcomeIsEnd == \A e \in Kind : Outcome[e] \in End /\ Drained[e] \in End
<1>1. \A e \in Kind : Outcome[e] \in End /\ e \in DOMAIN Outcome
  BY DEF Outcome, Kind, End
<1>2. \A e \in Kind : Drained[e] \in {Outcome[e], "interrupted"}
  BY <1>1 DEF Drained
<1> QED
  BY <1>1, <1>2 DEF End

LEMMA StartIsWhole ==
  ASSUME NEW why, NEW goal
  PROVE  /\ Whole(Starting(why, goal)) /\ Starting(why, goal).turn = None
         /\ Starting(why, goal).pc = "idle"
<1>1. NoStart \in [pc : {"idle"}, why : {"none", why}, goal : {None, goal},
                   item : {None}, turn : {None}]
  BY DEF NoStart
<1>2. Starting(why, goal) \in [pc : {"idle"}, why : {why}, goal : {goal},
                               item : {None}, turn : {None}]
  BY <1>1 DEF Starting
<1> QED
  BY <1>2 DEF Whole

\* One task's start has changed.
Changed(t, pc) ==
  /\ start' = [v \in Task |-> IF v = t THEN start'[t] ELSE start[v]]
  /\ Whole(start'[t]) /\ start'[t].pc = pc

LEMMA LaunchedChanges ==
  ASSUME Shape, NEW t \in Task, NEW st, Whole(st), st.turn = None, Launched(t, st)
  PROVE  \/ UNCHANGED <<lease, start>>
         \/ lease = None /\ lease' = t /\ Changed(t, "prep")
         \/ lease # None /\ UNCHANGED lease /\ Changed(t, "wait")
<1>1. ASSUME NEW pc, start' = [start EXCEPT ![t] = [st EXCEPT !.pc = pc]]
      PROVE  Changed(t, pc)
  <2>1. [st EXCEPT !.pc = pc] = [pc |-> pc, why |-> st.why, goal |-> st.goal,
                                 item |-> st.item, turn |-> st.turn]
    BY DEF Whole
  <2>2. start'[t] = [pc |-> pc, why |-> st.why, goal |-> st.goal,
                     item |-> st.item, turn |-> st.turn]
    BY <1>1, <2>1 DEF Shape
  <2>3. start' = [v \in Task |-> IF v = t THEN start'[t] ELSE start[v]]
    BY <1>1, <2>1, <2>2 DEF Shape
  <2> QED
    BY <2>2, <2>3 DEF Changed, Whole
<1> QED
  BY <1>1 DEF Launched

LEMMA ReturnedChanges ==
  ASSUME Shape, NEW t \in Task, start' = [start EXCEPT ![t] = NoStart]
  PROVE  Changed(t, "idle")
<1>1. start'[t] = NoStart
  BY DEF Shape
<1>2. start' = [v \in Task |-> IF v = t THEN start'[t] ELSE start[v]]
  BY <1>1 DEF Shape
<1> QED
  BY <1>1, <1>2 DEF Changed, Whole, NoStart

LEMMA ChangedKeepsShape ==
  ASSUME Shape, NEW t \in Task, NEW pc \in StartPc, Changed(t, pc)
  PROVE  /\ start' = [v \in Task |-> start'[v]]
         /\ \A v \in Task : Whole(start'[v]) /\ start'[v].pc \in StartPc
         /\ \A v \in Task \ {t} : start'[v] = start[v]
BY DEF Changed, Shape

-----------------------------------------------------------------------------
(* Steps that leave the turns and their owners alone.                      *)

LEMMA HostUnchanged ==
  ASSUME ThreadInv, UNCHANGED <<slot, lease, record, monitor, result, start>>,
         events' \in Seq(Kind)
  PROVE  ThreadInv'
<1>1. Shape'
  BY DEF ThreadInv, Shape
<1>2. BusyIsHeld'
  BY DEF ThreadInv, BusyIsHeld, Busy
<1>3. ASSUME NEW t \in Task
      PROVE  Begins(t)'
  BY DEF ThreadInv, Begins, PrepHolds, BegunHolds, AloneHolds, OneBegins, Busy
<1>4. ASSUME NEW u \in Turn
      PROVE  Turning(u)'
  BY DEF ThreadInv, Turning, OwnerHolds, Owner, LeavingHolds, FreshIsUnwatched,
         ClosedThenFreed, MonitorStarts, Busy
<1> QED
  BY <1>1, <1>2, <1>3, <1>4 DEF ThreadInv

LEMMA EmitKeeps ==
  ASSUME Shape, NEW kind \in Kind, Emit(kind)
  PROVE  events' \in Seq(Kind)
BY DEF Shape, Emit

LEMMA EngineKeeps ==
  ASSUME ThreadInv, Engine
  PROVE  ThreadInv'
<1>0. Shape /\ {"completed", "failed", "cancelled", "error"} \subseteq Kind
  BY DEF ThreadInv, Kind
<1>1. CASE EngineTakes
  BY <1>0, <1>1, EmitKeeps, HostUnchanged DEF host, EngineTakes, Shape
<1>2. CASE EngineIgnoresStop \/ EngineDefers \/ EngineStops
  BY <1>0, <1>2, HostUnchanged DEF host, EngineIgnoresStop, EngineDefers, EngineStops, Shape
<1>3. CASE PromptBlocked
  BY <1>0, <1>3, EmitKeeps, HostUnchanged DEF host, PromptBlocked
<1>4. CASE ModelStarts \/ ModelWorks \/ ModelUpdatesGoal \/ ModelCreatesGoal
  BY <1>0, <1>4, HostUnchanged
  DEF host, ModelStarts, ModelWorks, ModelUpdatesGoal, ModelCreatesGoal, queues, Shape
<1>5. CASE GoalSpends
  BY <1>0, <1>5, HostUnchanged DEF host, GoalSpends, Shape
<1>6. CASE ModelEnds
  BY <1>0, <1>6, EmitKeeps, HostUnchanged DEF host, ModelEnds
<1>7. CASE TurnFinishes \/ EngineReturns \/ ThrownFinishes
  BY <1>0, <1>7, HostUnchanged DEF host, TurnFinishes, EngineReturns, ThrownFinishes, queues, Shape
<1>8. CASE Thrown
  BY <1>0, <1>8, EmitKeeps, HostUnchanged DEF host, Thrown, Shape
<1>9. CASE EngineFails
  BY <1>0, <1>9, EmitKeeps, HostUnchanged DEF host, EngineFails
<1> QED
  BY <1>1, <1>2, <1>3, <1>4, <1>5, <1>6, <1>7, <1>8, <1>9 DEF Engine

-----------------------------------------------------------------------------
(* Who owns what, at the moments that matter.                              *)

\* While no turn has the lease, no monitor owns anything.
LEMMA FreeOrHeld ==
  ASSUME ThreadInv, lease \notin Turn
  PROVE  /\ \A u \in Turn : Quiet(u)
         /\ \A v \in Task : start[v].pc \notin Begun
BY DEF ThreadInv, Turning, OwnerHolds, LeavingHolds, Quiet, Begins, BegunHolds

LEMMA BusyIsLeased ==
  ASSUME ThreadInv, lease = None
  PROVE  ~Busy
BY Apart DEF ThreadInv, BusyIsHeld, Busy, Shape

-----------------------------------------------------------------------------
(* start_turn.                                                             *)

\* A start that takes a free lease, or waits for one.
LEMMA LaunchKeeps ==
  ASSUME ThreadInv, NEW t \in Task, UNCHANGED <<slot, record, result, events>>,
         monitor' = [u \in Turn |-> IF u = t THEN "starts" ELSE monitor[u]],
         start[t].pc \in {"idle", "wait"}, t \in Turn => monitor[t] \in {"next", "starts"},
         \/ lease = None /\ lease' = t /\ Changed(t, "prep")
         \/ lease # None /\ UNCHANGED lease /\ Changed(t, "wait")
  PROVE  ThreadInv'
<1>1. Shape'
  <2>1. Shape
    BY DEF ThreadInv
  <2> QED
    BY <2>1, ChangedKeepsShape DEF Shape, StartPc
<1>2. /\ \A v \in Task \ {t} : start'[v] = start[v]
      /\ start'[t].pc \in {"prep", "wait"} /\ (start'[t].pc = "prep" => lease' = t /\ lease = None)
      /\ lease' = lease \/ (lease = None /\ lease' = t)
  BY ChangedKeepsShape DEF ThreadInv, Shape, Changed, StartPc
<1>3. /\ lease = None => /\ ~Busy
                         /\ \A u \in Turn : Quiet(u)
                         /\ \A v \in Task : start[v].pc \notin Begun \cup Alone \cup {"prep"}
  BY Apart, FreeOrHeld, BusyIsLeased DEF ThreadInv, Begins, PrepHolds, AloneHolds
<1>4. BusyIsHeld'
  BY <1>2, <1>3, Apart DEF ThreadInv, BusyIsHeld, Busy, Alone
<1>5. ASSUME NEW v \in Task
      PROVE  Begins(v)'
  <2>1. PrepHolds(v)' /\ AloneHolds(v)'
    BY <1>2, <1>3, Apart DEF ThreadInv, Begins, PrepHolds, AloneHolds, Busy, Alone
  <2>2. BegunHolds(v)' /\ OneBegins(v)'
    BY <1>2, <1>3, Apart DEF ThreadInv, Begins, BegunHolds, OneBegins, Begun
  <2> QED
    BY <2>1, <2>2 DEF Begins
<1>6. ASSUME NEW u \in Turn
      PROVE  Turning(u)'
  <2>1. Turning(u) /\ (u = t => record[u] # "in_progress" /\ record[u] # "none")
    BY DEF ThreadInv, Turning, ClosedThenFreed, FreshIsUnwatched
  <2>2. lease = None => Quiet(u)
    BY <1>3
  <2>3. OwnerHolds(u)' /\ LeavingHolds(u)'
    BY <1>2, <2>1, <2>2
    DEF Turning, OwnerHolds, Owner, Quiet, LeavingHolds, Busy, Held, Leaving
  <2>4. FreshIsUnwatched(u)' /\ ClosedThenFreed(u)' /\ MonitorStarts(u)'
    BY <1>2, <2>1, Apart DEF Turning, FreshIsUnwatched, ClosedThenFreed, MonitorStarts
  <2> QED
    BY <2>3, <2>4 DEF Turning
<1> QED
  BY <1>1, <1>4, <1>5, <1>6 DEF ThreadInv

\* When the slot and the lease are cleared, nobody may be relying on them.
LEMMA QuietIsFine ==
  ASSUME Shape', ~Busy',
         \A v \in Task : start'[v].pc \notin Begun \cup Alone \cup {"prep"},
         \A u \in Turn : Quiet(u)' /\ FreshIsUnwatched(u)' /\ MonitorStarts(u)'
  PROVE  ThreadInv'
<1>1. BusyIsHeld'
  BY DEF BusyIsHeld
<1>2. \A t \in Task : Begins(t)'
  BY DEF Begins, PrepHolds, BegunHolds, AloneHolds, OneBegins
<1>3. \A u \in Turn : Turning(u)'
  BY DEF Turning, Quiet, Owner, OwnerHolds, LeavingHolds, ClosedThenFreed
<1> QED
  BY <1>1, <1>2, <1>3 DEF ThreadInv

\* A start that clears them is the only one that holds them.
LEMMA ClearerIsAlone ==
  ASSUME ThreadInv, NEW t \in Task, start[t].pc \in {"prep", "failing"} \cup Alone
  PROVE  /\ \A v \in Task \ {t} : start[v].pc \notin Begun \cup Alone \cup {"prep"}
         /\ \A u \in Turn : Quiet(u)
<1>1. CASE start[t].pc = "prep"
  <2>1. lease = t /\ ~Busy /\ (t \in Turn => monitor[t] = "starts")
    BY <1>1 DEF ThreadInv, Begins, PrepHolds, Turning, MonitorStarts
  <2>2. \A v \in Task \ {t} : start[v].pc \notin Begun \cup Alone \cup {"prep"}
    BY <2>1, Apart DEF ThreadInv, Begins, PrepHolds, BegunHolds, AloneHolds, Busy
  <2>3. \A u \in Turn : Quiet(u)
    BY <2>1, Apart DEF ThreadInv, Turning, OwnerHolds, LeavingHolds, Busy, Quiet, Leaving
  <2> QED
    BY <2>2, <2>3
<1>2. CASE start[t].pc = "failing"
  <2>1. /\ start[t].turn \in Turn /\ lease = start[t].turn /\ slot.turn = start[t].turn
        /\ monitor[start[t].turn] = "done" /\ record[start[t].turn] # "in_progress"
    BY <1>2 DEF ThreadInv, Begins, BegunHolds, Begun
  <2>2. \A v \in Task \ {t} : start[v].pc \notin Begun
    BY <1>2 DEF ThreadInv, Begins, OneBegins, Begun
  <2>3. \A v \in Task : start[v].pc \notin Alone \cup {"prep"}
    BY <2>1, Apart DEF ThreadInv, Begins, PrepHolds, AloneHolds, Busy
  <2>4. \A u \in Turn : Quiet(u)
    BY <2>1, Apart
    DEF ThreadInv, Turning, OwnerHolds, LeavingHolds, Busy, Quiet, Owner, Held, Leaving
  <2> QED
    BY <2>2, <2>3, <2>4
<1>3. CASE start[t].pc \in Alone
  <2>1. /\ lease = t /\ start[t].turn \in Turn
        /\ slot.turn = start[t].turn /\ monitor[start[t].turn] = "none"
    BY <1>3 DEF ThreadInv, Begins, AloneHolds
  <2>2. ASSUME NEW v \in Task \ {t}
        PROVE  start[v].pc \notin Begun \cup Alone \cup {"prep"}
    BY <2>1, Apart DEF ThreadInv, Begins, PrepHolds, BegunHolds, AloneHolds, Busy
  <2>3. \A u \in Turn : Quiet(u)
    BY <2>1, Apart
    DEF ThreadInv, Turning, OwnerHolds, LeavingHolds, Busy, Quiet, Owner, Held, Leaving
  <2> QED
    BY <2>2, <2>3
<1> QED
  BY <1>1, <1>2, <1>3

LEMMA FreeIsFree == Free \in [turn : Turn \cup {None}, asked : BOOLEAN] /\ Free.turn = None
BY DEF Free

LEMMA ReturnedMonitor ==
  ASSUME Shape, NEW t \in Task, Returned(t)
  PROVE  /\ Changed(t, "idle")
         /\ monitor' = [u \in Turn |-> IF u = t THEN "done" ELSE monitor[u]]
BY ReturnedChanges DEF Shape, Returned

LEMMA UnwindKeeps ==
  ASSUME ThreadInv, NEW t \in Task, NEW conflict \in BOOLEAN, Unwinds(t, conflict),
         start[t].pc \in {"prep", "failing", "raised"}
  PROVE  ThreadInv'
<1>1. Shape /\ Changed(t, "idle")
      /\ monitor' = [u \in Turn |-> IF u = t THEN "done" ELSE monitor[u]]
  BY ReturnedMonitor DEF ThreadInv, Unwinds
<1>2. /\ \A v \in Task \ {t} : start'[v] = start[v]
      /\ start' = [v \in Task |-> start'[v]] /\ start'[t].pc = "idle"
      /\ \A v \in Task : Whole(start'[v]) /\ start'[v].pc \in StartPc
  BY <1>1, ChangedKeepsShape DEF Changed, StartPc
<1>3. Shape' /\ ~Busy'
  BY <1>1, <1>2, FreeIsFree DEF Shape, Unwinds, queues, Busy
<1>4. \A v \in Task : start'[v].pc \notin Begun \cup Alone \cup {"prep"}
  BY <1>2, ClearerIsAlone DEF Begun, Alone
<1>5. ASSUME NEW u \in Turn
      PROVE  Quiet(u)' /\ FreshIsUnwatched(u)' /\ MonitorStarts(u)'
  <2>1. Quiet(u)
    BY ClearerIsAlone DEF Alone
  <2>2. FreshIsUnwatched(u) /\ MonitorStarts(u) /\ ClosedThenFreed(u)
    BY DEF ThreadInv, Turning
  <2>3. u = t => monitor[u] = "starts" /\ record[u] # "in_progress"
    BY <2>2 DEF MonitorStarts, ClosedThenFreed
  <2>4. UNCHANGED record
    BY DEF Unwinds
  <2>5. Quiet(u)' /\ FreshIsUnwatched(u)'
    BY <1>1, <2>1, <2>2, <2>3, <2>4 DEF Quiet, Owner, Held, Leaving, FreshIsUnwatched
  <2>6. MonitorStarts(u)'
    BY <1>1, <1>2, <2>2, Apart DEF MonitorStarts
  <2> QED
    BY <2>5, <2>6
<1> QED
  BY <1>3, <1>4, <1>5, QuietIsFine

LEMMA ClaimKeeps ==
  ASSUME ThreadInv, NEW t \in Task, Claims(t)
  PROVE  ThreadInv'
<1>1. start'[t] = [start[t] EXCEPT !.pc = "prep"] /\ Whole(start[t])
  BY DEF ThreadInv, Shape, Claims
<1>2. start'[t] = [pc |-> "prep", why |-> start[t].why, goal |-> start[t].goal,
                   item |-> start[t].item, turn |-> start[t].turn]
  BY <1>1 DEF Whole
<1>3. Changed(t, "prep")
  BY <1>2 DEF ThreadInv, Shape, Claims, Changed, Whole
<1>4. t \in Turn => monitor[t] = "starts"
  BY DEF ThreadInv, Turning, MonitorStarts, Claims
<1>5. monitor' = [u \in Turn |-> IF u = t THEN "starts" ELSE monitor[u]]
  BY <1>4 DEF ThreadInv, Shape, Claims
<1> QED
  BY <1>3, <1>4, <1>5, LaunchKeeps DEF Claims, queues

\* A refused start had neither slot nor lease.
LEMMA RefusalKeeps ==
  ASSUME ThreadInv, NEW t \in Task, Refused(t)
  PROVE  ThreadInv'
<1>1. Shape /\ Changed(t, "idle")
      /\ monitor' = [u \in Turn |-> IF u = t THEN "done" ELSE monitor[u]]
      /\ UNCHANGED <<slot, lease, record, result, events>> /\ start[t].pc = "wait"
  BY ReturnedMonitor DEF ThreadInv, Refused, queues
<1>2. /\ \A v \in Task \ {t} : start'[v] = start[v]
      /\ start' = [v \in Task |-> start'[v]] /\ start'[t].pc = "idle"
      /\ \A v \in Task : Whole(start'[v]) /\ start'[v].pc \in StartPc
  BY <1>1, ChangedKeepsShape DEF Changed, StartPc
<1>3. Shape'
  BY <1>1, <1>2 DEF Shape
<1>4. t \in Turn => monitor[t] = "starts"
  BY <1>1 DEF ThreadInv, Turning, MonitorStarts
<1>5. BusyIsHeld'
  BY <1>1, <1>2, Apart DEF ThreadInv, BusyIsHeld, Busy, Alone
<1>6. ASSUME NEW v \in Task
      PROVE  Begins(v)'
  <2>1. PrepHolds(v)' /\ OneBegins(v)'
    BY <1>1, <1>2 DEF ThreadInv, Begins, PrepHolds, OneBegins, Busy, Begun
  <2>2. BegunHolds(v)'
    BY <1>1, <1>2, <1>4, Apart DEF ThreadInv, Begins, BegunHolds, Begun
  <2>3. AloneHolds(v)'
    BY <1>1, <1>2, <1>4, Apart DEF ThreadInv, Begins, AloneHolds, Alone
  <2> QED
    BY <2>1, <2>2, <2>3 DEF Begins
<1>7. ASSUME NEW u \in Turn
      PROVE  Turning(u)'
  <2>1. Turning(u) /\ (u = t => monitor[u] = "starts" /\ record[u] # "in_progress")
    BY <1>4 DEF ThreadInv, Turning, ClosedThenFreed
  <2>2. OwnerHolds(u)' /\ LeavingHolds(u)' /\ FreshIsUnwatched(u)' /\ ClosedThenFreed(u)'
    BY <1>1, <2>1 DEF Turning, OwnerHolds, Owner, LeavingHolds, FreshIsUnwatched,
                      ClosedThenFreed, Held, Leaving, Busy
  <2>3. MonitorStarts(u)'
    BY <1>1, <1>2, <2>1, Apart DEF Turning, MonitorStarts
  <2> QED
    BY <2>2, <2>3 DEF Turning
<1> QED
  BY <1>3, <1>5, <1>6, <1>7 DEF ThreadInv

\* A turn is booked; with its monitor, the lease is the turn's and no longer that
\* of the task that prepared it.
LEMMA BookingKeeps ==
  ASSUME ThreadInv, NEW t \in Task, NEW pc \in {"ready", "raised"}, Booked(t, pc),
         UNCHANGED <<result, events>>,
         IF pc = "ready"
         THEN lease' = NextTurn /\ monitor' = [monitor EXCEPT ![NextTurn] = "setup"]
         ELSE UNCHANGED <<lease, monitor>>
  PROVE  ThreadInv'
<1> DEFINE u == NextTurn
<1>1. /\ Shape /\ u \in Turn /\ record[u] = "none" /\ monitor[u] = "none"
      /\ start[t].pc = "prep" /\ lease = t /\ ~Busy
  BY FreshIsTurn DEF Booked, ThreadInv, Begins, PrepHolds, Turning, FreshIsUnwatched
<1>2. /\ slot' = [turn |-> u, asked |-> FALSE]
      /\ lease' = IF pc = "ready" THEN u ELSE t
      /\ record' = [record EXCEPT ![u] = "in_progress"]
      /\ monitor' = IF pc = "ready" THEN [monitor EXCEPT ![u] = "setup"] ELSE monitor
      /\ start' = [start EXCEPT ![t] = [start[t] EXCEPT !.pc = pc, !.turn = u]]
  BY <1>1 DEF Booked
<1> HIDE DEF u
<1>3. start'[t] = [pc |-> pc, why |-> start[t].why, goal |-> start[t].goal,
                   item |-> start[t].item, turn |-> u]
  <2>1. start'[t] = [start[t] EXCEPT !.pc = pc, !.turn = u] /\ Whole(start[t])
    BY <1>1, <1>2 DEF Shape
  <2> QED
    BY <2>1 DEF Whole
<1>4. Changed(t, pc) /\ start'[t].pc = pc /\ start'[t].turn = u
  BY <1>1, <1>2, <1>3 DEF Shape, Changed, Whole
<1>5. /\ \A v \in Task \ {t} : start'[v] = start[v]
      /\ start' = [v \in Task |-> start'[v]]
      /\ \A v \in Task : Whole(start'[v]) /\ start'[v].pc \in StartPc
  BY <1>1, <1>4, ChangedKeepsShape DEF StartPc
<1>6. /\ \A v \in Task \ {t} : start[v].pc \notin Begun \cup Alone \cup {"prep"}
      /\ \A w \in Turn : Quiet(w)
  BY <1>1, ClearerIsAlone
<1>7. Shape'
  <2>1. slot' \in [turn : Turn \cup {None}, asked : BOOLEAN] /\ lease' \in Task \cup {None}
    BY <1>1, <1>2, Apart
  <2>2. record' \in [Turn -> End \cup {"none", "in_progress"}]
    BY <1>1, <1>2 DEF Shape
  <2>3. DOMAIN monitor' = Turn /\ monitor' = [w \in Turn |-> monitor'[w]]
    BY <1>1, <1>2 DEF Shape
  <2> QED
    BY <1>1, <1>2, <1>5, <2>1, <2>2, <2>3 DEF Shape
<1>8. BusyIsHeld'
  BY <1>2, <1>4 DEF BusyIsHeld, Alone
<1>9. /\ monitor'[u] = (IF pc = "ready" THEN "setup" ELSE "none")
      /\ record'[u] = "in_progress" /\ slot'.turn = u
      /\ \A w \in Turn : w # u => monitor'[w] = monitor[w] /\ record'[w] = record[w]
  BY <1>1, <1>2 DEF Shape
<1>10. ASSUME NEW v \in Task
       PROVE  Begins(v)'
  <2>1. CASE v = t
    BY <1>1, <1>2, <1>4, <1>5, <1>6, <1>9, <2>1
    DEF Begins, PrepHolds, BegunHolds, AloneHolds, OneBegins, Begun, Alone
  <2>2. CASE v # t
    BY <1>5, <1>6, <2>2 DEF Begins, PrepHolds, BegunHolds, AloneHolds, OneBegins
  <2> QED
    BY <2>1, <2>2
<1>11. ASSUME NEW w \in Turn
       PROVE  Turning(w)'
  <2>1. /\ Turning(w) /\ Quiet(w) /\ u # t
        /\ w = t => monitor[w] = "starts"
    BY <1>1, <1>6 DEF ThreadInv, Turning, MonitorStarts
  <2>2. CASE w = u
    BY <1>1, <1>2, <1>5, <1>9, <2>1, <2>2, Apart
    DEF Turning, OwnerHolds, Owner, LeavingHolds, FreshIsUnwatched, ClosedThenFreed,
        MonitorStarts, Held, Leaving
  <2>3. CASE w # u
    <3>1. OwnerHolds(w)' /\ LeavingHolds(w)' /\ FreshIsUnwatched(w)' /\ ClosedThenFreed(w)'
      BY <1>9, <2>1, <2>3
      DEF Turning, Quiet, OwnerHolds, Owner, LeavingHolds, FreshIsUnwatched, ClosedThenFreed
    <3>2. MonitorStarts(w)'
      BY <1>5, <1>9, <2>1, <2>3, Apart DEF Turning, MonitorStarts
    <3> QED
      BY <3>1, <3>2 DEF Turning
  <2> QED
    BY <2>2, <2>3
<1> QED
  BY <1>7, <1>8, <1>10, <1>11 DEF ThreadInv

\* A turn that is being set up is alone with its monitor.
LEMMA BegunIsAlone ==
  ASSUME ThreadInv, NEW t \in Task, start[t].pc \in Begun
  PROVE  /\ \A v \in Task \ {t} : start[v].pc \notin Begun
         /\ \A v \in Task : start[v].pc \notin Alone \cup {"prep"}
         /\ \A w \in Turn : w # start[t].turn => Quiet(w)
<1>1. /\ start[t].turn \in Turn /\ lease = start[t].turn /\ slot.turn = start[t].turn
      /\ monitor[start[t].turn] \in {"setup", "done"}
  BY DEF ThreadInv, Begins, BegunHolds
<1>2. \A v \in Task \ {t} : start[v].pc \notin Begun
  BY DEF ThreadInv, Begins, OneBegins
<1>3. \A v \in Task : start[v].pc \notin Alone \cup {"prep"}
  BY <1>1, Apart DEF ThreadInv, Begins, PrepHolds, AloneHolds, Busy
<1>4. \A w \in Turn : w # start[t].turn => Quiet(w)
  BY <1>1 DEF ThreadInv, Turning, OwnerHolds, LeavingHolds, Quiet
<1> QED
  BY <1>2, <1>3, <1>4

LEMMA DispatchKeeps ==
  ASSUME ThreadInv, NEW t \in Task, Dispatches(t)
  PROVE  ThreadInv'
<1> DEFINE u == start[t].turn
<1>1. /\ Shape /\ start[t].pc = "ready" /\ u \in Turn /\ lease = u /\ slot.turn = u
      /\ monitor[u] = "setup" /\ record[u] # "none"
  BY DEF Dispatches, ThreadInv, Begins, BegunHolds, Begun
<1>2. /\ monitor' = [w \in Turn |-> IF w = u THEN "watch"
                                   ELSE IF w = t THEN "done" ELSE monitor[w]]
      /\ Changed(t, "idle") /\ UNCHANGED <<slot, lease, record, result, events>>
  BY <1>1, ReturnedChanges DEF Dispatches
<1> HIDE DEF u
<1>3. /\ \A v \in Task \ {t} : start'[v] = start[v]
      /\ start' = [v \in Task |-> start'[v]] /\ start'[t].pc = "idle"
      /\ \A v \in Task : Whole(start'[v]) /\ start'[v].pc \in StartPc
  BY <1>1, <1>2, ChangedKeepsShape DEF Changed, StartPc
<1>4. /\ \A v \in Task : start'[v].pc \notin Begun \cup Alone \cup {"prep"}
      /\ \A w \in Turn : w # u => Quiet(w)
  BY <1>1, <1>3, BegunIsAlone DEF Begun, Alone, u
<1>5. Shape'
  BY <1>1, <1>2, <1>3 DEF Shape
<1>6. BusyIsHeld'
  BY <1>1, <1>2 DEF BusyIsHeld
<1>7. \A v \in Task : Begins(v)'
  BY <1>4 DEF Begins, PrepHolds, BegunHolds, AloneHolds, OneBegins
<1>8. ASSUME NEW w \in Turn
      PROVE  Turning(w)'
  <2>1. Turning(w) /\ u # t
    BY <1>1 DEF ThreadInv, Turning, MonitorStarts
  <2>2. w = t => monitor[w] = "starts" /\ record[w] # "in_progress"
    BY <1>1, <2>1 DEF Turning, MonitorStarts, ClosedThenFreed
  <2>3. OwnerHolds(w)' /\ LeavingHolds(w)' /\ FreshIsUnwatched(w)' /\ ClosedThenFreed(w)'
    BY <1>1, <1>2, <1>4, <2>1, <2>2
    DEF Turning, OwnerHolds, Owner, Quiet, LeavingHolds, FreshIsUnwatched, ClosedThenFreed,
        Held, Leaving
  <2>4. MonitorStarts(w)'
    BY <1>1, <1>2, <1>3, <2>1, Apart DEF Turning, MonitorStarts
  <2> QED
    BY <2>3, <2>4 DEF Turning
<1> QED
  BY <1>5, <1>6, <1>7, <1>8 DEF ThreadInv

LEMMA SetupFailureKeeps ==
  ASSUME ThreadInv, NEW t \in Task, SetupFails(t)
  PROVE  ThreadInv'
<1> DEFINE u == start[t].turn
<1>1. /\ Shape /\ start[t].pc = "ready" /\ u \in Turn /\ lease = u /\ slot.turn = u
      /\ monitor[u] = "setup" /\ record[u] # "none"
  BY DEF SetupFails, ThreadInv, Begins, BegunHolds, Begun
<1>2. /\ monitor' = [monitor EXCEPT ![u] = "done"]
      /\ record' = [record EXCEPT ![u] = "failed"]
      /\ start' = [start EXCEPT ![t] = [start[t] EXCEPT !.pc = "failing"]]
      /\ UNCHANGED <<slot, lease, result, events>>
  BY DEF SetupFails, queues
<1>3. start'[t] = [pc |-> "failing", why |-> start[t].why, goal |-> start[t].goal,
                   item |-> start[t].item, turn |-> u]
  <2>1. start'[t] = [start[t] EXCEPT !.pc = "failing"] /\ Whole(start[t])
    BY <1>1, <1>2 DEF Shape
  <2> QED
    BY <2>1 DEF Whole
<1> HIDE DEF u
<1>4. Changed(t, "failing") /\ start'[t].pc = "failing" /\ start'[t].turn = u
  <2>1. start'[t].pc = "failing" /\ start'[t].turn = u /\ Whole(start'[t])
    BY <1>3 DEF Whole
  <2>2. start' = [v \in Task |-> IF v = t THEN start'[t] ELSE start[v]]
    BY <1>1, <1>2 DEF Shape
  <2> QED
    BY <2>1, <2>2 DEF Changed
<1>5. /\ \A v \in Task \ {t} : start'[v] = start[v]
      /\ start' = [v \in Task |-> start'[v]]
      /\ \A v \in Task : Whole(start'[v]) /\ start'[v].pc \in StartPc
  BY <1>1, <1>4, ChangedKeepsShape DEF StartPc
<1>6. /\ \A v \in Task \ {t} : start[v].pc \notin Begun \cup Alone \cup {"prep"}
      /\ \A w \in Turn : w # u => Quiet(w)
  BY <1>1, BegunIsAlone DEF Begun, u
<1>7. /\ monitor'[u] = "done" /\ record'[u] = "failed"
      /\ \A w \in Turn : w # u => monitor'[w] = monitor[w] /\ record'[w] = record[w]
  BY <1>1, <1>2 DEF Shape
<1>8. Shape'
  <2>1. record' \in [Turn -> End \cup {"none", "in_progress"}]
    BY <1>1, <1>2 DEF Shape, End
  <2>2. DOMAIN monitor' = Turn /\ monitor' = [w \in Turn |-> monitor'[w]]
    BY <1>1, <1>2 DEF Shape
  <2> QED
    BY <1>1, <1>2, <1>5, <2>1, <2>2 DEF Shape
<1>9. BusyIsHeld'
  BY <1>1, <1>2 DEF BusyIsHeld
<1>10. ASSUME NEW v \in Task
       PROVE  Begins(v)'
  BY <1>1, <1>2, <1>4, <1>5, <1>6, <1>7
  DEF Begins, PrepHolds, BegunHolds, AloneHolds, OneBegins, Begun, Alone
<1>11. ASSUME NEW w \in Turn
       PROVE  Turning(w)'
  <2>1. Turning(w) /\ u # t /\ start[u].pc = "idle"
    BY <1>1, Apart DEF ThreadInv, Turning, MonitorStarts
  <2>2. OwnerHolds(w)' /\ LeavingHolds(w)' /\ FreshIsUnwatched(w)' /\ ClosedThenFreed(w)'
    BY <1>1, <1>2, <1>6, <1>7, <2>1
    DEF Turning, OwnerHolds, Owner, Quiet, LeavingHolds, FreshIsUnwatched, ClosedThenFreed,
        Held, Leaving
  <2>3. MonitorStarts(w)'
    BY <1>1, <1>4, <1>5, <1>7, <2>1, Apart DEF Turning, MonitorStarts
  <2> QED
    BY <2>2, <2>3 DEF Turning
<1> QED
  BY <1>8, <1>9, <1>10, <1>11 DEF ThreadInv

LEMMA StartsKeep ==
  ASSUME ThreadInv, NEW t \in Task, Starts(t)
  PROVE  ThreadInv'
<1>1. CASE Reserves(t) \/ ReservationFails(t)
  BY <1>1, BookingKeeps DEF Reserves, ReservationFails, queues
<1>2. CASE GoalChanged(t) \/ PreparationFails(t) \/ StartFails(t)
  BY <1>2, UnwindKeeps DEF GoalChanged, PreparationFails, StartFails
<1> QED
  BY <1>1, <1>2, ClaimKeeps, RefusalKeeps, DispatchKeeps, SetupFailureKeeps DEF Starts

-----------------------------------------------------------------------------
(* The monitors.                                                           *)

\* A monitor at work is alone with its turn.
LEMMA OwnerIsAlone ==
  ASSUME ThreadInv, NEW u \in Turn, Owner(u), monitor[u] # "setup"
  PROVE  /\ lease = u /\ slot.turn = u /\ record[u] # "none" /\ start[u].pc = "idle"
         /\ \A v \in Task : start[v].pc \notin Begun \cup Alone \cup {"prep"}
         /\ \A w \in Turn \ {u} : Quiet(w)
<1>1. /\ lease = u /\ slot.turn = u /\ record[u] # "none" /\ start[u].pc = "idle"
      /\ monitor[u] # "none"
  BY Apart
  DEF ThreadInv, Turning, OwnerHolds, Owner, FreshIsUnwatched, ClosedThenFreed,
      MonitorStarts, Held
<1>2. \A v \in Task : start[v].pc \notin Begun
  BY <1>1 DEF ThreadInv, Begins, BegunHolds, Begun, Owner, Held
<1>3. \A v \in Task : start[v].pc \notin Alone \cup {"prep"}
  BY <1>1, Apart DEF ThreadInv, Begins, PrepHolds, AloneHolds, Busy
<1>4. \A w \in Turn \ {u} : Quiet(w)
  BY <1>1 DEF ThreadInv, Turning, OwnerHolds, LeavingHolds, Quiet
<1> QED
  BY <1>1, <1>2, <1>3, <1>4

\* It goes on with the turn, whose record may end, gives up the slot last, or
\* raises and leaves everything as it is.
LEMMA OwnerKeeps ==
  ASSUME ThreadInv, NEW u \in Turn, Owner(u), monitor[u] # "setup",
         NEW pc \in Held \cup Leaving \cup {"drain", "done"},
         monitor' = [monitor EXCEPT ![u] = pc],
         record' = record \/ \E e \in End : record' = [record EXCEPT ![u] = e],
         result' \in [Turn -> End], events' \in Seq(Kind),
         pc \notin Leaving => slot' = slot,
         pc \in {"free", "free_crashed"} => record'[u] # "in_progress",
         pc \in Leaving => slot' = Free /\ record'[u] # "in_progress",
         UNCHANGED <<lease, start>>
  PROVE  ThreadInv'
<1>0. Shape
  BY DEF ThreadInv
<1>1. /\ monitor'[u] = pc /\ record'[u] # "none"
      /\ \A w \in Turn : w # u => monitor'[w] = monitor[w] /\ record'[w] = record[w]
  <2>1. record[u] # "none"
    BY OwnerIsAlone
  <2>2. CASE record' = record
    BY <1>0, <2>1, <2>2 DEF Shape
  <2>3. CASE \E e \in End : record' = [record EXCEPT ![u] = e]
    BY <1>0, <2>3 DEF Shape, End
  <2> QED
    BY <2>2, <2>3
<1>2. Shape'
  <2>1. record' \in [Turn -> End \cup {"none", "in_progress"}]
    BY <1>0 DEF Shape
  <2>2. DOMAIN monitor' = Turn /\ monitor' = [w \in Turn |-> monitor'[w]]
    BY <1>0 DEF Shape
  <2>3. slot' \in [turn : Turn \cup {None}, asked : BOOLEAN]
    BY <1>0, FreeIsFree DEF Shape
  <2> QED
    BY <1>0, <2>1, <2>2, <2>3 DEF Shape
<1>3. BusyIsHeld'
  BY OwnerIsAlone, FreeIsFree DEF BusyIsHeld, Busy
<1>4. \A v \in Task : Begins(v)'
  BY OwnerIsAlone DEF Begins, PrepHolds, BegunHolds, AloneHolds, OneBegins, Busy
<1>5. ASSUME NEW w \in Turn
      PROVE  Turning(w)'
  <2>1. Turning(w)
    BY DEF ThreadInv
  <2>2. CASE w = u
    BY <1>1, <2>2, OwnerIsAlone, FreeIsFree
    DEF Turning, OwnerHolds, Owner, LeavingHolds, FreshIsUnwatched, ClosedThenFreed,
        MonitorStarts, Held, Leaving, Busy
  <2>3. CASE w # u
    BY <1>1, <2>1, <2>3, OwnerIsAlone
    DEF Turning, Quiet, OwnerHolds, Owner, LeavingHolds, FreshIsUnwatched,
        ClosedThenFreed, MonitorStarts
  <2> QED
    BY <2>2, <2>3
<1> QED
  BY <1>2, <1>3, <1>4, <1>5 DEF ThreadInv

\* A monitor that no longer counts on the slot and the lease goes its way, and
\* may give back the lease that it still had.
LEMMA QuietKeeps ==
  ASSUME ThreadInv, NEW u \in Turn, monitor[u] \in Leaving \cup {"drain"},
         record[u] # "in_progress",
         lease' = IF monitor[u] \in Leaving THEN None ELSE lease,
         NEW pc \in {"next", "drain", "done"}, monitor' = [monitor EXCEPT ![u] = pc],
         UNCHANGED <<slot, record, result, start>>, events' \in Seq(Kind)
  PROVE  ThreadInv'
<1>1. /\ Shape /\ record[u] # "none" /\ start[u].pc = "idle"
      /\ monitor[u] \in Leaving => lease = u /\ ~Busy
  BY DEF ThreadInv, Turning, FreshIsUnwatched, MonitorStarts, LeavingHolds, Leaving
<1>2. /\ monitor'[u] = pc /\ \A w \in Turn : w # u => monitor'[w] = monitor[w]
      /\ DOMAIN monitor' = Turn /\ monitor' = [w \in Turn |-> monitor'[w]]
  BY <1>1 DEF Shape
<1>3. Shape' /\ BusyIsHeld'
  BY <1>1, <1>2 DEF ThreadInv, Shape, BusyIsHeld, Busy
<1>4. ASSUME NEW v \in Task
      PROVE  Begins(v)'
  <2>1. Begins(v) /\ \A x \in Task : OneBegins(x)
    BY DEF ThreadInv, Begins
  <2>2. PrepHolds(v)' /\ AloneHolds(v)'
    BY <1>1, <1>2, <2>1, Apart DEF Begins, PrepHolds, AloneHolds, Busy, Leaving
  <2>3. BegunHolds(v)' /\ OneBegins(v)'
    BY <1>1, <1>2, <2>1, Apart DEF Begins, BegunHolds, OneBegins, Begun, Busy, Leaving
  <2> QED
    BY <2>2, <2>3 DEF Begins
<1>5. ASSUME NEW w \in Turn
      PROVE  Turning(w)'
  <2>1. Turning(w)
    BY DEF ThreadInv
  <2>2. OwnerHolds(w)' /\ LeavingHolds(w)'
    BY <1>1, <1>2, <2>1, Apart
    DEF Turning, OwnerHolds, Owner, LeavingHolds, Busy, Held, Leaving
  <2>3. FreshIsUnwatched(w)' /\ ClosedThenFreed(w)' /\ MonitorStarts(w)'
    BY <1>1, <1>2, <2>1 DEF Turning, FreshIsUnwatched, ClosedThenFreed, MonitorStarts
  <2> QED
    BY <2>2, <2>3 DEF Turning
<1> QED
  BY <1>3, <1>4, <1>5 DEF ThreadInv

\* The next end of a turn, taken from the queue.
LEMMA EventTaken ==
  ASSUME Shape, events # <<>>
  PROVE  /\ Outcome[Head(events)] \in End /\ Drained[Head(events)] \in End
         /\ Tail(events) \in Seq(Kind)
<1>1. Head(events) \in Kind /\ Tail(events) \in Seq(Kind)
  BY DEF Shape
<1> QED
  BY <1>1, OutcomeIsEnd

LEMMA MonitorListens ==
  ASSUME ThreadInv, NEW u \in Turn, MonitorTakes(u)
  PROVE  ThreadInv'
<1>1. /\ Shape /\ Owner(u) /\ monitor[u] = "watch" /\ {"watch", "close"} \subseteq Held
      /\ {"watch", "close"} \cap Leaving = {}
  BY DEF ThreadInv, MonitorTakes, Owner, Held, Leaving
<1>2. events' \in Seq(Kind) /\ result' \in [Turn -> End]
  BY <1>1, EventTaken DEF Shape, MonitorTakes
<1>3. PICK pc \in {"watch", "close"} : monitor' = [monitor EXCEPT ![u] = pc]
  BY DEF MonitorTakes
<1> QED
  BY <1>1, <1>2, <1>3, OwnerKeeps DEF MonitorTakes

LEMMA MonitorRecovers ==
  ASSUME ThreadInv, NEW u \in Turn, MonitorDrains(u)
  PROVE  ThreadInv'
<1>1. /\ Shape /\ monitor[u] = "drain" /\ UNCHANGED <<slot, lease, result, start>>
      /\ result \in [Turn -> End] /\ "drain" \notin Leaving
      /\ "free_crashed" \in Held /\ "free_crashed" \notin Leaving
  BY DEF ThreadInv, MonitorDrains, Shape, Held, Leaving
<1>2. Drained[Head(events)] \in End /\ events' \in Seq(Kind)
  BY <1>1, EventTaken DEF MonitorDrains
<1>3. CASE record[u] = "in_progress"
  <2>1. /\ record' = [record EXCEPT ![u] = Drained[Head(events)]]
        /\ monitor' = [monitor EXCEPT ![u] = "free_crashed"] /\ Owner(u)
    BY <1>1, <1>3 DEF MonitorDrains, Owner
  <2>2. record'[u] # "in_progress"
    BY <1>1, <1>2, <2>1 DEF Shape, End
  <2> QED
    BY <1>1, <1>2, <2>1, <2>2, OwnerKeeps
<1>4. CASE record[u] # "in_progress"
  BY <1>1, <1>2, <1>4, QuietKeeps DEF MonitorDrains
<1> QED
  BY <1>3, <1>4

\* A monitor that raises, wherever it is, leaves its turn as it is.
LEMMA CrashKeeps ==
  ASSUME ThreadInv, NEW u \in Turn, MonitorCrashes(u) \/ MonitorCrashesLate(u)
  PROVE  ThreadInv'
<1>1. /\ Shape /\ UNCHANGED <<slot, record, result, start>> /\ result \in [Turn -> End]
      /\ {"drain", "done"} \cap (Leaving \cup {"free", "free_crashed"}) = {}
      /\ {"watch", "close", "free", "free_crashed"} \subseteq Held
      /\ "release" \in Leaving
      /\ {"watch", "close", "free", "free_crashed", "drain"} \cap Leaving = {}
  BY DEF ThreadInv, MonitorCrashes, MonitorCrashesLate, Shape, Leaving, Held
<1>2. events' \in Seq(Kind)
  BY <1>1, EventTaken DEF Shape, MonitorCrashes, MonitorCrashesLate, queues
<1>3. PICK pc \in {"drain", "done"} : monitor' = [monitor EXCEPT ![u] = pc]
  BY DEF MonitorCrashes, MonitorCrashesLate
<1>4. CASE monitor[u] \in {"watch", "close", "free", "free_crashed"}
  <2>1. Owner(u) /\ UNCHANGED lease
    BY <1>1, <1>4 DEF Owner, MonitorCrashes, MonitorCrashesLate
  <2> QED
    BY <1>1, <1>2, <1>3, <1>4, <2>1, OwnerKeeps
<1>5. CASE monitor[u] = "drain" /\ record[u] = "in_progress"
  <2>1. Owner(u) /\ UNCHANGED lease
    BY <1>1, <1>5 DEF Owner, MonitorCrashes, MonitorCrashesLate
  <2> QED
    BY <1>1, <1>2, <1>3, <1>5, <2>1, OwnerKeeps
<1>6. CASE monitor[u] = "release" \/ (monitor[u] = "drain" /\ record[u] # "in_progress")
  <2>1. record[u] # "in_progress"
    BY <1>1, <1>6 DEF ThreadInv, Turning, ClosedThenFreed
  <2>2. lease' = IF monitor[u] \in Leaving THEN None ELSE lease
    BY <1>1, <1>6 DEF MonitorCrashes, MonitorCrashesLate
  <2> QED
    BY <1>1, <1>2, <1>3, <1>6, <2>1, <2>2, QuietKeeps
<1> QED
  BY <1>4, <1>5, <1>6 DEF MonitorCrashes, MonitorCrashesLate

\* A watchdog talks to the engine only.
LEMMA WatchdogKeeps ==
  ASSUME ThreadInv, NEW u \in Turn, TimesOut(u) \/ IsAnswered(u)
  PROVE  ThreadInv'
<1>1. Shape /\ "timeout" \in Kind
  BY DEF ThreadInv, Kind
<1>2. events' \in Seq(Kind)
  BY <1>1, EmitKeeps DEF Shape, TimesOut, IsAnswered
<1> QED
  BY <1>2, HostUnchanged DEF TimesOut, IsAnswered

LEMMA MonitorEnds ==
  ASSUME ThreadInv, NEW u \in Turn, MonitorCloses(u)
  PROVE  ThreadInv'
<1>0. /\ Shape /\ Owner(u) /\ "free" \in Held /\ "free" \notin Leaving
      /\ {"completed", "interrupted"} \subseteq End
  BY DEF ThreadInv, MonitorCloses, Owner, Held, Leaving, End
<1>1. result' \in [Turn -> End] /\ result[u] \in End
  BY <1>0 DEF MonitorCloses, Shape
<1>2. \E e \in End : record' = [record EXCEPT ![u] = e]
  BY <1>0, <1>1 DEF MonitorCloses
<1>3. /\ monitor[u] # "setup" /\ monitor' = [monitor EXCEPT ![u] = "free"]
      /\ UNCHANGED <<slot, lease, start>> /\ events' \in Seq(Kind)
      /\ record'[u] # "in_progress"
  BY <1>0, <1>2 DEF MonitorCloses, Shape, queues, End
<1> QED
  BY <1>0, <1>1, <1>2, <1>3, OwnerKeeps

LEMMA MonitorLeaves ==
  ASSUME ThreadInv, NEW u \in Turn, MonitorFrees(u)
  PROVE  ThreadInv'
<1>0. /\ Shape /\ Owner(u) /\ monitor[u] # "setup"
      /\ {"release", "release_crashed"} = Leaving
      /\ Leaving \cap {"free", "free_crashed"} = {}
  BY DEF ThreadInv, MonitorFrees, Owner, Held, Leaving
<1>1. monitor[u] \in {"free", "free_crashed"} /\ record[u] # "in_progress" /\ slot.turn = u
  BY <1>0, OwnerIsAlone DEF MonitorFrees, ThreadInv, Turning, ClosedThenFreed
<1>2. slot' = Free /\ UNCHANGED <<lease, record, result, start, events>>
  BY <1>1 DEF MonitorFrees, queues
<1>3. PICK pc \in Leaving : monitor' = [monitor EXCEPT ![u] = pc]
  BY <1>0, <1>1 DEF MonitorFrees
<1> QED
  BY <1>0, <1>1, <1>2, <1>3, OwnerKeeps DEF Shape

LEMMA MonitorGivesBack ==
  ASSUME ThreadInv, NEW u \in Turn, MonitorReleases(u)
  PROVE  ThreadInv'
<1>1. /\ Shape /\ monitor[u] \in Leaving /\ record[u] # "in_progress" /\ lease' = None
      /\ UNCHANGED <<slot, record, result, start>> /\ events' \in Seq(Kind)
  BY DEF MonitorReleases, ThreadInv, Turning, ClosedThenFreed, Leaving, queues, Shape
<1>2. PICK pc \in {"next", "done"} : monitor' = [monitor EXCEPT ![u] = pc]
  BY DEF MonitorReleases
<1> QED
  BY <1>1, <1>2, QuietKeeps

LEMMA FollowingIsWhole == Whole(Following) /\ Following.turn = None
<1> DEFINE Whys == {"none", "promote", "continue"}
           Values == {svc.goal.id, meta.promote.item, None}
<1>1. NoStart \in [pc : {"idle"}, why : Whys, goal : Values, item : Values, turn : {None}]
  BY DEF NoStart
<1>2. Following \in [pc : {"idle"}, why : Whys, goal : Values, item : Values, turn : {None}]
  BY <1>1 DEF Following
<1> HIDE DEF Whys, Values
<1> QED
  BY <1>2 DEF Whole

\* A monitor that is done may launch the next turn of the goal.
LEMMA ContinuationKeeps ==
  ASSUME ThreadInv, NEW u \in Turn, Continues(u)
  PROVE  ThreadInv'
<1>1. /\ Shape /\ monitor[u] = "next" /\ start[u].pc = "idle"
      /\ record[u] \notin {"none", "in_progress"}
      /\ u \in Task /\ UNCHANGED <<slot, record, result, events>>
  BY Apart
  DEF Continues, ThreadInv, Turning, MonitorStarts, FreshIsUnwatched, ClosedThenFreed, queues
<1>2. ASSUME NEW pc \in {"done", "starts"}, monitor' = [monitor EXCEPT ![u] = pc],
             UNCHANGED <<lease, start>>
      PROVE  ThreadInv'
  <2>1. /\ monitor'[u] = pc /\ \A w \in Turn : w # u => monitor'[w] = monitor[w]
        /\ DOMAIN monitor' = Turn /\ monitor' = [w \in Turn |-> monitor'[w]]
    BY <1>1, <1>2 DEF Shape
  <2>2. Shape' /\ BusyIsHeld'
    BY <1>1, <1>2, <2>1 DEF ThreadInv, Shape, BusyIsHeld, Busy
  <2>3. ASSUME NEW v \in Task
        PROVE  Begins(v)'
    BY <1>1, <1>2, <2>1
    DEF ThreadInv, Begins, PrepHolds, BegunHolds, AloneHolds, OneBegins, Begun, Busy
  <2>4. ASSUME NEW w \in Turn
        PROVE  Turning(w)'
    BY <1>1, <1>2, <2>1
    DEF ThreadInv, Turning, OwnerHolds, Owner, LeavingHolds, FreshIsUnwatched,
        ClosedThenFreed, MonitorStarts, Held, Leaving, Busy
  <2> QED
    BY <2>2, <2>3, <2>4 DEF ThreadInv
<1>3. CASE Launched(u, Following) /\ monitor' = [monitor EXCEPT ![u] = "starts"]
  <2>1. monitor' = [w \in Turn |-> IF w = u THEN "starts" ELSE monitor[w]]
    BY <1>1, <1>3 DEF Shape
  <2>2. CASE UNCHANGED <<lease, start>>
    BY <1>2, <1>3, <2>2
  <2>3. CASE \/ lease = None /\ lease' = u /\ Changed(u, "prep")
             \/ lease # None /\ UNCHANGED lease /\ Changed(u, "wait")
    BY <1>1, <2>1, <2>3, LaunchKeeps
  <2> QED
    BY <1>1, <1>3, <2>2, <2>3, LaunchedChanges, FollowingIsWhole
<1> QED
  BY <1>2, <1>3 DEF Continues

LEMMA MonitorsKeep ==
  ASSUME ThreadInv, NEW u \in Turn, Monitors(u)
  PROVE  ThreadInv'
BY MonitorListens, MonitorRecovers, CrashKeeps, WatchdogKeeps, MonitorEnds, MonitorLeaves,
   MonitorGivesBack, ContinuationKeeps
DEF Monitors, Tends

-----------------------------------------------------------------------------
(* Compactions and the user's commands.                                    *)

LEMMA CompactKeeps ==
  ASSUME ThreadInv, NEW c \in Client, Compact(c)
  PROVE  ThreadInv'
<1> DEFINE u == NextTurn
<1>1. /\ Shape /\ u \in Turn /\ record[u] = "none" /\ monitor[u] = "none" /\ c \in Task
      /\ start[c].pc = "idle" /\ lease = None /\ ~Busy
  BY FreshIsTurn, BusyIsLeased, Apart DEF Compact, ThreadInv, Turning, FreshIsUnwatched
<1>2. /\ slot' = [turn |-> u, asked |-> FALSE] /\ lease' = c
      /\ record' = [record EXCEPT ![u] = "in_progress"]
      /\ start' = [start EXCEPT ![c] = [NoStart EXCEPT !.pc = "compact", !.turn = u]]
      /\ UNCHANGED <<monitor, result, events>>
  BY DEF Compact, queues
<1> HIDE DEF u
<1>3. /\ \A v \in Task : start[v].pc \notin Begun \cup Alone \cup {"prep"}
      /\ \A w \in Turn : Quiet(w)
  BY <1>1, FreeOrHeld, Apart DEF ThreadInv, Begins, PrepHolds, AloneHolds
<1>4. start'[c] = [pc |-> "compact", why |-> "none", goal |-> None, item |-> None, turn |-> u]
  <2>1. NoStart \in [pc : {"idle"}, why : {"none"}, goal : {None}, item : {None}, turn : {None}]
    BY DEF NoStart
  <2>2. [NoStart EXCEPT !.pc = "compact", !.turn = u]
          \in [pc : {"compact"}, why : {"none"}, goal : {None}, item : {None}, turn : {u}]
    BY <2>1
  <2>3. start'[c] = [NoStart EXCEPT !.pc = "compact", !.turn = u]
    BY <1>1, <1>2 DEF Shape
  <2> QED
    BY <2>2, <2>3
<1>5. Changed(c, "compact")
  BY <1>1, <1>2, <1>4, ZenonT(40) DEF Shape, Changed, Whole
<1>6. /\ \A v \in Task \ {c} : start'[v] = start[v]
      /\ start' = [v \in Task |-> start'[v]]
      /\ \A v \in Task : Whole(start'[v]) /\ start'[v].pc \in StartPc
  BY <1>1, <1>5, ChangedKeepsShape DEF StartPc
<1>7. /\ record'[u] = "in_progress" /\ slot'.turn = u
      /\ \A w \in Turn : w # u => record'[w] = record[w]
  BY <1>1, <1>2 DEF Shape
<1>8. Shape'
  <2>1. record' \in [Turn -> End \cup {"none", "in_progress"}]
    BY <1>1, <1>2 DEF Shape
  <2>2. slot' \in [turn : Turn \cup {None}, asked : BOOLEAN] /\ lease' \in Task \cup {None}
    BY <1>1, <1>2
  <2> QED
    BY <1>1, <1>2, <1>6, <2>1, <2>2 DEF Shape
<1>9. BusyIsHeld'
  BY <1>1, <1>2, <1>4, <1>7 DEF BusyIsHeld, Alone
<1>10. ASSUME NEW v \in Task
       PROVE  Begins(v)'
  <2>1. CASE v = c
    BY <1>1, <1>2, <1>4, <1>7, <2>1
    DEF Begins, PrepHolds, BegunHolds, AloneHolds, OneBegins, Begun
  <2>2. CASE v # c
    BY <1>3, <1>6, <2>2 DEF Begins, PrepHolds, BegunHolds, AloneHolds, OneBegins
  <2> QED
    BY <2>1, <2>2
<1>11. ASSUME NEW w \in Turn
       PROVE  Turning(w)'
  <2>1. Turning(w) /\ Quiet(w) /\ monitor'[w] = monitor[w] /\ w # c
    BY <1>1, <1>2, <1>3, Apart DEF ThreadInv
  <2>2. start'[w] = start[w]
    BY <1>6, <2>1, Apart
  <2>3. (w = u => monitor[w] = "none") /\ (w # u => record'[w] = record[w])
    BY <1>1, <1>7
  <2>4. OwnerHolds(w)' /\ LeavingHolds(w)' /\ FreshIsUnwatched(w)' /\ ClosedThenFreed(w)'
    BY <1>7, <2>1, <2>3
    DEF Turning, Quiet, OwnerHolds, Owner, LeavingHolds, FreshIsUnwatched, ClosedThenFreed,
        Held, Leaving
  <2>5. MonitorStarts(w)'
    BY <2>1, <2>2 DEF Turning, MonitorStarts
  <2> QED
    BY <2>4, <2>5 DEF Turning
<1> QED
  BY <1>8, <1>9, <1>10, <1>11 DEF ThreadInv

LEMMA CompactionEnds ==
  ASSUME ThreadInv, NEW c \in Client, Compacted(c) \/ CompactionFails(c)
  PROVE  ThreadInv'
<1> DEFINE u == start[c].turn
<1>1. /\ Shape /\ c \in Task /\ c \notin Turn /\ start[c].pc = "compact" /\ u \in Turn
      /\ monitor[u] = "none"
  BY Apart DEF ThreadInv, Begins, AloneHolds, Alone, Compacted, CompactionFails
<1>2. /\ slot' = Free /\ lease' = None /\ UNCHANGED <<monitor, result, events>>
      /\ record' = [record EXCEPT ![u] = "completed"] \/ UNCHANGED record
      /\ Changed(c, "idle")
  BY <1>1, ReturnedChanges DEF Compacted, CompactionFails, queues
<1>3. /\ \A v \in Task \ {c} : start[v].pc \notin Begun \cup Alone \cup {"prep"}
      /\ \A w \in Turn : Quiet(w)
  BY <1>1, ClearerIsAlone DEF Alone
<1> HIDE DEF u
<1>4. /\ \A v \in Task \ {c} : start'[v] = start[v]
      /\ start' = [v \in Task |-> start'[v]] /\ start'[c].pc = "idle"
      /\ \A v \in Task : Whole(start'[v]) /\ start'[v].pc \in StartPc
  BY <1>1, <1>2, ChangedKeepsShape DEF Changed, StartPc
<1>5. \A w \in Turn : w # u => record'[w] = record[w]
  BY <1>1, <1>2 DEF Shape
<1>6. Shape' /\ ~Busy'
  <2>1. record' \in [Turn -> End \cup {"none", "in_progress"}]
    BY <1>1, <1>2 DEF Shape, End
  <2> QED
    BY <1>1, <1>2, <1>4, <2>1, FreeIsFree DEF Shape, Busy
<1>7. \A v \in Task : start'[v].pc \notin Begun \cup Alone \cup {"prep"}
  BY <1>3, <1>4 DEF Begun, Alone
<1>8. ASSUME NEW w \in Turn
      PROVE  Quiet(w)' /\ FreshIsUnwatched(w)' /\ MonitorStarts(w)'
  <2>1. Quiet(w) /\ Turning(w) /\ monitor'[w] = monitor[w] /\ start'[w] = start[w]
    BY <1>1, <1>2, <1>3, <1>4, Apart DEF ThreadInv
  <2> QED
    BY <1>1, <1>5, <2>1
    DEF Turning, Quiet, Owner, FreshIsUnwatched, MonitorStarts, Held, Leaving
<1> QED
  BY <1>6, <1>7, <1>8, QuietIsFine

\* The user launches a turn, or not.
LEMMA UserLaunchKeeps ==
  ASSUME ThreadInv, NEW c \in Client, NEW why, NEW goal, start[c].pc = "idle",
         Launched(c, Starting(why, goal)),
         UNCHANGED <<slot, record, monitor, result, queues>>
  PROVE  ThreadInv'
<1>1. Shape /\ c \in Task /\ c \notin Turn
  BY Apart DEF ThreadInv
<1>2. CASE UNCHANGED <<lease, start>>
  BY <1>1, <1>2, HostUnchanged DEF queues, Shape
<1>3. CASE \/ lease = None /\ lease' = c /\ Changed(c, "prep")
           \/ lease # None /\ UNCHANGED lease /\ Changed(c, "wait")
  <2>1. monitor' = [u \in Turn |-> IF u = c THEN "starts" ELSE monitor[u]]
    BY <1>1 DEF Shape
  <2> QED
    BY <1>1, <1>3, <2>1, LaunchKeeps DEF queues
<1> QED
  BY <1>1, <1>2, <1>3, LaunchedChanges, StartIsWhole

LEMMA RelaunchKeeps ==
  ASSUME ThreadInv, NEW c \in Client, NEW after, start[c].pc = "idle", Relaunches(c, after)
  PROVE  ThreadInv'
<1>1. UNCHANGED <<slot, record, monitor, result, queues>>
  BY DEF Relaunches
<1>2. CASE UNCHANGED <<lease, start>>
  BY <1>1, <1>2, HostUnchanged DEF ThreadInv, Shape, queues
<1>3. CASE Launched(c, Starting("resume", after.goal.id))
  BY <1>1, <1>3, UserLaunchKeeps
<1> QED
  BY <1>2, <1>3 DEF Relaunches

\* An interrupt marks the slot of the turn.
LEMMA InterruptKeeps ==
  ASSUME ThreadInv, Interrupted, UNCHANGED <<lease, record, monitor, result, start, events>>
  PROVE  ThreadInv'
<1>1. Shape /\ slot' \in [turn : Turn \cup {None}, asked : BOOLEAN] /\ slot'.turn = slot.turn
  BY DEF ThreadInv, Shape, Interrupted
<1>2. Shape'
  BY <1>1 DEF Shape
<1>3. BusyIsHeld'
  BY <1>1 DEF ThreadInv, BusyIsHeld, Busy
<1>4. ASSUME NEW t \in Task
      PROVE  Begins(t)'
  BY <1>1 DEF ThreadInv, Begins, PrepHolds, BegunHolds, AloneHolds, OneBegins, Busy
<1>5. ASSUME NEW u \in Turn
      PROVE  Turning(u)'
  BY <1>1 DEF ThreadInv, Turning, OwnerHolds, Owner, LeavingHolds, FreshIsUnwatched,
     ClosedThenFreed, MonitorStarts, Busy
<1> QED
  BY <1>2, <1>3, <1>4, <1>5 DEF ThreadInv

LEMMA UserKeeps ==
  ASSUME ThreadInv, User
  PROVE  ThreadInv'
<1>0. Shape
  BY DEF ThreadInv
<1>1. ASSUME NEW c \in Client, Message(c)
      PROVE  ThreadInv'
  BY <1>1, UserLaunchKeeps DEF Message
<1>2. ASSUME NEW c \in Client, GoalCreate(c) \/ GoalNext(c)
      PROVE  ThreadInv'
  BY <1>0, <1>2, UserLaunchKeeps, HostUnchanged
  DEF GoalCreate, GoalNext, Founded, host, queues, Shape
<1>3. ASSUME NEW c \in Client, GoalResume(c) \/ GoalReopen(c)
      PROVE  ThreadInv'
  BY <1>3, RelaunchKeeps DEF GoalResume, GoalReopen
<1>4. ASSUME NEW c \in Client, GoalBudget(c)
      PROVE  ThreadInv'
  BY <1>0, <1>4, RelaunchKeeps, HostUnchanged DEF GoalBudget, host, queues, Shape
<1>5. ASSUME NEW c \in Client, Compact(c)
      PROVE  ThreadInv'
  BY <1>5, CompactKeeps
<1>6. CASE Interrupt \/ GoalPause \/ GoalCancel
  BY <1>6, InterruptKeeps DEF Interrupt, GoalPause, GoalCancel
<1>7. CASE QueueChange
  BY <1>0, <1>7, HostUnchanged DEF QueueChange, host, queues, Shape
<1> QED
  BY <1>1, <1>2, <1>3, <1>4, <1>5, <1>6, <1>7 DEF User

-----------------------------------------------------------------------------
LEMMA InitIsFine ==
  ASSUME Init
  PROVE  ThreadInv
<1>1. /\ slot = Free /\ lease = None /\ events = <<>>
      /\ record = [t \in Turn |-> "none"] /\ monitor = [t \in Turn |-> "none"]
      /\ result = [t \in Turn |-> "completed"] /\ start = [t \in Task |-> NoStart]
  BY DEF Init
<1>2. Whole(NoStart) /\ NoStart.pc = "idle"
  BY DEF Whole, NoStart
<1>3. Shape /\ ~Busy
  BY <1>1, <1>2, FreeIsFree DEF Shape, Busy, End, StartPc
<1>4. BusyIsHeld
  BY <1>3 DEF BusyIsHeld
<1>5. \A t \in Task : Begins(t)
  BY <1>1, <1>2 DEF Begins, PrepHolds, BegunHolds, AloneHolds, OneBegins, Begun, Alone
<1>6. \A u \in Turn : Turning(u)
  BY <1>1, <1>2, Apart
  DEF Turning, OwnerHolds, Owner, LeavingHolds, FreshIsUnwatched, ClosedThenFreed,
      MonitorStarts, Held, Leaving
<1> QED
  BY <1>3, <1>4, <1>5, <1>6 DEF ThreadInv

\* The invariant of the thread is kept by its starts, monitors, engine and user.
THEOREM ThreadInvHolds == Spec => []ThreadInv
<1>1. ASSUME ThreadInv, [Next]_vars
      PROVE  ThreadInv'
  <2>1. CASE \E c \in Client : Compacted(c) \/ CompactionFails(c)
    BY <1>1, <2>1, CompactionEnds
  <2>2. CASE TimeRunsOut \/ UNCHANGED vars
    BY <1>1, <2>2, HostUnchanged DEF ThreadInv, Shape, TimeRunsOut, vars, host, queues
  <2> QED
    BY <1>1, <2>1, <2>2, StartsKeep, MonitorsKeep, EngineKeeps, UserKeeps DEF Next
<1> QED
  BY <1>1, InitIsFine, PTL DEF Spec

\* A turn whose monitor has begun has the slot of its thread until its record is
\* closed, and so has the turn of a start or compaction that is under way, with
\* the lease for the turn or for the task that works on it: whatever starts,
\* failures of starts, setups and compactions, timeouts, interrupts and crashes
\* of monitors come between.
THEOREM OpenTurnOwnsThread == Spec => []TurnOwnsThread
<1>1. ASSUME ThreadInv
      PROVE  TurnOwnsThread
  <2>1. \A u \in Turn : record[u] = "in_progress" /\ monitor[u] # "none" => slot.turn = u
    BY <1>1 DEF ThreadInv, Turning, OwnerHolds, Owner
  <2>2. \A t \in Task : start[t].turn # None => slot.turn = start[t].turn
    BY <1>1
    DEF ThreadInv, Shape, Whole, StartPc, Begins, BegunHolds, AloneHolds, Begun, Alone
  <2>3. Busy => lease = slot.turn \/ (lease # None /\ start[lease].turn = slot.turn)
    BY <1>1, Apart DEF ThreadInv, BusyIsHeld
  <2> QED
    BY <2>1, <2>2, <2>3 DEF TurnOwnsThread
<1> QED
  BY <1>1, ThreadInvHolds, PTL

-----------------------------------------------------------------------------
(* The budget of turns.                                                    *)

WholeGoal(g) == g = [id |-> g.id, status |-> g.status, turns |-> g.turns, limit |-> g.limit,
                     spent |-> g.spent, item |-> g.item]
HasTurns(g, counted) == g.status = "active" /\ ~counted => ~TurnsReached(g)
WholeService(s) ==
  /\ s \in [goal : {s.goal}, queue : {s.queue}, promoted : {s.promoted},
            counted : BOOLEAN, touched : BOOLEAN]
  /\ WholeGoal(s.goal)
\* Until the live turn is counted there is one left; a turn that is counted may be the
\* last, and its end looks at the budget again.
Sound(s) == WholeService(s) /\ HasTurns(s.goal, s.counted)

-----------------------------------------------------------------------------
(* What the fields and the operators of the service do to it.              *)

LEMMA StatusSet ==
  ASSUME NEW s, WholeService(s), NEW status, NEW byUser \in BOOLEAN,
         NEW r, r = SetStatus(s, status, byUser)
  PROVE  WholeService(r) /\ r.goal.status = status /\ r.counted = s.counted
<1> DEFINE g == [s.goal EXCEPT !.status = status]
<1>1. WholeGoal(g) /\ g.status = status
  BY DEF WholeService, WholeGoal
<1>2. r \in [goal : {g}, queue : {s.queue}, promoted : {s.promoted},
             counted : BOOLEAN, touched : BOOLEAN] /\ r.counted = s.counted
  BY DEF SetStatus, WholeService
<1> HIDE DEF g
<1> QED
  BY <1>1, <1>2 DEF WholeService

LEMMA QueueSet ==
  ASSUME NEW s, WholeService(s), NEW x, NEW r, r = [s EXCEPT !.queue = x]
  PROVE  WholeService(r) /\ r.goal = s.goal /\ r.counted = s.counted
BY DEF WholeService

LEMMA PromotedSet ==
  ASSUME NEW s, WholeService(s), NEW x, NEW r, r = [s EXCEPT !.promoted = x]
  PROVE  WholeService(r) /\ r.goal = s.goal /\ r.counted = s.counted
BY DEF WholeService

LEMMA TouchedSet ==
  ASSUME NEW s, WholeService(s), NEW x \in BOOLEAN, NEW r, r = [s EXCEPT !.touched = x]
  PROVE  WholeService(r) /\ r.goal = s.goal /\ r.counted = s.counted
BY DEF WholeService

LEMMA CountedSet ==
  ASSUME NEW s, WholeService(s), NEW x \in BOOLEAN, NEW r, r = [s EXCEPT !.counted = x]
  PROVE  WholeService(r) /\ r.goal = s.goal /\ r.counted = x
BY DEF WholeService

LEMMA GoalSet ==
  ASSUME NEW s, WholeService(s), NEW g, WholeGoal(g), NEW r, r = [s EXCEPT !.goal = g]
  PROVE  WholeService(r) /\ r.goal = g /\ r.counted = s.counted
BY DEF WholeService

LEMMA GoalFieldsSet ==
  ASSUME NEW g, WholeGoal(g), NEW x
  PROVE  /\ WholeGoal([g EXCEPT !.limit = x]) /\ [g EXCEPT !.limit = x].status = g.status
         /\ WholeGoal([g EXCEPT !.spent = x]) /\ [g EXCEPT !.spent = x].status = g.status
         /\ [g EXCEPT !.spent = x].limit = g.limit /\ [g EXCEPT !.spent = x].turns = g.turns
         /\ WholeGoal([g EXCEPT !.item = x]) /\ [g EXCEPT !.item = x].status = g.status
         /\ [g EXCEPT !.item = x].limit = g.limit /\ [g EXCEPT !.item = x].turns = g.turns
         /\ WholeGoal([g EXCEPT !.turns = x])
BY DEF WholeGoal

LEMMA NoGoalIsWhole == WholeGoal(NoGoal) /\ NoGoal.status = "none" /\ NoGoal.limit = None
BY DEF WholeGoal, NoGoal

LEMMA ClearedSound ==
  ASSUME NEW s, WholeService(s), NEW r, r = Cleared(s)
  PROVE  Sound(r)
<1>1. r \in [goal : {NoGoal}, queue : {s.queue}, promoted : {None},
             counted : BOOLEAN, touched : BOOLEAN]
  BY DEF Cleared, WholeService
<1> QED
  BY <1>1, NoGoalIsWhole DEF Sound, WholeService, HasTurns

LEMMA CreatedSound ==
  ASSUME NEW s, WholeService(s), NEW id, NEW item, NEW r, r = Created(s, id, item)
  PROVE  Sound(r)
<1> DEFINE g == [NoGoal EXCEPT !.id = id, !.status = "active", !.item = item]
<1>1. WholeGoal(g) /\ g.limit = None
  <2>1. NoGoal \in [id : {None}, status : {"none"}, turns : {0}, limit : {None},
                    spent : BOOLEAN, item : {None}]
    BY DEF NoGoal
  <2>2. g \in [id : {id}, status : {"active"}, turns : {0}, limit : {None},
               spent : BOOLEAN, item : {item}]
    BY <2>1
  <2> HIDE DEF g
  <2> QED
    BY <2>2 DEF WholeGoal
<1>2. r \in [goal : {g}, queue : {s.queue}, promoted : {None},
             counted : BOOLEAN, touched : BOOLEAN]
  BY DEF Created, WholeService
<1> HIDE DEF g
<1> QED
  BY <1>1, <1>2 DEF Sound, WholeService, HasTurns, TurnsReached

LEMMA BudgetChecks ==
  ASSUME NEW s, WholeService(s), NEW withTurns \in BOOLEAN, NEW r, r = BudgetChecked(s, withTurns)
  PROVE  /\ WholeService(r) /\ r.counted = s.counted
         /\ r.goal.status = "active" => r = s /\ (withTurns => ~TurnsReached(s.goal))
<1>1. CASE r = s /\ ~(Active(s) /\ withTurns /\ TurnsReached(s.goal))
  BY <1>1 DEF Active
<1>2. CASE r = SetStatus(s, "budget_limited", FALSE)
  <2>1. PICK b \in BOOLEAN, x \in {"budget_limited"} : r = SetStatus(s, x, b)
    BY <1>2
  <2>2. WholeService(r) /\ r.goal.status = x /\ r.counted = s.counted
    BY <2>1, StatusSet
  <2> QED
    BY <2>2
<1> QED
  BY <1>1, <1>2 DEF BudgetChecked

LEMMA BudgetSetSound ==
  ASSUME NEW s, WholeService(s), NEW limit, NEW r, r = BudgetSet(s, limit)
  PROVE  Sound(r)
<1> DEFINE g == [[s.goal EXCEPT !.limit = limit] EXCEPT !.spent = FALSE]
           q == [s EXCEPT !.goal.limit = limit, !.goal.spent = FALSE]
<1>1. WholeService([s EXCEPT !.goal = g]) /\ [s EXCEPT !.goal = g].counted = s.counted
  BY GoalSet, GoalFieldsSet DEF WholeService
<1>2. q = [s EXCEPT !.goal = g]
  BY DEF WholeService, WholeGoal
<1>3. (~s.counted) \in BOOLEAN /\ r = BudgetChecked(q, ~s.counted)
  BY DEF BudgetSet
<1> HIDE DEF q, g
<1>4. /\ WholeService(r) /\ r.counted = s.counted
      /\ r.goal.status = "active" => r = q /\ (~s.counted => ~TurnsReached(q.goal))
  BY <1>1, <1>2, <1>3, BudgetChecks
<1> QED
  BY <1>4 DEF Sound, HasTurns

LEMMA StatusSound ==
  ASSUME NEW s, WholeService(s), NEW status, status # "active", NEW byUser \in BOOLEAN,
         NEW r, r = SetStatus(s, status, byUser)
  PROVE  Sound(r)
BY StatusSet DEF Sound, HasTurns

LEMMA ResumedSound ==
  ASSUME NEW s, Sound(s), NEW id, NEW r, r = Resumed(s, id)
  PROVE  Sound(r)
<1>1. CASE r = Created(s, id, Head(s.queue))
  BY <1>1, CreatedSound DEF Sound
<1>2. CASE r = s
  BY <1>2
<1>3. CASE r = BudgetChecked(SetStatus(s, "active", TRUE), TRUE)
  <2> DEFINE q == SetStatus(s, "active", TRUE)
  <2>1. TRUE \in BOOLEAN
    OBVIOUS
  <2>2. WholeService(q)
    BY <2>1, StatusSet DEF Sound
  <2> HIDE DEF q
  <2>3. WholeService(r) /\ (r.goal.status = "active" => r = q /\ ~TurnsReached(q.goal))
    BY <1>3, <2>1, <2>2, BudgetChecks DEF q
  <2> QED
    BY <2>3 DEF Sound, HasTurns
<1> QED
  BY <1>1, <1>2, <1>3 DEF Resumed

LEMMA ReopenedSound ==
  ASSUME NEW s, WholeService(s), NEW id, NEW r, r = Reopened(s, id)
  PROVE  Sound(r)
<1>1. Sound(SetStatus([s EXCEPT !.promoted = None], "paused", TRUE))
  <2>1. WholeService([s EXCEPT !.promoted = None]) /\ "paused" # "active" /\ TRUE \in BOOLEAN
    BY PromotedSet
  <2> QED
    BY <2>1, StatusSound
<1> QED
  BY <1>1, ResumedSound DEF Reopened

LEMMA CompletedSound ==
  ASSUME NEW s, WholeService(s), NEW r, r = Completed(s)
  PROVE  Sound(r)
<1> DEFINE q == SetStatus(s, "complete", FALSE)
<1>1. FALSE \in BOOLEAN /\ r = [q EXCEPT !.promoted = HeadItem(s)]
  BY DEF Completed
<1>2. Sound(q)
  BY <1>1, StatusSound
<1> HIDE DEF q
<1>3. WholeService(r) /\ r.goal = q.goal /\ r.counted = q.counted
  BY <1>1, <1>2, PromotedSet DEF Sound
<1> QED
  BY <1>2, <1>3 DEF Sound

LEMMA AcknowledgedSound ==
  ASSUME NEW s, Sound(s), NEW item, NEW r, r = Acknowledged(s, item)
  PROVE  Sound(r) /\ r.counted = s.counted /\ r.goal.status = s.goal.status
<1> DEFINE g == [s.goal EXCEPT !.item = None]
           q == [s EXCEPT !.queue = WithoutItem(s.queue, item)]
<1>1. WholeService(q) /\ q.goal = s.goal /\ q.counted = s.counted
  BY QueueSet DEF Sound
<1>2. WholeGoal(g) /\ g.status = s.goal.status /\ g.limit = s.goal.limit /\ g.turns = s.goal.turns
  BY GoalFieldsSet DEF Sound, WholeService
<1>3. CASE r = [s EXCEPT !.queue = WithoutItem(@, item), !.goal.item = None]
  <2>1. r = [q EXCEPT !.goal = g]
    BY <1>3 DEF Sound, WholeService
  <2> HIDE DEF q, g
  <2>2. WholeService(r) /\ r.goal = g /\ r.counted = s.counted
    BY <1>1, <1>2, <2>1, GoalSet
  <2> QED
    BY <1>2, <2>2 DEF Sound, HasTurns, TurnsReached
<1>4. CASE r = [s EXCEPT !.queue = Tail(@)]
  <2>1. WholeService(r) /\ r.goal = s.goal /\ r.counted = s.counted
    BY <1>4 DEF Sound, WholeService
  <2> QED
    BY <2>1 DEF Sound
<1>5. CASE r = s
  BY <1>5
<1> QED
  BY <1>3, <1>4, <1>5 DEF Acknowledged

LEMMA AdoptedSound ==
  ASSUME NEW s, Sound(s), NEW r, r = Adopted(s)
  PROVE  Sound(r)
<1> DEFINE g == [s.goal EXCEPT !.turns = @ + 1]
<1>1. CASE r = [s EXCEPT !.goal.turns = @ + 1, !.counted = TRUE]
  <2>1. r = [[s EXCEPT !.goal = g] EXCEPT !.counted = TRUE]
    BY <1>1 DEF Sound, WholeService
  <2>2. WholeGoal(g)
    BY GoalFieldsSet DEF Sound, WholeService
  <2> HIDE DEF g
  <2>3. WholeService([s EXCEPT !.goal = g]) /\ TRUE \in BOOLEAN
    BY <2>2, GoalSet DEF Sound
  <2>4. WholeService(r) /\ r.counted = TRUE
    BY <2>1, <2>3, CountedSet
  <2> QED
    BY <2>4 DEF Sound, HasTurns
<1>2. CASE r = s
  BY <1>2
<1> QED
  BY <1>1, <1>2 DEF Adopted

LEMMA IdleSound ==
  ASSUME NEW s, WholeService(s), ~Active(s)
  PROVE  Sound([s EXCEPT !.counted = FALSE])
BY CountedSet DEF Active, Sound, HasTurns

LEMMA TurnStartedSound ==
  ASSUME NEW s, Sound(s), NEW r, r = TurnStarted(s)
  PROVE  Sound(r)
<1> DEFINE checked == BudgetChecked(s, TRUE)
<1>1. CASE r = checked /\ ~Active(checked)
  BY <1>1, BudgetChecks DEF Sound, HasTurns, Active
<1>2. CASE r = Adopted(s)
  BY <1>2, AdoptedSound
<1>3. CASE r = Adopted(Acknowledged(s, s.goal.item))
  BY <1>3, AdoptedSound, AcknowledgedSound
<1>4. CASE ~Active(s) /\ r = [s EXCEPT !.counted = FALSE]
  BY <1>4, IdleSound DEF Sound
<1> HIDE DEF checked
<1> QED
  BY <1>1, <1>2, <1>3, <1>4 DEF TurnStarted, checked

LEMMA TurnEndedSound ==
  ASSUME NEW s, Sound(s), NEW outcome, NEW automatic, NEW worked, NEW stalled,
         NEW r, r = TurnEnded(s, outcome, automatic, worked, stalled)
  PROVE  Sound(r)
<1> DEFINE q == [s EXCEPT !.counted = FALSE]
           over == BudgetChecked(q, TRUE)
<1>1. WholeService(q)
  BY CountedSet DEF Sound
<1>2. Sound(over)
  <2> HIDE DEF q
  <2>1. WholeService(over) /\ (over.goal.status = "active" => over = q /\ ~TurnsReached(q.goal))
    BY <1>1, BudgetChecks
  <2> HIDE DEF over
  <2> QED
    BY <2>1 DEF Sound, HasTurns
<1>3. CASE ~Active(s) /\ r = q
  BY <1>3, IdleSound DEF Sound
<1>4. CASE r = [SetStatus(s, "paused", outcome = "cancelled") EXCEPT !.counted = FALSE]
  <2>1. PICK b \in BOOLEAN : b <=> outcome = "cancelled"
    OBVIOUS
  <2> DEFINE p == SetStatus(s, "paused", b)
  <2>2. WholeService(p) /\ p.goal.status = "paused"
    BY <2>1, StatusSet DEF Sound
  <2>3. FALSE \in BOOLEAN /\ r = [p EXCEPT !.counted = FALSE]
    BY <1>4, <2>1
  <2> HIDE DEF p
  <2>4. WholeService(r) /\ r.goal = p.goal
    BY <2>2, <2>3, CountedSet
  <2> QED
    BY <2>2, <2>4 DEF Sound, HasTurns
<1>5. CASE r = SetStatus(over, "paused", FALSE)
  BY <1>2, <1>5, StatusSound DEF Sound
<1>6. CASE r = over
  BY <1>2, <1>6
<1> QED
  BY <1>3, <1>4, <1>5, <1>6 DEF TurnEnded

LEMMA SpentSound ==
  ASSUME NEW s, Sound(s), NEW r, r = [s EXCEPT !.goal.spent = TRUE]
  PROVE  Sound(r)
<1> DEFINE g == [s.goal EXCEPT !.spent = TRUE]
<1>1. /\ WholeGoal(g) /\ g.status = s.goal.status
      /\ g.limit = s.goal.limit /\ g.turns = s.goal.turns
  BY GoalFieldsSet DEF Sound, WholeService
<1>2. r = [s EXCEPT !.goal = g]
  BY DEF Sound, WholeService
<1> HIDE DEF g
<1>3. WholeService(r) /\ r.goal = g /\ r.counted = s.counted
  <2>1. WholeService(s)
    BY DEF Sound
  <2> QED
    BY <1>1, <1>2, <2>1 DEF WholeService
<1> QED
  BY <1>1, <1>3 DEF Sound, HasTurns, TurnsReached

LEMMA SameGoalSound ==
  ASSUME NEW s, Sound(s), NEW r, WholeService(r), r.goal = s.goal, r.counted = s.counted
  PROVE  Sound(r)
BY DEF Sound

\* The queue, the item of a completed goal and the epoch do not matter.
LEMMA OthersSound ==
  ASSUME NEW s, Sound(s), NEW x, NEW r,
         \/ r = [s EXCEPT !.queue = x] \/ r = [s EXCEPT !.promoted = x]
         \/ r = [s EXCEPT !.touched = FALSE]
  PROVE  Sound(r)
<1>1. CASE r = [s EXCEPT !.queue = x]
  BY <1>1, QueueSet, SameGoalSound DEF Sound
<1>2. CASE r = [s EXCEPT !.promoted = x]
  BY <1>2, PromotedSet, SameGoalSound DEF Sound
<1>3. CASE r = [s EXCEPT !.touched = FALSE]
  <2>1. PICK b \in BOOLEAN : r = [s EXCEPT !.touched = b]
    BY <1>3
  <2> QED
    BY <2>1, TouchedSet, SameGoalSound DEF Sound
<1> QED
  BY <1>1, <1>2, <1>3

-----------------------------------------------------------------------------
(* The steps of the thread.                                                *)

LEMMA UndoneSound ==
  ASSUME Sound(svc), NEW st, NEW busy, NEW conflict, svc' = Undone(st, busy, conflict)
  PROVE  Sound(svc')
<1>1. svc' = svc \/ svc' = Cleared(svc) \/ svc' = SetStatus(svc, "paused", FALSE)
  BY DEF Undone
<1> QED
  BY <1>1, ClearedSound, StatusSound DEF Sound

LEMMA StartsKeepTurns ==
  ASSUME Sound(svc), NEW t \in Task, Starts(t)
  PROVE  Sound(svc')
<1>1. CASE Refused(t) \/ GoalChanged(t) \/ PreparationFails(t) \/ StartFails(t)
  BY <1>1, UndoneSound DEF Refused, GoalChanged, PreparationFails, StartFails, Unwinds
<1>2. CASE Dispatches(t)
  <2>1. svc' = svc \/ svc' = Acknowledged(svc, start[t].item)
    BY <1>2 DEF Dispatches, Started
  <2> QED
    BY <2>1, AcknowledgedSound
<1>3. CASE Claims(t) \/ Reserves(t) \/ ReservationFails(t) \/ SetupFails(t)
  BY <1>3 DEF Claims, Reserves, ReservationFails, SetupFails
<1> QED
  BY <1>1, <1>2, <1>3 DEF Starts

LEMMA EndKeepsTurns ==
  ASSUME Sound(svc), NEW outcome, Finishes(outcome)
  PROVE  Sound(svc')
<1>1. CASE UNCHANGED svc
  BY <1>1
<1>2. CASE ~Superseded
  <2> DEFINE Ended(x) == TurnEnded(svc, outcome, eng.auto, eng.worked, x)
             Settled(x) == [Ended(x) EXCEPT !.promoted = None]
  <2>1. \E x : \/ svc' = Settled(x)
               \/ svc' = Created(Settled(x), MaxGoals - left.goals + 1, Consumed(Ended(x)))
    <3>1. PICK x \in IF eng.auto THEN BOOLEAN ELSE {FALSE} :
            \/ svc' = Settled(x)
            \/ svc' = Created(Settled(x), MaxGoals - left.goals + 1, Consumed(Ended(x)))
      BY <1>2, Zenon DEF Finishes
    <3> QED
      BY <3>1, Zenon
  <2>2. PICK x : \/ svc' = Settled(x)
                 \/ svc' = Created(Settled(x), MaxGoals - left.goals + 1, Consumed(Ended(x)))
    BY <2>1
  <2> DEFINE ended == Ended(x)
             settled == [ended EXCEPT !.promoted = None]
             id == MaxGoals - left.goals + 1
             item == Consumed(ended)
  <2>3. Sound(ended)
    BY TurnEndedSound
  <2>4. svc' = settled \/ svc' = Created(settled, id, item)
    BY <2>2
  <2> HIDE DEF ended, id, item
  <2>5. Sound(settled)
    BY <2>3, OthersSound
  <2> HIDE DEF settled
  <2> QED
    BY <2>4, <2>5, CreatedSound DEF Sound
<1> QED
  BY <1>1, <1>2 DEF Finishes

LEMMA EngineKeepsTurns ==
  ASSUME Sound(svc), Engine
  PROVE  Sound(svc')
<1>1. CASE TurnFinishes \/ ThrownFinishes
  BY <1>1, EndKeepsTurns DEF TurnFinishes, ThrownFinishes
<1>2. CASE PromptBlocked
  BY <1>2, StatusSound DEF PromptBlocked, Sound
<1>3. CASE ModelStarts
  <2> DEFINE begun == TurnStarted(svc)
  <2>1. Sound(begun) /\ svc' = [begun EXCEPT !.touched = FALSE]
    BY <1>3, TurnStartedSound DEF ModelStarts
  <2> QED
    BY <2>1, OthersSound
<1>4. CASE GoalSpends
  <2> DEFINE q == [svc EXCEPT !.goal.spent = TRUE]
  <2>1. Sound(q) /\ svc' = BudgetChecked(q, FALSE)
    BY <1>4, SpentSound DEF GoalSpends
  <2> HIDE DEF q
  <2>2. svc' = q \/ svc' = SetStatus(q, "budget_limited", FALSE)
    BY <2>1 DEF BudgetChecked
  <2> QED
    BY <2>1, <2>2, StatusSound DEF Sound
<1>5. CASE ModelUpdatesGoal
  BY <1>5, CompletedSound, StatusSound DEF ModelUpdatesGoal, Sound
<1>6. CASE ModelCreatesGoal
  <2>1. PICK id : svc' = Adopted([Created(svc, id, None) EXCEPT !.touched = FALSE])
    BY <1>6 DEF ModelCreatesGoal
  <2> DEFINE q == Created(svc, id, None)
  <2>2. Sound(q)
    BY CreatedSound DEF Sound
  <2> HIDE DEF q
  <2>3. Sound([q EXCEPT !.touched = FALSE])
    BY <2>2, OthersSound
  <2> QED
    BY <2>1, <2>3, AdoptedSound DEF q
<1>7. CASE EngineFails
  <2> DEFINE ended == TurnEnded(svc, "failed", eng.auto, eng.worked, FALSE)
  <2>1. Sound(ended) /\ (svc' = svc \/ svc' = [ended EXCEPT !.promoted = None])
    BY <1>7, TurnEndedSound DEF EngineFails
  <2> HIDE DEF ended
  <2> QED
    BY <2>1, OthersSound
<1>8. CASE \/ EngineTakes \/ EngineIgnoresStop \/ EngineDefers \/ EngineStops \/ ModelWorks
           \/ ModelEnds \/ EngineReturns \/ Thrown
  BY <1>8 DEF EngineTakes, EngineIgnoresStop, EngineDefers, EngineStops, ModelWorks,
     ModelEnds, EngineReturns, Thrown
<1> QED
  BY <1>1, <1>2, <1>3, <1>4, <1>5, <1>6, <1>7, <1>8 DEF Engine

LEMMA RelaunchKeepsTurns ==
  ASSUME NEW c \in Client, NEW after, Sound(after), Relaunches(c, after)
  PROVE  Sound(svc')
<1>1. svc' = after \/ svc' = SetStatus(after, "paused", FALSE)
  BY DEF Relaunches
<1> QED
  BY <1>1, StatusSound DEF Sound

LEMMA UserKeepsTurns ==
  ASSUME Sound(svc), User
  PROVE  Sound(svc')
<1>1. ASSUME NEW c \in Client, Message(c) \/ Compact(c)
      PROVE  Sound(svc')
  BY <1>1 DEF Message, Compact
<1>2. ASSUME NEW c \in Client, GoalCreate(c) \/ GoalNext(c)
      PROVE  Sound(svc')
  <2>1. (\E id : svc' = Created(svc, id, None)) \/ \E q : svc' = [svc EXCEPT !.queue = q]
    BY <1>2 DEF GoalCreate, GoalNext, Founded
  <2> QED
    BY <2>1, CreatedSound, OthersSound DEF Sound
<1>3. ASSUME NEW c \in Client, GoalResume(c) \/ GoalReopen(c)
      PROVE  Sound(svc')
  BY <1>3, RelaunchKeepsTurns, ResumedSound, ReopenedSound DEF GoalResume, GoalReopen, Sound
<1>4. ASSUME NEW c \in Client, GoalBudget(c)
      PROVE  Sound(svc')
  <2>1. PICK limit : LET q == BudgetSet(svc, limit) IN
          svc' = q \/ Relaunches(c, Resumed(q, NextGoal))
    BY <1>4 DEF GoalBudget
  <2>2. Sound(BudgetSet(svc, limit))
    BY BudgetSetSound DEF Sound
  <2>3. Sound(Resumed(BudgetSet(svc, limit), NextGoal))
    BY <2>2, ResumedSound
  <2> QED
    BY <2>1, <2>2, <2>3, RelaunchKeepsTurns
<1>5. CASE Interrupt \/ GoalPause \/ GoalCancel
  BY <1>5, StatusSound, ClearedSound DEF Interrupt, GoalPause, GoalCancel, Sound
<1>6. CASE QueueChange
  <2>1. \E q : svc' = [svc EXCEPT !.queue = q]
    BY <1>6 DEF QueueChange
  <2> QED
    BY <2>1, OthersSound
<1> QED
  BY <1>1, <1>2, <1>3, <1>4, <1>5, <1>6 DEF User

LEMMA InitHasTurns ==
  ASSUME Init
  PROVE  Sound(svc)
<1>1. PICK q : svc = [Service EXCEPT !.queue = q]
  BY DEF Init
<1>2. Sound(Service)
  BY NoGoalIsWhole DEF Service, Sound, WholeService, HasTurns
<1> QED
  BY <1>1, <1>2, OthersSound

\* Between turns, an active goal has turns left, however resumes, reopenings, changes of
\* the budget, starts and ends of turns follow one another.
THEOREM TurnsAreLeft == Spec => []ActiveHasTurns
<1>1. ASSUME Sound(svc), [Next]_vars
      PROVE  Sound(svc)'
  <2>1. CASE \E u \in Turn : Monitors(u)
    BY <1>1, <2>1
    DEF Monitors, Tends, MonitorTakes, TimesOut, IsAnswered, MonitorCrashes, MonitorDrains,
        MonitorCrashesLate, MonitorCloses, MonitorFrees, MonitorReleases, Continues
  <2>2. CASE TimeRunsOut
    BY <1>1, <2>2, SpentSound DEF TimeRunsOut
  <2>3. CASE (\E c \in Client : Compacted(c) \/ CompactionFails(c)) \/ UNCHANGED vars
    BY <1>1, <2>3 DEF Compacted, CompactionFails, vars
  <2> QED
    BY <1>1, <2>1, <2>2, <2>3, StartsKeepTurns, EngineKeepsTurns, UserKeepsTurns DEF Next
<1>2. Sound(svc) => ActiveHasTurns
  BY DEF Sound, HasTurns, ActiveHasTurns, Active
<1> QED
  BY <1>1, <1>2, InitHasTurns, PTL DEF Spec
=============================================================================
