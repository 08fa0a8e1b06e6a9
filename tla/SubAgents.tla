----------------------------- MODULE SubAgents -----------------------------
(***************************************************************************)
(* Sub-agents: SubAgentManager of src/deepseek_tui/tools/subagent, its     *)
(* store and its mailbox, in processes that share one registry directory.  *)
(*                                                                         *)
(* The bodies under the manager's lock do not await, so that the lock is   *)
(* never waited for and a step is what a coroutine does between two        *)
(* awaits: a driver from the return of its executor to its end, a request  *)
(* up to the join of the driver, and the rest of the request.              *)
(*                                                                         *)
(* A run of an agent is what one driver executes; runs of an agent are     *)
(* numbered.  Prompts, results, transcripts, steps and usage are left out, *)
(* and so are nesting depth and the inputs of a running agent.             *)
(***************************************************************************)
EXTENDS Mailbox, FiniteSets

CONSTANTS
  Proc,         \* the processes that open the registry
  Agent,        \* the ids of agents
  Nobody,       \* who holds a free claim
  Caller,       \* the coroutines of a process that cancel or close agents
  Listening,    \* the processes whose engine has a mailbox and waits for agents
  MaxAgents,    \* max_agents
  MaxTerminal,  \* _MAX_TERMINAL_AGENTS_IN_MEMORY
  MaxRuns,      \* bound: the runs of an agent
  MaxFaults,    \* bound: writes that fail
  MaxStops      \* bound: crashes and shutdowns

ASSUME ProcAssumption == Listening \subseteq Proc /\ Nobody \notin Proc
ASSUME LimitAssumption ==
  /\ MaxAgents \in Nat \ {0} /\ MaxTerminal \in Nat
  /\ MaxRuns \in Nat \ {0} /\ MaxFaults \in Nat /\ MaxStops \in Nat
\* Two closes of one agent, of which the first cannot write, are left out.
ASSUME CallerAssumption == MaxFaults = 0 \/ \A c, d \in Caller : c = d

VARIABLES
  phase,    \* of a process: down, up or shutting down (_closed)
  mem,      \* SubAgentManager._agents
  records,  \* SubAgentManager._records, which _persisted equals while it is used
  owned,    \* SubAgentManager._owned_ids
  failed,   \* SubAgentManager.storage_error
  driver,   \* SubAgent.task
  call,     \* the requests that join a driver
  waiter,   \* one wait() per process
  claim,    \* the lock files of .claims, held as long as _claims lists them
  disk,     \* the registry directory
  box,      \* the mailbox
  view,     \* what the consumer of the mailbox knows
  ends,     \* history: how often the end of the latest run was reported
  overtaken,  \* history: a run began while a cancel of an earlier one had yet to return
  runs, faults, stops  \* what the bounds count

vars == <<phase, mem, records, owned, failed, driver, call, waiter, claim, disk,
          box, view, ends, overtaken, runs, faults, stops>>

Terminal == {"completed", "failed", "cancelled", "interrupted"}

\* `mine' says whether session_boot_id is that of the process.
NoAgent == [status |-> "none", run |-> 0, mine |-> FALSE, token |-> FALSE, closing |-> FALSE]
NoRecord == [status |-> "none", run |-> 0, mine |-> FALSE]
Tombstone == [NoRecord EXCEPT !.status = "deleted"]

Raw(x) == [status |-> x.status, run |-> x.run, mine |-> x.mine]
Restored(raw) ==
  [NoAgent EXCEPT !.status = IF raw.status = "running" THEN "interrupted" ELSE raw.status,
                  !.run = raw.run, !.mine = raw.mine]

NoCall == [pc |-> "idle", agent |-> Nobody, close |-> FALSE]
NoWait == [pc |-> "idle", all |-> FALSE, targets |-> {}]

Init ==
  /\ phase = [p \in Proc |-> "down"]
  /\ mem = [p \in Proc |-> [a \in Agent |-> NoAgent]]
  /\ records = [p \in Proc |-> [a \in Agent |-> NoRecord]]
  /\ owned = [p \in Proc |-> {}] /\ failed = [p \in Proc |-> FALSE]
  /\ driver = [p \in Proc |-> [a \in Agent |-> "none"]]
  /\ call = [p \in Proc |-> [c \in Caller |-> NoCall]]
  /\ waiter = [p \in Proc |-> NoWait]
  /\ claim = [a \in Agent |-> Nobody] /\ disk = [a \in Agent |-> NoRecord]
  /\ box = [p \in Proc |-> EmptyBox] /\ view = [p \in Proc |-> [a \in Agent |-> "none"]]
  /\ ends = [a \in Agent |-> 0] /\ overtaken = [a \in Agent |-> FALSE] /\ runs = [a \in Agent |-> 0]
  /\ faults = 0 /\ stops = 0

-----------------------------------------------------------------------------
(* Helpers of the manager.                                                 *)

Known(p, a) == mem[p][a] # NoAgent \/ records[p][a] # NoRecord
Required(p, a) == IF mem[p][a] # NoAgent THEN mem[p][a] ELSE Restored(records[p][a])
Loaded(p, S) == [a \in Agent |-> IF a \in S THEN Required(p, a) ELSE mem[p][a]]

Executing(p, a) == driver[p][a] \in {"new", "live", "stopping"}
Running(p) == {a \in Agent : mem[p][a].status = "running"}
Admits(p) == phase[p] = "up" /\ Cardinality(Running(p)) < MaxAgents

Fault == faults < MaxFaults /\ faults' = faults + 1

Dirty_NewRuns(p, m, own) == {a \in own : m[a] # NoAgent /\ m[a].run # records[p][a].run}
Dirty(p, m, own) == {a \in own : m[a] # NoAgent /\ Raw(m[a]) # records[p][a]}
\* _persist_best_effort after memory becomes m: a write that raises keeps those
\* that the loop had still to make.
Persist(p, m, own) ==
  LET dirty == Dirty(p, m, own) IN
  \E S \in SUBSET dirty :
    /\ IF S = dirty THEN faults' = faults ELSE Fault
    /\ failed' = [failed EXCEPT ![p] = S # dirty]
    /\ disk' = [a \in Agent |-> IF a \in S THEN Raw(m[a]) ELSE disk[a]]
    /\ records' = [records EXCEPT ![p] =
                     [a \in Agent |-> IF a \in S THEN Raw(m[a]) ELSE records[p][a]]]

\* _trim_cache; which of the terminal agents are the oldest is left open.
Trim(p, m, recs, drv) ==
  LET terminal == {a \in Agent : /\ m[a].status \in Terminal /\ recs[a] # NoRecord
                                 /\ drv[a] \in {"none", "done"}}
      n == Cardinality(terminal) IN
  \E E \in SUBSET terminal :
    /\ Cardinality(E) = IF n > MaxTerminal THEN n - MaxTerminal ELSE 0
    /\ mem' = [mem EXCEPT ![p] = [a \in Agent |-> IF a \in E THEN NoAgent ELSE m[a]]]
    /\ driver' = [driver EXCEPT ![p] = [a \in Agent |-> IF a \in E THEN "none" ELSE drv[a]]]
    /\ owned' = [owned EXCEPT ![p] = @ \ E]

Tell(p, a, kind) ==
  box' = IF p \in Listening THEN [box EXCEPT ![p] = Sent(@, [agent |-> a, kind |-> kind])]
         ELSE box
Woken_Never(w) == w
Woken(w) == IF w.pc = "asleep" THEN [w EXCEPT !.pc = "woken"] ELSE w

\* The callers that joined the driver of a go on in a later step.
Joined(p, a) ==
  call' = [call EXCEPT ![p] =
             [c \in Caller |-> IF @[c].pc = "join" /\ @[c].agent = a
                               THEN [@[c] EXCEPT !.pc = "joined"] ELSE @[c]]]

-----------------------------------------------------------------------------
(* Starting a run: spawn, resume and send_input, and the driver.           *)

Started(n) == [NoAgent EXCEPT !.status = "running", !.run = n, !.mine = TRUE]

\* A new run: claimed, in memory, on disk if the write does not fail, and with a
\* driver that has not begun.
StartRun(p, a) ==
  LET m == [mem[p] EXCEPT ![a] = Started(runs[a] + 1)] IN
  /\ Admits(p) /\ runs[a] < MaxRuns /\ runs' = [runs EXCEPT ![a] = @ + 1]
  /\ claim[a] = Nobody /\ claim' = [claim EXCEPT ![a] = p]
  /\ owned' = [owned EXCEPT ![p] = @ \cup {a}]
  /\ Persist(p, m, owned[p] \cup {a}) /\ mem' = [mem EXCEPT ![p] = m]
  /\ driver' = [driver EXCEPT ![p][a] = "new"]
  /\ Tell(p, a, "started") /\ ends' = [ends EXCEPT ![a] = 0]
  /\ overtaken' = [overtaken EXCEPT ![a] =
                     @ \/ \E q \in Proc, c \in Caller :
                            call[q][c].pc # "idle" /\ call[q][c].agent = a]
  /\ UNCHANGED <<phase, call, waiter, view, stops>>

Spawn(p, a) == runs[a] = 0 /\ StartRun(p, a)

\* A terminal agent whose old driver has ended and which nobody closes.
Resume(p, a) ==
  /\ Known(p, a) /\ Required(p, a).status # "running"
  /\ ~Required(p, a).closing /\ ~Executing(p, a)
  /\ StartRun(p, a)

\* The driver's last step: outcome, record, claim, waiters, mailbox, eviction.
Ended(x, status) == [x EXCEPT !.status = status]
Released(p, a) ==
  claim' = IF mem[p][a].closing \/ claim[a] # p THEN claim ELSE [claim EXCEPT ![a] = Nobody]
Wakes(p) == waiter' = [waiter EXCEPT ![p] = Woken(@)]
DriverReturns(p, a, status) ==
  LET m == [mem[p] EXCEPT ![a] = Ended(@, status)] IN
  /\ Persist(p, m, owned[p]) /\ Released(p, a) /\ Wakes(p) /\ Tell(p, a, status)
  /\ ends' = [ends EXCEPT ![a] = @ + 1] /\ Joined(p, a)
  /\ Trim(p, m, records'[p], [driver[p] EXCEPT ![a] = "done"])
  /\ UNCHANGED <<phase, view, overtaken, runs, stops>>

DriverStarts(p, a) ==
  /\ driver[p][a] = "new" /\ driver' = [driver EXCEPT ![p][a] = "live"]
  /\ UNCHANGED <<phase, mem, records, owned, failed, call, waiter, claim, disk, box,
                 view, ends, overtaken, runs, faults, stops>>

\* The executor completes, fails or gives up, also when it is being cancelled;
\* a driver that finds the turn of its parent cancelled gives up at once.
DriverEnds(p, a) ==
  \/ driver[p][a] = "live" /\ \E s \in {"completed", "failed", "cancelled"} : DriverReturns(p, a, s)
  \/ driver[p][a] = "stopping" /\ \E s \in {"failed", "cancelled"} : DriverReturns(p, a, s)
  \/ driver[p][a] = "new" /\ DriverReturns(p, a, "cancelled")

ReportsProgress(p, a) ==
  /\ driver[p][a] = "live" /\ p \in Listening
  /\ \E kind \in {"progress", "usage"} : Tell(p, a, kind)
  /\ UNCHANGED <<phase, mem, records, owned, failed, driver, call, waiter, claim, disk,
                 view, ends, overtaken, runs, faults, stops>>

-----------------------------------------------------------------------------
(* cancel and close.                                                       *)

\* task.cancel(): a driver that has not begun never runs its code.
Stopped(d) == IF d = "new" THEN "done" ELSE IF d = "live" THEN "stopping" ELSE d
Hit(x) == x.status = "running" /\ ~x.token

\* The first half of cancel: the token, the driver, and the join of the driver.
Requests(p, c, a, x, close) ==
  LET d == IF Hit(x) THEN Stopped(driver[p][a]) ELSE driver[p][a] IN
  /\ mem' = [mem EXCEPT ![p][a] = [x EXCEPT !.token = @ \/ Hit(x)]]
  /\ driver' = [driver EXCEPT ![p][a] = d]
  /\ call' = [call EXCEPT ![p][c] =
                IF d \in {"live", "stopping"} THEN [pc |-> "join", agent |-> a, close |-> close]
                ELSE IF d = "done" THEN [pc |-> "joined", agent |-> a, close |-> close]
                ELSE IF close THEN [pc |-> "remove", agent |-> a, close |-> close]
                ELSE NoCall]
requestOthers == <<phase, records, failed, waiter, disk, box, view, ends, overtaken, runs, faults, stops>>

CancelBegins(p, c, a) ==
  /\ phase[p] # "down" /\ call[p][c] = NoCall /\ Known(p, a)
  /\ Requests(p, c, a, Required(p, a), FALSE)
  /\ UNCHANGED <<owned, claim, requestOthers>>

CloseBegins(p, c, a) ==
  /\ phase[p] # "down" /\ call[p][c] = NoCall /\ Known(p, a)
  /\ claim[a] \in {p, Nobody}
  /\ claim' = [claim EXCEPT ![a] = p]
  /\ owned' = IF claim[a] = p THEN owned ELSE [owned EXCEPT ![p] = @ \cup {a}]
  /\ Requests(p, c, a, [Required(p, a) EXCEPT !.closing = TRUE], TRUE)
  /\ UNCHANGED requestOthers

\* A driver that was cancelled before it began is finalized by who joined it.
Unfinished_Any(x) == x.status # "none" /\ x.token
Unfinished_Never(x) == FALSE
Unfinished(x) == x.status = "running" /\ x.token
Finalizes(p, a) ==
  LET m == [mem[p] EXCEPT ![a] = Ended(@, "cancelled")] IN
  /\ Persist(p, m, owned[p]) /\ mem' = [mem EXCEPT ![p] = m]
  /\ Released(p, a) /\ Wakes(p) /\ Tell(p, a, "cancelled")
  /\ ends' = [ends EXCEPT ![a] = @ + 1]

CallerGoesOn(p, c) ==
  LET a == call[p][c].agent IN
  /\ call[p][c].pc = "joined"
  /\ call' = [call EXCEPT ![p][c] = IF @.close THEN [@ EXCEPT !.pc = "remove"] ELSE NoCall]
  /\ \/ Unfinished(mem[p][a]) /\ Finalizes(p, a)
     \/ ~Unfinished(mem[p][a])
          /\ UNCHANGED <<mem, records, failed, disk, claim, waiter, box, ends, faults>>
  /\ UNCHANGED <<phase, owned, driver, view, overtaken, runs, stops>>

\* The tombstone is written and the agent forgotten, or neither; the claim goes.
CloseRemoves(p, c) ==
  LET a == call[p][c].agent IN
  /\ call[p][c].pc = "remove" /\ call' = [call EXCEPT ![p][c] = NoCall]
  /\ claim' = IF claim[a] = p THEN [claim EXCEPT ![a] = Nobody] ELSE claim
  /\ \/ /\ disk' = [disk EXCEPT ![a] = Tombstone]
        /\ mem' = [mem EXCEPT ![p][a] = NoAgent]
        /\ records' = [records EXCEPT ![p][a] = NoRecord]
        /\ owned' = [owned EXCEPT ![p] = @ \ {a}]
        /\ driver' = [driver EXCEPT ![p][a] = "none"]
        /\ UNCHANGED faults
     \/ /\ Fault
        /\ mem' = [mem EXCEPT ![p][a] = [Required(p, a) EXCEPT !.closing = FALSE]]
        /\ UNCHANGED <<disk, records, owned, driver>>
  /\ UNCHANGED <<phase, failed, waiter, box, view, ends, overtaken, runs, stops>>

-----------------------------------------------------------------------------
(* get_result and wait.                                                    *)

\* An evicted agent is restored from its record; get_result evicts again, a
\* request that is refused does not.
Looks(p, a) ==
  /\ phase[p] # "down" /\ Known(p, a)
  /\ \/ Trim(p, Loaded(p, {a}), records[p], driver[p])
     \/ mem' = [mem EXCEPT ![p] = Loaded(p, {a})] /\ UNCHANGED <<driver, owned>>
  /\ UNCHANGED <<records, failed, call, waiter, claim, disk, phase, box, view, ends, overtaken,
                 runs, faults, stops>>

Over(p, a) == Required(p, a).status # "running"
Satisfied(p, w) == IF w.all THEN \A a \in w.targets : Over(p, a)
                   ELSE \E a \in w.targets : Over(p, a)

\* wait() reads the statuses and the event to sleep on in one step, and again
\* when it is woken; an unknown target ends it with an error, time by itself.
Reads(p, w) ==
  IF \A a \in w.targets : Known(p, a)
  THEN /\ waiter' = [waiter EXCEPT ![p] = IF Satisfied(p, w) THEN NoWait
                                          ELSE [w EXCEPT !.pc = "asleep"]]
       /\ mem' = [mem EXCEPT ![p] = Loaded(p, w.targets)]
  ELSE waiter' = [waiter EXCEPT ![p] = NoWait] /\ UNCHANGED mem
waitOthers == <<phase, records, owned, failed, driver, call, claim, disk, box, view,
                ends, overtaken, runs, faults, stops>>

WaitBegins(p) ==
  /\ p \in Listening /\ phase[p] # "down" /\ waiter[p] = NoWait
  /\ \E all \in BOOLEAN, S \in SUBSET {a \in Agent : Known(p, a)} :
       S # {} /\ (all \/ Cardinality(S) > 1) /\ Reads(p, [pc |-> "asleep", all |-> all, targets |-> S])
  /\ UNCHANGED waitOthers
WaitWakes(p) ==
  /\ waiter[p].pc = "woken" /\ Reads(p, waiter[p]) /\ UNCHANGED waitOthers
WaitTimesOut(p) ==
  /\ waiter[p].pc = "asleep" /\ waiter' = [waiter EXCEPT ![p] = NoWait]
  /\ UNCHANGED <<mem, waitOthers>>

-----------------------------------------------------------------------------
(* The consumer of the mailbox, and the process.                           *)

\* _mailbox_snapshot: agents of earlier sessions are not listed.
Told(status) == CASE status = "running" -> "started"
                  [] status = "interrupted" -> "cancelled"
                  [] OTHER -> status
Snapshot(p) ==
  [a \in Agent |-> IF Known(p, a) /\ Required(p, a).mine THEN Told(Required(p, a).status)
                   ELSE "none"]

Drains(p) ==
  /\ phase[p] # "down" /\ box[p] # EmptyBox
  /\ box' = [box EXCEPT ![p] = EmptyBox]
  /\ view' = [view EXCEPT ![p] =
                [a \in Agent |-> Learnt(box[p], Snapshot(p), a, view[p][a])]]
  /\ UNCHANGED <<phase, mem, records, owned, failed, driver, call, waiter, claim, disk,
                 ends, overtaken, runs, faults, stops>>

\* shutdown: no admission any more, and every driver is cancelled and joined.
ShutdownBegins(p) ==
  /\ phase[p] = "up" /\ stops < MaxStops /\ stops' = stops + 1
  /\ phase' = [phase EXCEPT ![p] = "stopping"]
  /\ mem' = [mem EXCEPT ![p] = [a \in Agent |->
                IF Executing(p, a) THEN [@[a] EXCEPT !.token = TRUE] ELSE @[a]]]
  /\ driver' = [driver EXCEPT ![p] = [a \in Agent |-> Stopped(@[a])]]
  /\ UNCHANGED <<records, owned, failed, call, waiter, claim, disk, box, view, ends, overtaken,
                 runs, faults>>
ShutdownJoins(p, a) ==
  /\ phase[p] = "stopping" /\ ~Executing(p, a) /\ Unfinished(mem[p][a])
  /\ Finalizes(p, a)
  /\ UNCHANGED <<phase, owned, driver, call, view, overtaken, runs, stops>>

Freed(p) == claim' = [a \in Agent |-> IF claim[a] = p THEN Nobody ELSE claim[a]]
AllJoined_Unawaited(p) == TRUE
\* Only agents whose task is not done are joined; one that a caller has joined
\* by then is left to that caller.
AllJoined(p) ==
  \A a \in Agent :
    /\ ~Executing(p, a)
    /\ Unfinished(mem[p][a]) =>
         \E c \in Caller : call[p][c].pc = "joined" /\ call[p][c].agent = a
ShutdownEnds(p) ==
  /\ phase[p] = "stopping" /\ AllJoined(p)
  /\ phase' = [phase EXCEPT ![p] = "closed"] /\ Freed(p)
  /\ UNCHANGED <<mem, records, owned, failed, driver, call, waiter, disk, box, view,
                 ends, overtaken, runs, faults, stops>>

\* The memory of a process is gone, and the locks it held are free.
Gone(p) ==
  /\ phase' = [phase EXCEPT ![p] = "down"]
  /\ mem' = [mem EXCEPT ![p] = [a \in Agent |-> NoAgent]]
  /\ records' = [records EXCEPT ![p] = [a \in Agent |-> NoRecord]]
  /\ owned' = [owned EXCEPT ![p] = {}] /\ failed' = [failed EXCEPT ![p] = FALSE]
  /\ driver' = [driver EXCEPT ![p] = [a \in Agent |-> "none"]]
  /\ call' = [call EXCEPT ![p] = [c \in Caller |-> NoCall]]
  /\ waiter' = [waiter EXCEPT ![p] = NoWait]
  /\ box' = [box EXCEPT ![p] = EmptyBox]
  /\ view' = [view EXCEPT ![p] = [a \in Agent |-> "none"]]
  /\ Freed(p)
  /\ UNCHANGED <<disk, ends, overtaken, runs, faults>>
Crash(p) == phase[p] # "down" /\ stops < MaxStops /\ stops' = stops + 1 /\ Gone(p)
Exit(p) ==
  /\ phase[p] = "closed" /\ \A c \in Caller : call[p][c] = NoCall
  /\ Gone(p) /\ UNCHANGED stops

\* _load_state: every record that is no tombstone, as of another session.
Found_Deleted(raw) == [raw EXCEPT !.mine = FALSE]
Found(raw) == IF raw = Tombstone THEN NoRecord ELSE [raw EXCEPT !.mine = FALSE]
Start(p) ==
  LET recs == [a \in Agent |-> Found(disk[a])] IN
  /\ phase[p] = "down" /\ phase' = [phase EXCEPT ![p] = "up"]
  /\ records' = [records EXCEPT ![p] = recs]
  /\ Trim(p, [a \in Agent |-> IF recs[a] = NoRecord THEN NoAgent ELSE Restored(recs[a])],
          recs, driver[p])
  /\ UNCHANGED <<failed, call, waiter, claim, disk, box, view, ends, overtaken, runs, faults, stops>>

-----------------------------------------------------------------------------
Drive(p, a) == DriverStarts(p, a) \/ DriverEnds(p, a) \/ ReportsProgress(p, a)
Request(p, c) ==
  \/ \E a \in Agent : CancelBegins(p, c, a) \/ CloseBegins(p, c, a)
  \/ CallerGoesOn(p, c) \/ CloseRemoves(p, c)
Wait(p) == WaitBegins(p) \/ WaitWakes(p) \/ WaitTimesOut(p)
Stop(p) ==
  \/ ShutdownBegins(p) \/ (\E a \in Agent : ShutdownJoins(p, a)) \/ ShutdownEnds(p)
  \/ Crash(p) \/ Exit(p)

Next ==
  \E p \in Proc :
    \/ \E a \in Agent : Spawn(p, a) \/ Resume(p, a) \/ Drive(p, a) \/ Looks(p, a)
    \/ \E c \in Caller : Request(p, c)
    \/ Wait(p) \/ Drains(p) \/ Stop(p) \/ Start(p)

Spec == Init /\ [][Next]_vars

-----------------------------------------------------------------------------
(* Properties.                                                             *)

Status == Terminal \cup {"none", "running"}
Record == [status : Status \cup {"deleted"}, run : 0..MaxRuns, mine : BOOLEAN]

TypeOK ==
  /\ phase \in [Proc -> {"down", "up", "stopping", "closed"}]
  /\ mem \in [Proc -> [Agent -> [status : Status, run : 0..MaxRuns, mine : BOOLEAN,
                                 token : BOOLEAN, closing : BOOLEAN]]]
  /\ records \in [Proc -> [Agent -> Record]] /\ disk \in [Agent -> Record]
  /\ owned \in [Proc -> SUBSET Agent] /\ failed \in [Proc -> BOOLEAN]
  /\ driver \in [Proc -> [Agent -> {"none", "new", "live", "stopping", "done"}]]
  /\ call \in [Proc -> [Caller -> [pc : {"idle", "join", "joined", "remove"},
                                   agent : Agent \cup {Nobody}, close : BOOLEAN]]]
  /\ waiter \in [Proc -> [pc : {"idle", "asleep", "woken"}, all : BOOLEAN,
                          targets : SUBSET Agent]]
  /\ claim \in [Agent -> Proc \cup {Nobody}]
  /\ \A p \in Proc : Len(box[p].queue) <= Capacity /\ (p \notin Listening => box[p] = EmptyBox)
  /\ view \in [Proc -> [Agent -> LifeKind \cup {"none"}]]
  /\ ends \in [Agent -> Nat] /\ overtaken \in [Agent -> BOOLEAN]
  /\ runs \in [Agent -> 0..MaxRuns]
  /\ faults \in 0..MaxFaults /\ stops \in 0..MaxStops

\* While none of its runs has begun before a cancel or close of an earlier run
\* returned, an agent has one executor among all processes that share the
\* registry, which holds its claim through cancels, closes, shutdowns and
\* crashes.  From such a run on (overtaken) the code does not keep this, although
\* docs/audits/2026-09-27/05-implemented-fixes.md:9,23 say that a resumption must
\* have joined the old driver: the cancel that returns late releases the new
\* run's claim (tools/subagent/manager.py:300-305), and another process takes it.
OneExecutor ==
  \A a \in Agent : ~overtaken[a] =>
    \A p \in Proc : Executing(p, a) => claim[a] = p

\* The end of a run is reported to the parent once, whoever finalizes it: the
\* driver, the cancel that reached it before it began, or the shutdown.  Of an
\* overtaken agent nothing is said: a late cancel may report a later run's end.
EndsOnce ==
  \A a \in Agent : ~overtaken[a] =>
    /\ ends[a] <= 1
    /\ \A p \in Proc :
         mem[p][a].mine /\ mem[p][a].run = runs[a] =>
           (ends[a] = 0 <=> mem[p][a].status = "running")

\* wait() never sleeps on when what it waits for has come.
NoLostWakeup ==
  \A p \in Proc : waiter[p].pc = "asleep" => ~Satisfied(p, waiter[p])

\* Whatever a full mailbox drops, its queue and the snapshot that follows tell
\* the consumer the present state of every agent whose latest run is one of the
\* session, in this order.  (Failed writes leave a record that is behind: what is
\* restored from it is interrupted, or is an earlier run.)
ConsumerLearns ==
  \A p \in Listening, a \in Agent :
    Known(p, a) /\ Required(p, a).mine /\ Required(p, a).run = runs[a]
      /\ Required(p, a).status # "interrupted" /\ ~box[p].resync /\ ~overtaken[a] =>
        Latest(box[p].queue, a, view[p][a]) = Told(Required(p, a).status)

\* Eviction forgets neither an agent nor its outcome: until it is resumed or
\* closed an agent is what it was, unless a write has failed.
OutcomeIsKept ==
  [][\A p \in Proc, a \in Agent :
       Known(p, a) /\ Required(p, a).status \in Terminal /\ runs'[a] = runs[a] =>
         \/ Known(p, a)' /\ Required(p, a)'.status = Required(p, a).status
         \/ failed[p] \/ failed'[p] \/ overtaken[a] \/ phase'[p] = "down"
         \/ disk'[a] = Tombstone]_vars

\* A cancelled run is never left running: its driver still cleans up, or never
\* began and someone who joined it is about to finalize it.
CancelledRunsEnd ==
  \A p \in Proc, a \in Agent :
    mem[p][a].status = "running" /\ mem[p][a].token =>
      \/ Executing(p, a) \/ phase[p] = "stopping"
      \/ \E c \in Caller : call[p][c].agent = a /\ call[p][c].pc = "joined"
=============================================================================
