------------------------------ MODULE Handoff ------------------------------
(***************************************************************************)
(* The browser of a thread, between the agent's turns and the people who   *)
(* take it over: the fence that pauses a turn (engine/pause.py), the round *)
(* loop and the tool calls it fences (engine/orchestrator/core.py and      *)
(* tooling.py), the approvals a call waits for (server/approval.py), the   *)
(* ownership of the browser (browser/service.py) and the manager's side of *)
(* a handoff (server/threads/manager.py), all under src/deepseek_tui.      *)
(*                                                                         *)
(* One browser session stays open.  Stopping, recovering and reattaching   *)
(* it, recordings, demonstrations and sub-agents are left out, and a       *)
(* transfer of control does not fail.                                      *)
(***************************************************************************)
EXTENDS Naturals

CONSTANTS
  Human,      \* people, or windows, with one request at a time
  MaxTurns,   \* turns of the thread
  MaxAsks     \* requests about the control of the browser

ASSUME Assumptions == MaxTurns \in Nat /\ MaxAsks \in Nat

None == 0
Turn == 1..MaxTurns

VARIABLES
  active,   \* active_turn of the thread
  eng,      \* the engine: its step, turn, the generation of its plan, and the
            \* control generation its browser action was issued under
  mon,      \* the end of _close_turn_record, in the monitor of the active turn
  pause,    \* RunPause of the engine's handle
  resume,   \* whether resume_context is set
  cancel,   \* cancel_event, and with it a CancelRequestOp
  run,      \* BrowserRun
  call,     \* the request of each person
  bridge,   \* the approval bridge, and the future of the request in it
  left,     \* requests left
  seen      \* history: a pause the model has not been told of, the turn that
            \* was paused, the turn a person took the browser from

vars == <<active, eng, mon, pause, resume, cancel, run, call, bridge, left, seen>>

NoHelp == [turn |-> None, id |-> 0, status |-> "none"]
NoCall == [pc |-> "idle", wants |-> "none", seen |-> 0, turn |-> None]
NoApproval == [pending |-> FALSE, meta |-> FALSE, remember |-> FALSE, future |-> "none"]

\* The browser may be as a person opened it, or as the agent did.
Init ==
  /\ active = None /\ mon = "off" /\ cancel = FALSE /\ resume = FALSE
  /\ eng = [pc |-> "off", turn |-> None, plan |-> 0, issued |-> 0]
  /\ pause = [requested |-> FALSE, generation |-> 0]
  /\ \E o \in {"user", "agent"} :
       run = [owner |-> o, generation |-> 0, transferring |-> FALSE,
              user_hold |-> FALSE, agent_task |-> FALSE, help |-> NoHelp]
  /\ call = [h \in Human |-> NoCall]
  /\ bridge = NoApproval /\ left = MaxAsks
  /\ seen = [untold |-> FALSE, paused |-> None, held |-> None]
-----------------------------------------------------------------------------
\* Control of the browser.

\* run.lock, held by an action of the agent while it executes.
LockFree == eng.pc # "acting"
\* control_lock, held over the steps of one change of control.
ControlFree ==
  /\ eng.pc # "taking" /\ mon # "returning"
  /\ \A h \in Human : call[h].pc \in {"idle", "waiting"}

\* BrowserService.control: the owner changes at once, the change is over when
\* the action under way is.
To(r, owner) == [r EXCEPT !.owner = owner, !.generation = @ + 1, !.transferring = TRUE]
Moved_Unlocked == run' = [run EXCEPT !.transferring = FALSE]
Moved == LockFree /\ run' = [run EXCEPT !.transferring = FALSE]

UserBrowsing_Unheld(r) == r.owner = "user" /\ ~r.transferring /\ r.help = NoHelp
UserBrowsing(r) ==
  r.owner = "user" /\ ~r.transferring /\ ~r.user_hold /\ r.help = NoHelp

InTurn == eng.pc \notin {"off", "closing"}

\* RunPause.pause.  What is noted of it is for the properties.
Paused == IF pause.requested THEN pause
          ELSE [requested |-> TRUE, generation |-> pause.generation + 1]
Noted == IF pause.requested THEN seen
         ELSE [seen EXCEPT !.untold = TRUE, !.paused = IF InTurn THEN eng.turn ELSE None]
Released == [pause EXCEPT !.requested = FALSE]
-----------------------------------------------------------------------------
\* The engine: Engine._run_conversation and what it calls.

Engine(pc) == eng' = [eng EXCEPT !.pc = pc]
host == <<active, mon, call, left>>

StartTurn ==
  /\ active = None /\ eng.turn < MaxTurns
  /\ active' = eng.turn + 1
  /\ UNCHANGED <<eng, mon, pause, resume, cancel, run, call, bridge, left, seen>>
EngineTakes ==
  /\ eng.pc = "off" /\ active \notin {None, eng.turn}
  /\ eng' = [eng EXCEPT !.pc = "top", !.turn = active]
  /\ cancel' = FALSE
  /\ seen' = [seen EXCEPT !.untold = FALSE]
  /\ UNCHANGED <<host, pause, resume, run, bridge>>

\* A person came between the sampling of the plan and now.
Intervened_Paused == pause.requested
Intervened == pause.requested \/ eng.plan # pause.generation

RoundBegins ==
  /\ eng.pc = "top" /\ ~pause.requested /\ ~cancel
  /\ eng' = [eng EXCEPT !.pc = "request", !.plan = pause.generation]
  /\ resume' = FALSE
  /\ seen' = [seen EXCEPT !.untold = @ /\ ~resume]
  /\ UNCHANGED <<host, pause, cancel, run, bridge>>
Samples ==
  /\ eng.pc = "request"
  /\ Engine(IF Intervened THEN "top" ELSE "sampling")
  /\ UNCHANGED <<host, pause, resume, cancel, run, bridge, seen>>
\* The answer is dropped, or it is a plan of tool calls or the last word.
Answers ==
  /\ eng.pc = "sampling"
  /\ \E pc \in IF Intervened THEN {"top"} ELSE {"call", "final"} : Engine(pc)
  /\ UNCHANGED <<host, pause, resume, cancel, run, bridge, seen>>

\* The hooks of the end of a turn and the reconciliation of its checklist may
\* yield to a takeover.
Concludes ==
  /\ eng.pc = "final"
  /\ Engine(IF Intervened THEN "top" ELSE "reconcile")
  /\ UNCHANGED <<host, pause, resume, cancel, run, bridge, seen>>
Unfinished == pause.requested \/ resume
Continues ==
  /\ eng.pc = "reconcile" /\ Unfinished
  /\ Engine("top")
  /\ UNCHANGED <<host, pause, resume, cancel, run, bridge, seen>>
Completes ==
  /\ eng.pc = "reconcile" /\ ~Unfinished
  /\ Engine("closing") /\ mon' = "told"
  /\ UNCHANGED <<active, call, left, pause, resume, cancel, run, bridge, seen>>

\* The next call of the plan, or the end of the round.
AfterCall == \E pc \in {"call", "top"} : Engine(pc)

Discarded_Remembered(b) == [b EXCEPT !.pending = FALSE, !.meta = FALSE, !.future = "none"]
\* ApprovalBridge.discard, at the end of the scope of the request.
Discarded(b) == NoApproval
\* ... and from outside, where it cancels the future that is waited for.
Withdrawn(b) ==
  IF ~b.meta THEN b
  ELSE [NoApproval EXCEPT !.future = IF b.future = "pending" THEN "cancelled" ELSE b.future]

\* A call is refused, or prepared; it may need an approval.
Refused ==
  /\ eng.pc \in {"call", "ready"} /\ Intervened /\ AfterCall
  /\ UNCHANGED <<host, pause, resume, cancel, run, bridge, seen>>
Prepares ==
  /\ eng.pc = "call" /\ ~Intervened
  /\ Engine("ready")
  /\ UNCHANGED <<host, pause, resume, cancel, run, bridge, seen>>
AsksApproval ==
  /\ eng.pc = "call" /\ ~Intervened
  /\ Engine("asking")
  /\ bridge' = [pending |-> TRUE, meta |-> TRUE, remember |-> FALSE, future |-> "pending"]
  /\ UNCHANGED <<host, pause, resume, cancel, run, seen>>
Approved ==
  /\ eng.pc = "asking" /\ bridge.future = "approved"
  /\ Engine("ready") /\ bridge' = Discarded(bridge)
  /\ UNCHANGED <<host, pause, resume, cancel, run, seen>>
Denied ==
  /\ eng.pc = "asking" /\ bridge.future = "denied"
  /\ AfterCall /\ bridge' = Discarded(bridge)
  /\ UNCHANGED <<host, pause, resume, cancel, run, seen>>

\* BrowserService.action, up to the wait for run.lock.
Issue(r) ==
  IF r.help # NoHelp THEN AfterCall
  ELSE eng' = [eng EXCEPT !.pc = "queued", !.issued = r.generation]
Acts ==
  /\ eng.pc = "ready" /\ ~Intervened
  /\ IF run.agent_task THEN Issue(run) ELSE Engine("claiming")
  /\ UNCHANGED <<host, pause, resume, cancel, run, bridge, seen>>
\* _claim_for_agent: the first action of a turn takes the browser from a
\* person who was only browsing.
ClaimBegins ==
  /\ eng.pc = "claiming" /\ ControlFree
  /\ LET claimed == [run EXCEPT !.agent_task = TRUE] IN
     IF ~run.agent_task /\ UserBrowsing(run)
     THEN /\ run' = To(claimed, "agent") /\ Engine("taking")
     ELSE /\ run' = claimed /\ Issue(claimed)
  /\ UNCHANGED <<host, pause, resume, cancel, bridge, seen>>
ClaimEnds ==
  /\ eng.pc = "taking" /\ Moved /\ Issue(run)
  /\ UNCHANGED <<host, pause, resume, cancel, bridge, seen>>

\* With run.lock, the action is executed if nothing has changed.
Current ==
  /\ run.owner = "agent" /\ ~run.transferring
  /\ run.generation = eng.issued /\ run.help = NoHelp
Executes ==
  /\ eng.pc = "queued" /\ Current
  /\ Engine("acting")
  /\ UNCHANGED <<host, pause, resume, cancel, run, bridge, seen>>
Drops ==
  /\ eng.pc = "queued" /\ ~Current /\ AfterCall
  /\ UNCHANGED <<host, pause, resume, cancel, run, bridge, seen>>
Executed ==
  /\ eng.pc = "acting" /\ AfterCall
  /\ UNCHANGED <<host, pause, resume, cancel, run, bridge, seen>>

\* The agent asks for help: request_browser_assistance.
NeedsHelp ==
  /\ eng.pc = "ready" /\ ~Intervened
  /\ Engine("helping")
  /\ UNCHANGED <<host, pause, resume, cancel, run, bridge, seen>>
HelpStatus_Owner == run.owner
HelpStatus == IF run.owner = "user" THEN "human" ELSE "pending"
Helped_Elsewhere(r) ==
  [r EXCEPT !.help = [turn |-> active, id |-> Paused.generation, status |-> HelpStatus]]
Helped(r) ==
  [r EXCEPT !.agent_task = TRUE,
            !.help = [turn |-> active, id |-> Paused.generation, status |-> HelpStatus]]
HelpAsked ==
  /\ eng.pc = "helping" /\ ControlFree /\ AfterCall
  /\ IF cancel \/ run.help.turn = active THEN UNCHANGED <<pause, run, seen>>
     ELSE pause' = Paused /\ seen' = Noted /\ run' = Helped(run)
  /\ UNCHANGED <<host, resume, cancel, bridge>>

\* A cancellation lands at an await.  Control it was taking stays with the
\* agent; a withdrawn approval ends the turn too.
Cancelled ==
  /\ InTurn /\ (cancel \/ bridge.future = "cancelled")
  /\ Engine("closing") /\ mon' = "told"
  /\ bridge' = Discarded(bridge)
  /\ run' = IF eng.pc = "taking" THEN [run EXCEPT !.transferring = FALSE] ELSE run
  /\ UNCHANGED <<active, call, left, pause, resume, cancel, seen>>
\* The turn's end has been told before the handle is idle again.
Idles ==
  /\ eng.pc = "closing"
  /\ Engine("off") /\ resume' = FALSE /\ pause' = Released
  /\ UNCHANGED <<host, cancel, run, bridge, seen>>

RunEngine ==
  \/ EngineTakes \/ RoundBegins \/ Samples \/ Answers \/ Concludes \/ Continues
  \/ Completes \/ Refused \/ Prepares \/ AsksApproval \/ Approved \/ Denied
  \/ Acts \/ ClaimBegins \/ ClaimEnds \/ Executes \/ Drops \/ Executed
  \/ NeedsHelp \/ HelpAsked \/ Cancelled \/ Idles
-----------------------------------------------------------------------------
\* The monitor: the end of _close_turn_record, and _hand_browser_back.

Monitor(pc) == mon' = pc
agent == <<eng, pause, resume, cancel>>

TaskEnds ==
  /\ mon = "told" /\ Monitor("ended")
  /\ run' = [run EXCEPT !.agent_task = FALSE]
  /\ bridge' = Withdrawn(bridge)
  /\ UNCHANGED <<active, agent, call, left, seen>>
HoldEnds ==
  /\ mon = "ended"
  /\ run' = [run EXCEPT !.user_hold = FALSE,
                        !.help = IF @.turn = active THEN NoHelp ELSE @]
  /\ Monitor(IF run.owner = "agent" THEN "handing" ELSE "releasing")
  /\ UNCHANGED <<active, agent, call, bridge, left, seen>>
\* Between turns the page is the user's.
HandsBack ==
  /\ mon = "handing" /\ ControlFree
  /\ IF run.owner = "agent" /\ ~run.agent_task /\ run.help = NoHelp
     THEN run' = To(run, "user") /\ Monitor("returning")
     ELSE Monitor("releasing") /\ UNCHANGED run
  /\ UNCHANGED <<active, agent, call, bridge, left, seen>>
HandedBack ==
  /\ mon = "returning" /\ Moved /\ Monitor("releasing")
  /\ UNCHANGED <<active, agent, call, bridge, left, seen>>
Releases ==
  /\ mon = "releasing" /\ Monitor("off")
  /\ active' = None
  /\ seen' = [seen EXCEPT !.held = None]
  /\ UNCHANGED <<agent, run, call, bridge, left>>

RunMonitor == TaskEnds \/ HoldEnds \/ HandsBack \/ HandedBack \/ Releases
-----------------------------------------------------------------------------
\* People: control_browser, respond_browser_assistance, interrupt_turn and the
\* answers to approvals.

Call(h, pc) == call' = [call EXCEPT ![h].pc = pc]
Done(h) == call' = [call EXCEPT ![h] = NoCall]

\* A person acts on what the window shows: a control generation, or a request
\* for help.
Asks(h) ==
  /\ call[h].pc = "idle" /\ left > 0
  /\ left' = left - 1
  /\ \/ \E w \in {"user", "agent"} :
          call' = [call EXCEPT ![h] = [pc |-> "waiting", wants |-> w,
                                       seen |-> run.generation, turn |-> None]]
     \/ /\ run.help # NoHelp
        /\ \E w \in {"takeover", "continue", "ignore"} :
             call' = [call EXCEPT ![h] = [pc |-> "waiting", wants |-> w,
                                          seen |-> run.help.id, turn |-> None]]
  /\ UNCHANGED <<active, agent, mon, run, bridge, seen>>

Wants(h, ws) == call[h].pc = "waiting" /\ call[h].wants \in ws /\ ControlFree
people == <<active, eng, mon, cancel, bridge, left>>

\* The state of the control has changed, or there is a request for help to
\* answer first.
Outdated(h) ==
  \/ call[h].wants \in {"user", "agent"} /\ call[h].seen # run.generation
  \/ call[h].wants = "agent" /\ run.help # NoHelp
Rejected(h) ==
  /\ Wants(h, {"user", "agent"}) /\ Outdated(h)
  /\ Done(h)
  /\ UNCHANGED <<people, pause, resume, run, seen>>

\* Only a turn that uses the browser is paused with it.
UsesBrowser == active # None /\ run.agent_task
TakesOver(h) ==
  /\ Wants(h, {"user"}) /\ ~Outdated(h)
  /\ LET held == [run EXCEPT !.user_hold = active # None]
         noted == IF UsesBrowser THEN Noted ELSE seen IN
     /\ pause' = IF UsesBrowser THEN Paused ELSE pause
     /\ seen' = [noted EXCEPT !.held = active]
     /\ IF run.owner # "user" THEN run' = To(held, "user") /\ Call(h, "moving")
        ELSE run' = held /\ Done(h)
  /\ UNCHANGED <<people, resume>>
TookOver(h) ==
  /\ call[h].pc = "moving" /\ Moved /\ Done(h)
  /\ UNCHANGED <<people, pause, resume, seen>>

\* Control goes back after an observation of the page, which is when the turn
\* may end.
Returns(h) ==
  /\ Wants(h, {"agent"}) /\ ~Outdated(h)
  /\ seen' = [seen EXCEPT !.held = None]
  /\ LET freed == [run EXCEPT !.user_hold = FALSE] IN
     CASE UsesBrowser /\ pause.requested ->
            /\ run' = freed
            /\ call' = [call EXCEPT ![h].pc = "looking", ![h].turn = active]
       [] ~(UsesBrowser /\ pause.requested) /\ run.owner # "agent" ->
            run' = To(freed, "agent") /\ Call(h, "moving")
       [] OTHER -> run' = freed /\ Done(h)
  /\ UNCHANGED <<people, pause, resume>>
Looked(h) ==
  /\ call[h].pc = "looking"
  /\ IF active # call[h].turn \/ cancel THEN Done(h) /\ UNCHANGED run
     ELSE run' = To(run, "agent") /\ Call(h, "resuming")
  /\ UNCHANGED <<people, pause, resume, seen>>
Resumed(h) ==
  /\ call[h].pc = "resuming" /\ Moved /\ Done(h)
  /\ resume' = TRUE /\ pause' = Released
  /\ UNCHANGED <<people, seen>>

\* The answer to a request for help: it must still be asked for by a turn that
\* goes on.  "ignore" stands for the answer with information too.
Ended(h) ==
  \/ run.help.id # call[h].seen \/ run.help = NoHelp
  \/ run.help.turn # active \/ cancel
  \/ call[h].wants = "continue" /\ run.help.status # "human"
NotHelped(h) ==
  /\ Wants(h, {"takeover", "continue", "ignore"}) /\ Ended(h)
  /\ Done(h)
  /\ UNCHANGED <<people, pause, resume, run, seen>>
HelpBegins(h) ==
  /\ Wants(h, {"takeover"}) /\ ~Ended(h)
  /\ seen' = [seen EXCEPT !.held = active]
  /\ IF run.owner # "user" THEN run' = To(run, "user") /\ Call(h, "coming")
     ELSE run' = [run EXCEPT !.help.status = "human"] /\ Done(h)
  /\ UNCHANGED <<people, pause, resume>>
HelpTaken(h) ==
  /\ call[h].pc = "coming" /\ LockFree
  /\ run' = [run EXCEPT !.transferring = FALSE,
               !.help = IF @.id = call[h].seen /\ @ # NoHelp
                        THEN [@ EXCEPT !.status = "human"] ELSE @]
  /\ Done(h)
  /\ UNCHANGED <<people, pause, resume, seen>>
HelpEnds(h) ==
  /\ Wants(h, {"continue", "ignore"}) /\ ~Ended(h)
  /\ IF run.owner = "user"
     THEN call' = [call EXCEPT ![h].pc = "observing", ![h].turn = active] /\ UNCHANGED run
     ELSE run' = To(run, "agent") /\ Call(h, "answering")
  /\ UNCHANGED <<people, pause, resume, seen>>
Observed(h) ==
  /\ call[h].pc = "observing"
  /\ IF active # call[h].turn \/ cancel THEN Done(h) /\ UNCHANGED <<run, seen>>
     ELSE /\ run' = To(run, "agent") /\ Call(h, "answering")
          /\ seen' = [seen EXCEPT !.held = None]
  /\ UNCHANGED <<people, pause, resume>>
Answered(h) ==
  /\ call[h].pc = "answering" /\ LockFree
  /\ run' = [run EXCEPT !.transferring = FALSE, !.help = NoHelp]
  /\ resume' = TRUE /\ pause' = Released
  /\ seen' = [seen EXCEPT !.held = None]
  /\ Done(h)
  /\ UNCHANGED people

\* The list of requests forgets one that nobody waits for.
Lists ==
  /\ run.help # NoHelp /\ (run.help.turn # active \/ cancel)
  /\ run' = [run EXCEPT !.help = NoHelp]
  /\ UNCHANGED <<people, pause, resume, call, seen>>

\* ApprovalBridge.resolve.
Resolves ==
  /\ bridge.pending
  /\ \E approved, remember \in BOOLEAN :
       bridge' = [bridge EXCEPT !.pending = FALSE,
                    !.meta = approved /\ remember, !.remember = approved /\ remember,
                    !.future = IF approved THEN "approved" ELSE "denied"]
  /\ UNCHANGED <<active, agent, mon, run, call, left, seen>>
\* ThreadTurns has the interrupts that come before the engine takes the turn.
Interrupts ==
  /\ active # None /\ eng.turn = active /\ InTurn /\ ~cancel
  /\ cancel' = TRUE /\ bridge' = Withdrawn(bridge)
  /\ UNCHANGED <<active, eng, mon, pause, resume, run, call, left, seen>>

Person(h) ==
  \/ Asks(h) \/ Rejected(h) \/ TakesOver(h) \/ TookOver(h) \/ Returns(h)
  \/ Looked(h) \/ Resumed(h) \/ NotHelped(h) \/ HelpBegins(h) \/ HelpTaken(h)
  \/ HelpEnds(h) \/ Observed(h) \/ Answered(h)

Next ==
  \/ StartTurn \/ RunEngine \/ RunMonitor
  \/ Lists \/ Resolves \/ Interrupts
  \/ \E h \in Human : Person(h)

Spec == Init /\ [][Next]_vars
-----------------------------------------------------------------------------
\* Every variable has its type.
TypeOK ==
  /\ active \in Turn \cup {None} /\ left \in 0..MaxAsks
  /\ eng \in [pc : {"off", "top", "request", "sampling", "final", "reconcile", "call",
                    "asking", "ready", "claiming", "taking", "queued", "acting",
                    "helping", "closing"},
              turn : Turn \cup {None}, plan : Nat, issued : Nat]
  /\ mon \in {"off", "told", "ended", "handing", "returning", "releasing"}
  /\ pause \in [requested : BOOLEAN, generation : Nat]
  /\ resume \in BOOLEAN /\ cancel \in BOOLEAN
  /\ run \in [owner : {"user", "agent"}, generation : Nat, transferring : BOOLEAN,
              user_hold : BOOLEAN, agent_task : BOOLEAN,
              help : [turn : Turn \cup {None}, id : Nat,
                      status : {"none", "pending", "human"}]]
  /\ call \in [Human ->
       [pc : {"idle", "waiting", "moving", "looking", "resuming", "coming",
              "observing", "answering"},
        wants : {"none", "user", "agent", "takeover", "continue", "ignore"},
        seen : Nat, turn : Turn \cup {None}]]
  /\ bridge \in [pending : BOOLEAN, meta : BOOLEAN, remember : BOOLEAN,
                 future : {"none", "pending", "approved", "denied", "cancelled"}]
  /\ seen \in [untold : BOOLEAN, paused : Turn \cup {None}, held : Turn \cup {None}]

\* While a person has the browser, no action of the agent is being executed:
\* control waits for the action under way, and later ones find the change.
OneActor == eng.pc = "acting" => run.owner = "agent" \/ run.transferring

\* A takeover that paused a turn is told to the model before the turn acts on
\* the browser again, whatever was planned, queued or waiting for an approval,
\* and before it completes.
TakeoversAreTold ==
  [][(\/ eng.pc # "acting" /\ eng'.pc = "acting"
      \/ eng.pc # "closing" /\ eng'.pc = "closing" /\ ~cancel /\ bridge.future # "cancelled")
     => ~seen.untold]_vars

\* A browser that a person took during a turn is given back by a person, and
\* never taken by an action of that turn.
TakeoverLasts ==
  [][run.owner = "user" /\ run'.owner = "agent" => seen'.held = None]_vars

\* A turn that was paused while it ran can be resumed: the browser is with a
\* person or on its way, or help is asked for, or the turn is cancelled; and
\* the controls of the browser still reach the turn.
PausedIsHeld ==
  pause.requested /\ InTurn /\ seen.paused = eng.turn =>
    \/ cancel
    \/ run.agent_task /\ (run.owner = "user" \/ run.transferring \/ run.help # NoHelp)

\* Nothing of an approval outlives its request: no card, no decision that is
\* remembered, whoever answered or withdrew it while the turn ended.
ApprovalsEnd == eng.pc # "asking" => bridge = NoApproval
=============================================================================
