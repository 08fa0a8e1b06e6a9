--------------------------- MODULE HandoffProofs ---------------------------
(***************************************************************************)
(* The safety of the handoff, for any people, turns and requests.          *)
(*                                                                         *)
(* None of it is inductive alone.  That a paused turn can be resumed needs *)
(* that one actor at a time changes control (Exclusive), since a takeover  *)
(* and a return under way would each undo what the other relies on.  That  *)
(* an action after a takeover is dropped needs the order of what it was    *)
(* planned and issued under against the pause and the change of owner      *)
(* (Ordered).  That a browser a person took is not claimed by the turn     *)
(* needs that its hold lasts until the monitor ends the turn (Kept), and   *)
(* all of them need which turn the engine and the monitor are in (Turns).  *)
(***************************************************************************)
EXTENDS Handoff, TLAPS

Engines ==
  [pc : {"off", "top", "request", "sampling", "final", "reconcile", "call", "asking", "ready",
         "claiming", "taking", "queued", "acting", "helping", "closing"},
   turn : Turn \cup {None}, plan : Nat, issued : Nat]
Monitors == {"off", "told", "ended", "handing", "returning", "releasing"}
Pauses == [requested : BOOLEAN, generation : Nat]
Helps == [turn : Turn \cup {None}, id : Nat, status : {"none", "pending", "human"}]
Runs ==
  [owner : {"user", "agent"}, generation : Nat, transferring : BOOLEAN,
   user_hold : BOOLEAN, agent_task : BOOLEAN, help : Helps]
Calls ==
  [pc : {"idle", "waiting", "moving", "looking", "resuming", "coming", "observing",
         "answering"},
   wants : {"none", "user", "agent", "takeover", "continue", "ignore"},
   seen : Nat, turn : Turn \cup {None}]
Bridges ==
  [pending : BOOLEAN, meta : BOOLEAN, remember : BOOLEAN,
   future : {"none", "pending", "approved", "denied", "cancelled"}]
Histories == [untold : BOOLEAN, paused : Turn \cup {None}, held : Turn \cup {None}]

Shape ==
  /\ active \in Turn \cup {None} /\ left \in 0..MaxAsks
  /\ eng \in Engines /\ mon \in Monitors /\ pause \in Pauses
  /\ resume \in BOOLEAN /\ cancel \in BOOLEAN /\ run \in Runs
  /\ call \in [Human -> Calls] /\ bridge \in Bridges /\ seen \in Histories

LEMMA ShapeIsType == Shape => TypeOK
BY DEF TypeOK, Shape, Engines, Monitors, Pauses, Helps, Runs, Calls, Bridges, Histories

\* The turn, between the engine that runs it and the monitor that closes it.
Turns ==
  /\ active \in {None, eng.turn, eng.turn + 1}
  /\ InTurn => active = eng.turn /\ mon = "off" /\ eng.turn # None
  /\ mon # "off" => active = eng.turn /\ eng.turn # None
  /\ run.help.turn <= eng.turn /\ seen.paused <= eng.turn

\* control_lock has one holder, among people, the engine and the monitor.
Holds(h) == call[h].pc \notin {"idle", "waiting"}
Exclusive ==
  /\ \A h, g \in Human : Holds(h) /\ Holds(g) => h = g
  /\ \A h \in Human : Holds(h) => eng.pc # "taking" /\ mon # "returning"

\* What the model was not told of lies after its plan, and before an action
\* that is queued.
Ordered ==
  /\ eng.issued <= run.generation /\ eng.plan <= pause.generation
  /\ seen.untold /\ InTurn /\ ~pause.requested => resume
  /\ seen.untold /\ InTurn /\ eng.pc # "top" => eng.plan < pause.generation
  /\ eng.pc \in {"claiming", "taking"} => ~seen.untold /\ ~pause.requested
  /\ eng.pc = "claiming" => ~run.agent_task
  /\ eng.pc = "queued" /\ seen.untold => eng.issued < run.generation \/ run.owner = "user"

\* A turn that was paused while it ran.
Held == pause.requested /\ InTurn /\ seen.paused = eng.turn
Resumable ==
  /\ Held /\ ~cancel =>
       run.agent_task /\ (run.owner = "user" \/ run.transferring \/ run.help.turn = eng.turn)
  /\ \A h \in Human :
       /\ call[h].pc = "coming" => run.owner = "user"
       /\ call[h].pc = "moving" => \/ call[h].wants = "user" /\ run.owner = "user"
                                   \/ call[h].wants = "agent" /\ (Held => cancel)

\* What keeps the agent from a browser that a person took.
Kept ==
  /\ seen.held # None /\ mon = "off" => run.user_hold \/ run.agent_task
  /\ run.help.turn = active /\ active # None /\ mon = "off" => run.agent_task
  /\ \A h \in Human : call[h].pc = "looking" => seen.held = None
-----------------------------------------------------------------------------
(* What the helpers return.                                                *)

\* A transfer of control.
LEMMA ToType ==
  ASSUME NEW r \in Runs, NEW o \in {"user", "agent"}
  PROVE  /\ To(r, o) \in Runs
         /\ To(r, o).owner = o /\ To(r, o).transferring = TRUE
         /\ To(r, o).generation = r.generation + 1 /\ To(r, o).help = r.help
         /\ To(r, o).user_hold = r.user_hold /\ To(r, o).agent_task = r.agent_task
<1> DEFINE owned == [r EXCEPT !.owner = o]
           counted == [owned EXCEPT !.generation = owned.generation + 1]
<1>1. /\ owned \in Runs /\ owned.owner = o /\ owned.generation = r.generation
      /\ owned.help = r.help /\ owned.user_hold = r.user_hold
      /\ owned.agent_task = r.agent_task
  BY DEF Runs
<1> HIDE DEF owned
<1>2. /\ counted \in Runs /\ counted.owner = o /\ counted.generation = r.generation + 1
      /\ counted.help = r.help /\ counted.user_hold = r.user_hold
      /\ counted.agent_task = r.agent_task
  BY <1>1 DEF Runs
<1> HIDE DEF counted
<1> QED
  BY <1>2 DEF To, Runs, owned, counted

LEMMA FlagType ==
  ASSUME NEW r \in Runs, NEW b \in BOOLEAN
  PROVE  /\ [r EXCEPT !.user_hold = b] \in Runs /\ [r EXCEPT !.agent_task = b] \in Runs
         /\ [r EXCEPT !.transferring = b] \in Runs
BY DEF Runs

LEMMA PausedType ==
  ASSUME Shape
  PROVE  /\ Paused \in Pauses /\ Paused.requested
         /\ pause.requested => Paused = pause
         /\ ~pause.requested => Paused.generation = pause.generation + 1
BY DEF Paused, Shape, Pauses

LEMMA NotedType ==
  ASSUME Shape
  PROVE  /\ Noted \in Histories /\ Noted.held = seen.held
         /\ pause.requested => Noted = seen
         /\ ~pause.requested =>
              Noted.untold /\ Noted.paused = IF InTurn THEN eng.turn ELSE None
BY DEF Noted, Shape, Histories, Engines, None

LEMMA HelpedType ==
  ASSUME Shape
  PROVE  /\ Helped(run) \in Runs /\ Helped(run).agent_task = TRUE
         /\ Helped(run).help.turn = active /\ Helped(run).owner = run.owner
         /\ Helped(run).generation = run.generation
         /\ Helped(run).user_hold = run.user_hold
         /\ Helped(run).transferring = run.transferring
<1> DEFINE help == [turn |-> active, id |-> Paused.generation, status |-> HelpStatus]
           tasked == [run EXCEPT !.agent_task = TRUE]
<1>1. help \in Helps /\ help.turn = active
  BY PausedType DEF Shape, Pauses, Helps, HelpStatus
<1>2. /\ tasked \in Runs /\ tasked.agent_task = TRUE
      /\ tasked.owner = run.owner /\ tasked.generation = run.generation
      /\ tasked.user_hold = run.user_hold /\ tasked.transferring = run.transferring
  BY DEF Shape, Runs
<1> HIDE DEF help, tasked
<1>3. [tasked EXCEPT !.help = help] = Helped(run)
  BY DEF Helped, help, tasked
<1> QED
  BY <1>1, <1>2, <1>3 DEF Runs
-----------------------------------------------------------------------------
\* What the changes of control do to the run.
Transfers(o) ==
  run'.owner = o /\ run'.transferring /\ run'.generation = run.generation + 1
Stays ==
  /\ run'.owner = run.owner /\ run'.transferring = run.transferring
  /\ run'.generation = run.generation
Same == run'.user_hold = run.user_hold /\ run'.agent_task = run.agent_task

\* Where an action that is issued leaves the engine.
Issued(r) ==
  /\ eng'.turn = eng.turn /\ eng'.plan = eng.plan
  /\ \/ eng'.pc \in {"call", "top"} /\ eng'.issued = eng.issued
     \/ eng'.pc = "queued" /\ eng'.issued = r.generation

LEMMA IssueEffect ==
  ASSUME Shape, NEW r \in Runs, Issue(r)
  PROVE  Issued(r)
BY DEF Issue, Issued, AfterCall, Engine, Shape, Engines

LEMMA ActsEffect ==
  ASSUME Shape, Acts
  PROVE  /\ eng.pc = "ready" /\ ~Intervened
         /\ eng'.turn = eng.turn /\ eng'.plan = eng.plan
         /\ \/ eng'.pc = "claiming" /\ ~run.agent_task /\ eng'.issued = eng.issued
            \/ Issued(run)
         /\ UNCHANGED <<active, mon, call, left, pause, resume, cancel, run, bridge, seen>>
<1>1. eng.pc = "ready" /\ ~Intervened
  BY DEF Acts
<1>2. UNCHANGED <<active, mon, call, left, pause, resume, cancel, run, bridge, seen>>
  BY DEF Acts, host
<1>3. CASE run.agent_task
  <2>1. Issued(run)
    BY <1>3, IssueEffect DEF Acts, Shape
  <2> QED
    BY <1>1, <1>2, <2>1 DEF Issued
<1>4. CASE ~run.agent_task
  BY <1>1, <1>2, <1>4 DEF Acts, Engine, Shape, Engines
<1> QED
  BY <1>3, <1>4

LEMMA ClaimEffect ==
  ASSUME Shape, ClaimBegins
  PROVE  /\ run'.user_hold = run.user_hold /\ run'.agent_task /\ run'.help = run.help
         /\ eng'.turn = eng.turn /\ eng'.plan = eng.plan
         /\ \/ /\ ~run.agent_task /\ UserBrowsing(run) /\ Transfers("agent")
               /\ eng'.pc = "taking" /\ eng'.issued = eng.issued
            \/ Stays /\ Issued(run)
<1> DEFINE claimed == [run EXCEPT !.agent_task = TRUE]
<1>1. /\ claimed \in Runs /\ claimed.user_hold = run.user_hold /\ claimed.agent_task = TRUE
      /\ claimed.help = run.help /\ claimed.owner = run.owner
      /\ claimed.generation = run.generation /\ claimed.transferring = run.transferring
  BY DEF Shape, Runs
<1> HIDE DEF claimed
<1>2. CASE ~run.agent_task /\ UserBrowsing(run)
  <2>1. run' = To(claimed, "agent") /\ eng' = [eng EXCEPT !.pc = "taking"]
    BY <1>2 DEF ClaimBegins, Engine, claimed
  <2> QED
    BY <1>1, <1>2, <2>1, ToType, ZenonT(40) DEF Transfers, Shape, Engines
<1>3. CASE ~(~run.agent_task /\ UserBrowsing(run))
  <2>1. run' = claimed /\ Issue(claimed)
    BY <1>3 DEF ClaimBegins, claimed
  <2>2. Issued(claimed)
    BY <1>1, <2>1, IssueEffect
  <2> QED
    BY <1>1, <2>1, <2>2 DEF Stays, Issued
<1> QED
  BY <1>2, <1>3

LEMMA HandsBackEffect ==
  ASSUME Shape, HandsBack
  PROVE  Same /\ run'.help = run.help /\ (Stays \/ Transfers("user"))
<1>1. CASE run.owner = "agent" /\ ~run.agent_task /\ run.help = NoHelp
  <2>1. run' = To(run, "user")
    BY <1>1 DEF HandsBack
  <2> QED
    BY <2>1, ToType DEF Shape, Transfers, Same
<1>2. CASE ~(run.owner = "agent" /\ ~run.agent_task /\ run.help = NoHelp)
  BY <1>2 DEF HandsBack, Stays, Same
<1> QED
  BY <1>1, <1>2

LEMMA TakesOverEffect ==
  ASSUME Shape, NEW h \in Human, TakesOver(h)
  PROVE  /\ run'.user_hold = (active # None) /\ run'.agent_task = run.agent_task
         /\ run'.help = run.help /\ run'.owner = "user"
         /\ \/ Transfers("user") /\ call'[h].pc = "moving" /\ call'[h].wants = "user"
            \/ Stays /\ call'[h] = NoCall
         /\ seen'.held = active
         /\ \/ /\ UsesBrowser /\ pause' = Paused
               /\ seen'.untold = Noted.untold /\ seen'.paused = Noted.paused
            \/ /\ ~UsesBrowser /\ pause' = pause
               /\ seen'.untold = seen.untold /\ seen'.paused = seen.paused
<1> DEFINE held == [run EXCEPT !.user_hold = active # None]
<1>1. /\ held \in Runs /\ held.user_hold = (active # None)
      /\ held.agent_task = run.agent_task
      /\ held.help = run.help /\ held.owner = run.owner
      /\ held.generation = run.generation /\ held.transferring = run.transferring
  BY DEF Shape, Runs
<1> HIDE DEF held
<1>2. call[h] \in Calls /\ call[h].wants = "user"
  BY DEF Shape, TakesOver, Wants
<1>3. /\ seen'.held = active
      /\ \/ /\ UsesBrowser /\ pause' = Paused
            /\ seen'.untold = Noted.untold /\ seen'.paused = Noted.paused
         \/ /\ ~UsesBrowser /\ pause' = pause
            /\ seen'.untold = seen.untold /\ seen'.paused = seen.paused
  <2> DEFINE noted == IF UsesBrowser THEN Noted ELSE seen
  <2>1. noted \in Histories /\ seen' = [noted EXCEPT !.held = active]
    BY NotedType DEF TakesOver, Shape
  <2>2. pause' = IF UsesBrowser THEN Paused ELSE pause
    BY DEF TakesOver
  <2> HIDE DEF noted
  <2>3. /\ seen'.held = active /\ seen'.untold = noted.untold
        /\ seen'.paused = noted.paused
    BY <2>1 DEF Histories
  <2> QED
    BY <2>2, <2>3 DEF noted
<1>4. CASE run.owner # "user"
  <2>1. run' = To(held, "user") /\ call' = [call EXCEPT ![h].pc = "moving"]
    BY <1>4 DEF TakesOver, held, Call
  <2>2. call'[h].pc = "moving" /\ call'[h].wants = "user"
    BY <1>2, <2>1 DEF Shape, Calls
  <2> QED
    <3>1. /\ run'.user_hold = held.user_hold /\ run'.agent_task = held.agent_task
          /\ run'.help = held.help /\ run'.owner = "user" /\ Transfers("user")
      <4>1. /\ To(held, "user").owner = "user" /\ To(held, "user").transferring
            /\ To(held, "user").generation = run.generation + 1
            /\ To(held, "user").user_hold = held.user_hold
            /\ To(held, "user").agent_task = held.agent_task
            /\ To(held, "user").help = held.help
        BY <1>1, ToType, ZenonT(40)
      <4> QED
        BY <2>1, <4>1 DEF Transfers
    <3> QED
      BY <1>1, <1>3, <2>2, <3>1
<1>5. CASE run.owner = "user"
  <2>1. run' = held /\ call' = [call EXCEPT ![h] = NoCall]
    BY <1>5 DEF TakesOver, held, Done
  <2> QED
    BY <1>1, <1>3, <1>5, <2>1 DEF Stays, Shape
<1> QED
  BY <1>4, <1>5

LEMMA ReturnsEffect ==
  ASSUME Shape, NEW h \in Human, Returns(h)
  PROVE  /\ run'.agent_task = run.agent_task /\ run'.help = run.help
         /\ \/ Stays /\ call'[h].pc = "looking" /\ UsesBrowser /\ pause.requested
            \/ /\ Transfers("agent") /\ call'[h].pc = "moving" /\ call'[h].wants = "agent"
               /\ ~(UsesBrowser /\ pause.requested)
            \/ Stays /\ call'[h] = NoCall
<1> DEFINE freed == [run EXCEPT !.user_hold = FALSE]
<1>1. /\ freed \in Runs /\ freed.agent_task = run.agent_task
      /\ freed.help = run.help /\ freed.owner = run.owner
      /\ freed.generation = run.generation /\ freed.transferring = run.transferring
  BY DEF Shape, Runs
<1> HIDE DEF freed
<1>2. call[h] \in Calls /\ call[h].wants = "agent"
  BY DEF Shape, Returns, Wants
<1>3. CASE UsesBrowser /\ pause.requested
  <2>1. /\ run' = freed
        /\ call' = [call EXCEPT ![h].pc = "looking", ![h].turn = active]
    BY <1>3 DEF Returns, freed
  <2>2. call'[h].pc = "looking"
    BY <1>2, <2>1 DEF Shape, Calls
  <2> QED
    BY <1>1, <1>3, <2>1, <2>2 DEF Stays
<1>4. CASE ~(UsesBrowser /\ pause.requested) /\ run.owner # "agent"
  <2>1. run' = To(freed, "agent") /\ call' = [call EXCEPT ![h].pc = "moving"]
    BY <1>4 DEF Returns, freed, Call
  <2>2. call'[h].pc = "moving" /\ call'[h].wants = "agent"
    BY <1>2, <2>1 DEF Shape, Calls
  <2> QED
    BY <1>1, <1>4, <2>1, <2>2, ToType, ZenonT(40) DEF Transfers
<1>5. CASE ~(UsesBrowser /\ pause.requested) /\ run.owner = "agent"
  <2>1. run' = freed /\ call' = [call EXCEPT ![h] = NoCall]
    BY <1>5 DEF Returns, freed, Done
  <2> QED
    BY <1>1, <2>1 DEF Stays, Shape
<1> QED
  BY <1>3, <1>4, <1>5

LEMMA LookedEffect ==
  ASSUME Shape, NEW h \in Human, Looked(h) \/ Observed(h)
  PROVE  Same /\ run'.help = run.help /\ (Stays \/ Transfers("agent"))
BY ToType, ZenonT(40) DEF Looked, Observed, Shape, Stays, Transfers, Same

LEMMA HelpBeginsEffect ==
  ASSUME Shape, NEW h \in Human, HelpBegins(h)
  PROVE  /\ Same /\ run'.help.turn = run.help.turn /\ run'.owner = "user"
         /\ Stays \/ Transfers("user")
<1>1. CASE run.owner # "user"
  <2>1. run' = To(run, "user")
    BY <1>1 DEF HelpBegins
  <2> QED
    BY <2>1, ToType DEF Shape, Transfers, Same
<1>2. CASE run.owner = "user"
  <2>1. run' = [run EXCEPT !.help.status = "human"]
    BY <1>2 DEF HelpBegins
  <2> QED
    BY <1>2, <2>1 DEF Shape, Runs, Helps, Stays, Same
<1> QED
  BY <1>1, <1>2

LEMMA HelpEndsEffect ==
  ASSUME Shape, NEW h \in Human, HelpEnds(h)
  PROVE  /\ Same /\ run'.help = run.help
         /\ Stays \/ (run.owner = "agent" /\ Transfers("agent"))
<1>1. CASE run.owner = "user"
  <2>1. run' = run
    BY <1>1 DEF HelpEnds
  <2> QED
    BY <2>1 DEF Stays, Same
<1>2. CASE run.owner # "user"
  <2>1. run' = To(run, "agent") /\ run.owner = "agent"
    BY <1>2 DEF HelpEnds, Shape, Runs
  <2> QED
    BY <2>1, ToType DEF Shape, Transfers, Same
<1> QED
  BY <1>1, <1>2

LEMMA HelpAskedEffect ==
  ASSUME Shape, HelpAsked
  PROVE  /\ eng.pc = "helping" /\ eng'.pc \in {"call", "top"}
         /\ eng'.turn = eng.turn /\ eng'.plan = eng.plan /\ eng'.issued = eng.issued
         /\ UNCHANGED <<active, mon, call, resume, cancel, bridge>>
         /\ Stays /\ run'.user_hold = run.user_hold
         /\ \/ UNCHANGED <<pause, run, seen>>
            \/ /\ pause' = Paused /\ seen' = Noted
               /\ run'.agent_task /\ run'.help.turn = active
<1>1. /\ eng.pc = "helping" /\ eng'.pc \in {"call", "top"}
      /\ eng'.turn = eng.turn /\ eng'.plan = eng.plan /\ eng'.issued = eng.issued
  BY DEF HelpAsked, AfterCall, Engine, Shape, Engines
<1>2. UNCHANGED <<active, mon, call, resume, cancel, bridge>>
  BY DEF HelpAsked, host
<1>3. UNCHANGED <<pause, run, seen>> \/ (pause' = Paused /\ seen' = Noted /\ run' = Helped(run))
  BY DEF HelpAsked
<1> QED
  BY <1>1, <1>2, <1>3, HelpedType DEF Stays


LEMMA ClaimEndsEffect ==
  ASSUME Shape, ClaimEnds
  PROVE  /\ eng.pc = "taking" /\ Issued(run) /\ Same /\ run'.help = run.help
         /\ run'.owner = run.owner /\ run'.generation = run.generation
         /\ UNCHANGED <<active, mon, call, left, pause, resume, cancel, bridge, seen>>
<1>1. Issued(run)
  BY IssueEffect DEF ClaimEnds, Shape
<1>2. run' = [run EXCEPT !.transferring = FALSE]
  BY DEF ClaimEnds, Moved
<1>3. /\ Same /\ run'.help = run.help
      /\ run'.owner = run.owner /\ run'.generation = run.generation
  BY <1>2 DEF Shape, Runs, Same
<1> QED
  BY <1>1, <1>3 DEF ClaimEnds, host

LEMMA EngineTakesEffect ==
  ASSUME Shape, EngineTakes
  PROVE  /\ eng.pc = "off" /\ active # None /\ active # eng.turn
         /\ eng'.pc = "top" /\ eng'.turn = active /\ eng'.plan = eng.plan
         /\ eng'.issued = eng.issued /\ ~cancel'
         /\ ~seen'.untold /\ seen'.paused = seen.paused /\ seen'.held = seen.held
         /\ UNCHANGED <<active, mon, call, left, pause, resume, run, bridge>>
BY DEF EngineTakes, host, Shape, Engines, Histories

LEMMA ReturnsSeen ==
  ASSUME Shape, NEW h \in Human, Returns(h)
  PROVE  /\ seen'.held = None /\ seen'.paused = seen.paused /\ seen'.untold = seen.untold
         /\ UNCHANGED <<active, eng, mon, cancel, bridge, left, pause, resume>>
BY DEF Returns, people, Shape, Histories

LEMMA ObservedSeen ==
  ASSUME Shape, NEW h \in Human, Observed(h)
  PROVE  seen'.paused = seen.paused /\ seen'.untold = seen.untold
BY DEF Observed, Shape, Histories

LEMMA HelpBeginsSeen ==
  ASSUME Shape, NEW h \in Human, HelpBegins(h)
  PROVE  /\ seen'.held = active /\ seen'.paused = seen.paused
         /\ seen'.untold = seen.untold
BY DEF HelpBegins, Shape, Histories


LEMMA OrderedTransfer ==
  ASSUME Shape, Ordered, UNCHANGED <<eng, pause, resume>>,
         seen'.untold = seen.untold, run'.agent_task = run.agent_task,
         Stays \/ Transfers("user") \/ Transfers("agent")
  PROVE  Ordered'
BY DEF Shape, Ordered, InTurn, Stays, Transfers, Runs, Engines

LEMMA ResumableTransfer ==
  ASSUME Shape, Resumable, NEW h \in Human, UNCHANGED <<eng, pause, cancel>>,
         seen'.paused = seen.paused, run'.agent_task = run.agent_task,
         run'.help.turn = run.help.turn,
         Stays \/ Transfers("user") \/ Transfers("agent"),
         \A g \in Human : g # h => call'[g] = call[g] /\ ~Holds(g),
         call'[h].pc = "coming" => run'.owner = "user",
         call'[h].pc = "moving" =>
           \/ call'[h].wants = "user" /\ run'.owner = "user"
           \/ call'[h].wants = "agent" /\ (Held => cancel)
  PROVE  Resumable'
<1>1. Held' <=> Held
  BY DEF Held, InTurn
<1>2. (Held /\ ~cancel =>
         run.agent_task /\ (run.owner = "user" \/ run.transferring \/ run.help.turn = eng.turn))'
  BY <1>1 DEF Resumable, Stays, Transfers
<1>3. ASSUME NEW g \in Human
      PROVE  /\ call'[g].pc = "coming" => run'.owner = "user"
             /\ call'[g].pc = "moving" =>
                  \/ call'[g].wants = "user" /\ run'.owner = "user"
                  \/ call'[g].wants = "agent" /\ (Held' => cancel')
  BY <1>1 DEF Holds
<1> QED
  BY <1>2, <1>3 DEF Resumable
-----------------------------------------------------------------------------
(* The parts of the invariant, action by action.                           *)

LEMMA TypesStep == ASSUME Shape, [Next]_vars PROVE Shape'
<1> USE Assumptions
<1>1. CASE StartTurn
  <2>1. active' \in Turn \cup {None}
    BY <1>1 DEF StartTurn, None, Shape, Engines, Turn
  <2> QED
    BY <1>1, <2>1 DEF Shape, StartTurn
<1>2. CASE EngineTakes
  <2>1. eng' \in Engines
    BY <1>2 DEF EngineTakes, Shape, Engines
  <2>2. cancel' \in BOOLEAN
    BY <1>2 DEF EngineTakes, Shape
  <2>3. seen' \in Histories
    BY <1>2 DEF EngineTakes, None, Shape, Histories
  <2> QED
    BY <1>2, <2>1, <2>2, <2>3 DEF Shape, EngineTakes, host
<1>3. CASE RoundBegins
  <2>1. eng' \in Engines
    BY <1>3 DEF RoundBegins, Shape, Engines, Pauses
  <2>2. resume' \in BOOLEAN
    BY <1>3 DEF RoundBegins, Shape
  <2>3. seen' \in Histories
    BY <1>3 DEF RoundBegins, Shape, Histories
  <2> QED
    BY <1>3, <2>1, <2>2, <2>3 DEF Shape, RoundBegins, host
<1>4. CASE Samples
  <2>1. eng' \in Engines
    BY <1>4 DEF Samples, Engine, Shape, Engines
  <2> QED
    BY <1>4, <2>1 DEF Shape, Samples, host
<1>5. CASE Answers
  <2>1. eng' \in Engines
    BY <1>5 DEF Answers, Engine, Shape, Engines
  <2> QED
    BY <1>5, <2>1 DEF Shape, Answers, host
<1>6. CASE Concludes
  <2>1. eng' \in Engines
    BY <1>6 DEF Concludes, Engine, Shape, Engines
  <2> QED
    BY <1>6, <2>1 DEF Shape, Concludes, host
<1>7. CASE Continues
  <2>1. eng' \in Engines
    BY <1>7 DEF Continues, Engine, Shape, Engines
  <2> QED
    BY <1>7, <2>1 DEF Shape, Continues, host
<1>8. CASE Completes
  <2>1. eng' \in Engines
    BY <1>8 DEF Completes, Engine, Shape, Engines
  <2>2. mon' \in Monitors
    BY <1>8 DEF Completes, Shape, Monitors
  <2> QED
    BY <1>8, <2>1, <2>2 DEF Shape, Completes
<1>9. CASE Refused
  <2>1. eng' \in Engines
    BY <1>9 DEF Refused, AfterCall, Engine, Shape, Engines
  <2> QED
    BY <1>9, <2>1 DEF Shape, Refused, host
<1>10. CASE Prepares
  <2>1. eng' \in Engines
    BY <1>10 DEF Prepares, Engine, Shape, Engines
  <2> QED
    BY <1>10, <2>1 DEF Shape, Prepares, host
<1>11. CASE AsksApproval
  <2>1. eng' \in Engines
    BY <1>11 DEF AsksApproval, Engine, Shape, Engines
  <2>2. bridge' \in Bridges
    BY <1>11 DEF AsksApproval, Shape, Bridges
  <2> QED
    BY <1>11, <2>1, <2>2 DEF Shape, AsksApproval, host
<1>12. CASE Approved
  <2>1. eng' \in Engines
    BY <1>12 DEF Approved, Engine, Shape, Engines
  <2>2. bridge' \in Bridges
    BY <1>12 DEF Approved, Discarded, NoApproval, Shape, Bridges
  <2> QED
    BY <1>12, <2>1, <2>2 DEF Shape, Approved, host
<1>13. CASE Denied
  <2>1. eng' \in Engines
    BY <1>13 DEF Denied, AfterCall, Engine, Shape, Engines
  <2>2. bridge' \in Bridges
    BY <1>13 DEF Denied, Discarded, NoApproval, Shape, Bridges
  <2> QED
    BY <1>13, <2>1, <2>2 DEF Shape, Denied, host
<1>14. CASE Acts
  <2>1. eng' \in Engines
    BY <1>14 DEF Acts, Issue, AfterCall, Engine, Shape, Engines, Runs
  <2> QED
    BY <1>14, <2>1 DEF Shape, Acts, host
<1>15. CASE ClaimBegins
  <2> DEFINE claimed == [run EXCEPT !.agent_task = TRUE]
  <2>1. claimed \in Runs
    BY FlagType DEF Shape
  <2>2. run' \in Runs
    BY <1>15, <2>1, ToType DEF ClaimBegins
  <2>3. eng' \in Engines
    <3>1. CASE ~run.agent_task /\ UserBrowsing(run)
      BY <1>15, <3>1 DEF ClaimBegins, Engine, Shape, Engines
    <3>2. CASE ~(~run.agent_task /\ UserBrowsing(run))
      <4>1. Issue(claimed)
        BY <1>15, <3>2 DEF ClaimBegins
      <4> QED
        BY <2>1, <4>1 DEF Issue, AfterCall, Engine, Shape, Engines, Runs
    <3> QED
      BY <3>1, <3>2
  <2> QED
    BY <1>15, <2>2, <2>3 DEF Shape, ClaimBegins, host
<1>16. CASE ClaimEnds
  <2>1. eng' \in Engines
    BY <1>16 DEF ClaimEnds, Issue, AfterCall, Engine, Shape, Engines, Runs
  <2>2. run' \in Runs
    BY <1>16 DEF ClaimEnds, Moved, NoHelp, None, Shape, Runs, Helps
  <2> QED
    BY <1>16, <2>1, <2>2 DEF Shape, ClaimEnds, host
<1>17. CASE Executes
  <2>1. eng' \in Engines
    BY <1>17 DEF Executes, Engine, Shape, Engines
  <2> QED
    BY <1>17, <2>1 DEF Shape, Executes, host
<1>18. CASE Drops
  <2>1. eng' \in Engines
    BY <1>18 DEF Drops, AfterCall, Engine, Shape, Engines
  <2> QED
    BY <1>18, <2>1 DEF Shape, Drops, host
<1>19. CASE Executed
  <2>1. eng' \in Engines
    BY <1>19 DEF Executed, AfterCall, Engine, Shape, Engines
  <2> QED
    BY <1>19, <2>1 DEF Shape, Executed, host
<1>20. CASE NeedsHelp
  <2>1. eng' \in Engines
    BY <1>20 DEF NeedsHelp, Engine, Shape, Engines
  <2> QED
    BY <1>20, <2>1 DEF Shape, NeedsHelp, host
<1>21. CASE HelpAsked
  <2>1. eng' \in Engines
    BY <1>21 DEF HelpAsked, AfterCall, Engine, Shape, Engines
  <2>2. pause' \in Pauses
    BY <1>21, PausedType DEF HelpAsked, Shape
  <2>3. run' \in Runs
    BY <1>21, HelpedType DEF HelpAsked, Shape
  <2>4. seen' \in Histories
    BY <1>21 DEF HelpAsked, Noted, None, Shape, Histories, Engines
  <2> QED
    BY <1>21, <2>1, <2>2, <2>3, <2>4 DEF Shape, HelpAsked, host
<1>22. CASE Cancelled
  <2>1. eng' \in Engines
    BY <1>22 DEF Cancelled, Engine, Shape, Engines
  <2>2. mon' \in Monitors
    BY <1>22 DEF Cancelled, Shape, Monitors
  <2>3. run' \in Runs
    BY <1>22 DEF Cancelled, Shape, Runs, Helps
  <2>4. bridge' \in Bridges
    BY <1>22 DEF Cancelled, Discarded, NoApproval, Shape, Bridges
  <2> QED
    BY <1>22, <2>1, <2>2, <2>3, <2>4 DEF Shape, Cancelled
<1>23. CASE Idles
  <2>1. eng' \in Engines
    BY <1>23 DEF Idles, Engine, Shape, Engines
  <2>2. pause' \in Pauses
    BY <1>23 DEF Idles, Released, Shape, Pauses
  <2>3. resume' \in BOOLEAN
    BY <1>23 DEF Idles, Shape
  <2> QED
    BY <1>23, <2>1, <2>2, <2>3 DEF Shape, Idles, host
<1>24. CASE TaskEnds
  <2>1. mon' \in Monitors
    BY <1>24 DEF TaskEnds, Monitor, Shape, Monitors
  <2>2. run' \in Runs
    BY <1>24 DEF TaskEnds, Shape, Runs, Helps
  <2>3. bridge' \in Bridges
    BY <1>24 DEF TaskEnds, Withdrawn, NoApproval, Shape, Bridges
  <2> QED
    BY <1>24, <2>1, <2>2, <2>3 DEF Shape, TaskEnds, agent
<1>25. CASE HoldEnds
  <2>1. mon' \in Monitors
    BY <1>25 DEF HoldEnds, Monitor, Shape, Monitors
  <2>2. run' \in Runs
    BY <1>25 DEF HoldEnds, NoHelp, None, Shape, Runs, Helps
  <2> QED
    BY <1>25, <2>1, <2>2 DEF Shape, HoldEnds, agent
<1>26. CASE HandsBack
  <2>1. mon' \in Monitors
    BY <1>26 DEF HandsBack, Monitor, Shape, Monitors
  <2>2. run' \in Runs
    BY <1>26, ToType, FlagType DEF HandsBack, Shape
  <2> QED
    BY <1>26, <2>1, <2>2 DEF Shape, HandsBack, agent
<1>27. CASE HandedBack
  <2>1. mon' \in Monitors
    BY <1>27 DEF HandedBack, Monitor, Shape, Monitors
  <2>2. run' \in Runs
    BY <1>27 DEF HandedBack, Moved, Shape, Runs, Helps
  <2> QED
    BY <1>27, <2>1, <2>2 DEF Shape, HandedBack, agent
<1>28. CASE Releases
  <2>1. active' \in Turn \cup {None}
    BY <1>28 DEF Releases, None, Shape, Engines, Turn
  <2>2. mon' \in Monitors
    BY <1>28 DEF Releases, Monitor, Shape, Monitors
  <2>3. seen' \in Histories
    BY <1>28 DEF Releases, None, Shape, Histories
  <2> QED
    BY <1>28, <2>1, <2>2, <2>3 DEF Shape, Releases, agent
<1>29. CASE Lists
  <2>1. run' \in Runs
    BY <1>29 DEF Lists, NoHelp, None, Shape, Runs, Helps
  <2> QED
    BY <1>29, <2>1 DEF Shape, Lists, people
<1>30. CASE Resolves
  <2>1. bridge' \in Bridges
    BY <1>30 DEF Resolves, Shape, Bridges
  <2> QED
    BY <1>30, <2>1 DEF Shape, Resolves, agent
<1>31. CASE Interrupts
  <2>1. cancel' \in BOOLEAN
    BY <1>31 DEF Interrupts, Shape
  <2>2. bridge' \in Bridges
    BY <1>31 DEF Interrupts, Withdrawn, NoApproval, Shape, Bridges
  <2> QED
    BY <1>31, <2>1, <2>2 DEF Shape, Interrupts
<1>32. ASSUME NEW h \in Human, Asks(h) PROVE Shape'
  <2>1. call' \in [Human -> Calls]
    BY <1>32 DEF Asks, None, Shape, Calls, Runs, Helps
  <2>2. left' \in 0..MaxAsks
    BY <1>32 DEF Asks, Shape
  <2> QED
    BY <1>32, <2>1, <2>2 DEF Shape, Asks, agent
<1>33. ASSUME NEW h \in Human, Rejected(h) PROVE Shape'
  <2>1. call' \in [Human -> Calls]
    BY <1>33 DEF Rejected, Done, NoCall, None, Shape, Calls, Runs, Helps
  <2> QED
    BY <1>33, <2>1 DEF Shape, Rejected, people
<1>34. ASSUME NEW h \in Human, TakesOver(h) PROVE Shape'
  <2>1. pause' \in Pauses
    BY <1>34, PausedType DEF TakesOver, Shape
  <2>2. run' \in Runs
    BY <1>34, ToType, FlagType, ZenonT(40) DEF TakesOver, Shape
  <2>3. call' \in [Human -> Calls]
    BY <1>34 DEF TakesOver, None, Call, Done, NoCall, Shape, Calls, Runs, Helps
  <2>4. seen' \in Histories
    BY <1>34 DEF TakesOver, None, Noted, Shape, Histories, Engines
  <2> QED
    BY <1>34, <2>1, <2>2, <2>3, <2>4 DEF Shape, TakesOver, people
<1>35. ASSUME NEW h \in Human, TookOver(h) PROVE Shape'
  <2>1. run' \in Runs
    BY <1>35 DEF TookOver, Moved, None, Shape, Runs, Helps
  <2>2. call' \in [Human -> Calls]
    BY <1>35 DEF TookOver, Done, NoCall, None, Shape, Calls, Runs, Helps
  <2> QED
    BY <1>35, <2>1, <2>2 DEF Shape, TookOver, people
<1>36. ASSUME NEW h \in Human, Returns(h) PROVE Shape'
  <2>1. run' \in Runs
    BY <1>36, ToType, FlagType DEF Returns, Shape
  <2>2. call' \in [Human -> Calls]
    BY <1>36 DEF Returns, None, Call, Done, NoCall, Shape, Calls, Runs, Helps
  <2>3. seen' \in Histories
    BY <1>36 DEF Returns, None, Shape, Histories
  <2> QED
    BY <1>36, <2>1, <2>2, <2>3 DEF Shape, Returns, people
<1>37. ASSUME NEW h \in Human, Looked(h) PROVE Shape'
  <2>1. run' \in Runs
    BY <1>37, ToType, FlagType DEF Looked, Shape
  <2>2. call' \in [Human -> Calls]
    BY <1>37 DEF Looked, Done, NoCall, None, Call, Shape, Calls, Runs, Helps
  <2> QED
    BY <1>37, <2>1, <2>2 DEF Shape, Looked, people
<1>38. ASSUME NEW h \in Human, Resumed(h) PROVE Shape'
  <2>1. pause' \in Pauses
    BY <1>38 DEF Resumed, Released, Shape, Pauses
  <2>2. resume' \in BOOLEAN
    BY <1>38 DEF Resumed, Shape
  <2>3. run' \in Runs
    BY <1>38 DEF Resumed, Moved, None, Shape, Runs, Helps
  <2>4. call' \in [Human -> Calls]
    BY <1>38 DEF Resumed, Done, NoCall, None, Shape, Calls, Runs, Helps
  <2> QED
    BY <1>38, <2>1, <2>2, <2>3, <2>4 DEF Shape, Resumed, people
<1>39. ASSUME NEW h \in Human, NotHelped(h) PROVE Shape'
  <2>1. call' \in [Human -> Calls]
    BY <1>39 DEF NotHelped, Done, NoCall, None, Shape, Calls, Runs, Helps
  <2> QED
    BY <1>39, <2>1 DEF Shape, NotHelped, people
<1>40. ASSUME NEW h \in Human, HelpBegins(h) PROVE Shape'
  <2>1. run' \in Runs
    <3>1. CASE run.owner # "user"
      BY <1>40, <3>1, ToType DEF HelpBegins, Shape
    <3>2. CASE run.owner = "user"
      BY <1>40, <3>2 DEF HelpBegins, Shape, Runs, Helps
    <3> QED
      BY <3>1, <3>2
  <2>2. call' \in [Human -> Calls]
    BY <1>40 DEF HelpBegins, Call, Done, NoCall, None, Shape, Calls
  <2>3. seen' \in Histories
    BY <1>40 DEF HelpBegins, Shape, Histories
  <2> QED
    BY <1>40, <2>1, <2>2, <2>3 DEF Shape, HelpBegins, people
<1>41. ASSUME NEW h \in Human, HelpTaken(h) PROVE Shape'
  <2>1. run' \in Runs
    BY <1>41 DEF HelpTaken, NoHelp, None, Shape, Runs, Helps
  <2>2. call' \in [Human -> Calls]
    BY <1>41 DEF HelpTaken, None, Done, NoCall, Shape, Calls, Runs, Helps
  <2> QED
    BY <1>41, <2>1, <2>2 DEF Shape, HelpTaken, people
<1>42. ASSUME NEW h \in Human, HelpEnds(h) PROVE Shape'
  <2>1. run' \in Runs
    BY <1>42, ToType, FlagType DEF HelpEnds, Shape
  <2>2. call' \in [Human -> Calls]
    BY <1>42 DEF HelpEnds, Call, Shape, Calls, Runs, Helps
  <2> QED
    BY <1>42, <2>1, <2>2 DEF Shape, HelpEnds, people
<1>43. ASSUME NEW h \in Human, Observed(h) PROVE Shape'
  <2>1. run' \in Runs
    BY <1>43, ToType, FlagType DEF Observed, Shape
  <2>2. call' \in [Human -> Calls]
    BY <1>43 DEF Observed, Done, NoCall, None, Call, Shape, Calls, Runs, Helps
  <2>3. seen' \in Histories
    BY <1>43 DEF Observed, None, Shape, Histories
  <2> QED
    BY <1>43, <2>1, <2>2, <2>3 DEF Shape, Observed, people
<1>44. ASSUME NEW h \in Human, Answered(h) PROVE Shape'
  <2>1. pause' \in Pauses
    BY <1>44 DEF Answered, Released, Shape, Pauses
  <2>2. resume' \in BOOLEAN
    BY <1>44 DEF Answered, Shape
  <2>3. run' \in Runs
    BY <1>44 DEF Answered, NoHelp, None, Shape, Runs, Helps
  <2>4. call' \in [Human -> Calls]
    BY <1>44 DEF Answered, None, Done, NoCall, Shape, Calls, Runs, Helps
  <2>5. seen' \in Histories
    BY <1>44 DEF Answered, None, Shape, Histories
  <2> QED
    BY <1>44, <2>1, <2>2, <2>3, <2>4, <2>5 DEF Shape, Answered, people
<1>45. CASE UNCHANGED vars
  BY <1>45 DEF Shape, vars
<1> QED BY <1>1, <1>2, <1>3, <1>4, <1>5, <1>6, <1>7, <1>8, <1>9, <1>10, <1>11, <1>12, <1>13,
    <1>14, <1>15, <1>16, <1>17, <1>18, <1>19, <1>20, <1>21, <1>22, <1>23, <1>24, <1>25,
    <1>26, <1>27, <1>28, <1>29, <1>30, <1>31, <1>32, <1>33, <1>34, <1>35, <1>36, <1>37,
    <1>38, <1>39, <1>40, <1>41, <1>42, <1>43, <1>44, <1>45 DEF Next, RunEngine, RunMonitor,
    Person

LEMMA TurnsStep == ASSUME Shape, Turns, [Next]_vars PROVE Turns'
<1>1. CASE StartTurn
  BY <1>1 DEF StartTurn, Turns, InTurn
<1>2. CASE EngineTakes
  BY <1>2 DEF EngineTakes, None, host, Turns, Shape, Engines, Runs, Helps, Histories,
     Turn
<1>3. CASE RoundBegins
  BY <1>3 DEF RoundBegins, host, Turns, InTurn
<1>4. CASE Samples
  BY <1>4 DEF Samples, Engine, host, Turns, InTurn
<1>5. CASE Answers
  BY <1>5 DEF Answers, Engine, host, Turns, InTurn
<1>6. CASE Concludes
  BY <1>6 DEF Concludes, Engine, host, Turns, InTurn
<1>7. CASE Continues
  BY <1>7 DEF Continues, Engine, host, Turns, InTurn
<1>8. CASE Completes
  BY <1>8 DEF Completes, Engine, Turns, InTurn
<1>9. CASE Refused
  BY <1>9 DEF Refused, AfterCall, Engine, host, Turns, InTurn
<1>10. CASE Prepares
  BY <1>10 DEF Prepares, Engine, host, Turns, InTurn
<1>11. CASE AsksApproval
  BY <1>11 DEF AsksApproval, Engine, host, Turns, InTurn
<1>12. CASE Approved
  BY <1>12 DEF Approved, Engine, host, Turns, InTurn
<1>13. CASE Denied
  BY <1>13 DEF Denied, AfterCall, Engine, host, Turns, InTurn
<1>14. CASE Acts
  BY <1>14, ActsEffect DEF Turns, InTurn
<1>15. CASE ClaimBegins
  BY <1>15, ClaimEffect DEF ClaimBegins, host, Turns, InTurn
<1>16. CASE ClaimEnds
  BY <1>16 DEF ClaimEnds, Moved, Issue, NoHelp, None, AfterCall, Engine, host, Turns,
     InTurn, Shape, Engines, Monitors, Runs, Helps, Histories, Turn
<1>17. CASE Executes
  BY <1>17 DEF Executes, Engine, host, Turns, InTurn
<1>18. CASE Drops
  BY <1>18 DEF Drops, AfterCall, Engine, host, Turns, InTurn
<1>19. CASE Executed
  BY <1>19 DEF Executed, AfterCall, Engine, host, Turns, InTurn
<1>20. CASE NeedsHelp
  BY <1>20 DEF NeedsHelp, Engine, host, Turns, InTurn
<1>21. CASE HelpAsked
  BY <1>21, HelpAskedEffect, PausedType, NotedType DEF Turns, InTurn, Shape, Turn
<1>22. CASE Cancelled
  BY <1>22 DEF Cancelled, InTurn, Engine, Turns
<1>23. CASE Idles
  BY <1>23 DEF Idles, Engine, host, Turns, InTurn
<1>24. CASE TaskEnds
  BY <1>24 DEF TaskEnds, agent, Turns, InTurn
<1>25. CASE HoldEnds
  BY <1>25 DEF HoldEnds, NoHelp, None, agent, Turns, InTurn, Shape, Turn
<1>26. CASE HandsBack
  BY <1>26, HandsBackEffect DEF HandsBack, agent, Turns, InTurn
<1>27. CASE HandedBack
  BY <1>27 DEF HandedBack, Moved, agent, Turns, InTurn
<1>28. CASE Releases
  BY <1>28 DEF Releases, Monitor, agent, Turns, InTurn
<1>29. CASE Lists
  BY <1>29 DEF Lists, NoHelp, None, people, Turns, InTurn, Shape, Engines, Turn
<1>30. CASE Resolves
  BY <1>30 DEF Resolves, agent, Turns, InTurn
<1>31. CASE Interrupts
  BY <1>31 DEF Interrupts, Turns
<1>32. ASSUME NEW h \in Human, Asks(h) PROVE Turns'
  BY <1>32 DEF Asks, agent, Turns, InTurn
<1>33. ASSUME NEW h \in Human, Rejected(h) PROVE Turns'
  BY <1>33 DEF Rejected, people, Turns, InTurn
<1>34. ASSUME NEW h \in Human, TakesOver(h) PROVE Turns'
  BY <1>34, TakesOverEffect, PausedType, NotedType DEF TakesOver, people, Turns, InTurn,
     Shape, Engines, Turn, None
<1>35. ASSUME NEW h \in Human, TookOver(h) PROVE Turns'
  BY <1>35 DEF TookOver, Moved, people, Turns, InTurn
<1>36. ASSUME NEW h \in Human, Returns(h) PROVE Turns'
  BY <1>36, ReturnsEffect DEF Returns, people, Turns, InTurn, Shape, Engines, Monitors,
     Runs, Helps, Histories, Turn, None, NoHelp
<1>37. ASSUME NEW h \in Human, Looked(h) PROVE Turns'
  BY <1>37, LookedEffect DEF Looked, people, Turns, InTurn
<1>38. ASSUME NEW h \in Human, Resumed(h) PROVE Turns'
  BY <1>38 DEF Resumed, Moved, people, Turns, InTurn
<1>39. ASSUME NEW h \in Human, NotHelped(h) PROVE Turns'
  BY <1>39 DEF NotHelped, people, Turns, InTurn
<1>40. ASSUME NEW h \in Human, HelpBegins(h) PROVE Turns'
  BY <1>40, HelpBeginsEffect DEF HelpBegins, people, Turns, InTurn
<1>41. ASSUME NEW h \in Human, HelpTaken(h) PROVE Turns'
  BY <1>41 DEF HelpTaken, people, Turns, InTurn
<1>42. ASSUME NEW h \in Human, HelpEnds(h) PROVE Turns'
  BY <1>42, HelpEndsEffect DEF HelpEnds, people, Turns, InTurn
<1>43. ASSUME NEW h \in Human, Observed(h) PROVE Turns'
  BY <1>43, LookedEffect DEF Observed, people, Turns, InTurn, Shape, Histories
<1>44. ASSUME NEW h \in Human, Answered(h) PROVE Turns'
  BY <1>44 DEF Answered, NoHelp, None, people, Turns, InTurn, Shape, Engines, Turn
<1>45. CASE UNCHANGED vars
  BY <1>45 DEF vars, Turns, InTurn
<1> QED BY <1>1, <1>2, <1>3, <1>4, <1>5, <1>6, <1>7, <1>8, <1>9, <1>10, <1>11, <1>12, <1>13,
    <1>14, <1>15, <1>16, <1>17, <1>18, <1>19, <1>20, <1>21, <1>22, <1>23, <1>24, <1>25,
    <1>26, <1>27, <1>28, <1>29, <1>30, <1>31, <1>32, <1>33, <1>34, <1>35, <1>36, <1>37,
    <1>38, <1>39, <1>40, <1>41, <1>42, <1>43, <1>44, <1>45 DEF Next, RunEngine, RunMonitor,
    Person

LEMMA ExclusiveStep == ASSUME Shape, Turns, Exclusive, [Next]_vars PROVE Exclusive'
<1>1. CASE StartTurn
  BY <1>1 DEF StartTurn, Exclusive, Holds
<1>2. CASE EngineTakes
  BY <1>2 DEF EngineTakes, host, Exclusive, Holds
<1>3. CASE RoundBegins
  BY <1>3 DEF RoundBegins, host, Exclusive, Holds
<1>4. CASE Samples
  BY <1>4 DEF Samples, Engine, host, Exclusive, Holds
<1>5. CASE Answers
  BY <1>5 DEF Answers, Engine, host, Exclusive, Holds
<1>6. CASE Concludes
  BY <1>6 DEF Concludes, Engine, host, Exclusive, Holds
<1>7. CASE Continues
  BY <1>7 DEF Continues, Engine, host, Exclusive, Holds
<1>8. CASE Completes
  BY <1>8 DEF Completes, Engine, Exclusive, Holds
<1>9. CASE Refused
  BY <1>9 DEF Refused, AfterCall, Engine, host, Exclusive, Holds
<1>10. CASE Prepares
  BY <1>10 DEF Prepares, Engine, host, Exclusive, Holds
<1>11. CASE AsksApproval
  BY <1>11 DEF AsksApproval, Engine, host, Exclusive, Holds
<1>12. CASE Approved
  BY <1>12 DEF Approved, Engine, host, Exclusive, Holds
<1>13. CASE Denied
  BY <1>13 DEF Denied, AfterCall, Engine, host, Exclusive, Holds
<1>14. CASE Acts
  BY <1>14, ActsEffect DEF Exclusive, Holds, Issued
<1>15. CASE ClaimBegins
  BY <1>15, ClaimEffect DEF ClaimBegins, ControlFree, host, Exclusive, Holds
<1>16. CASE ClaimEnds
  BY <1>16 DEF ClaimEnds, host, Exclusive, Holds
<1>17. CASE Executes
  BY <1>17 DEF Executes, Engine, host, Exclusive, Holds
<1>18. CASE Drops
  BY <1>18 DEF Drops, AfterCall, Engine, host, Exclusive, Holds
<1>19. CASE Executed
  BY <1>19 DEF Executed, AfterCall, Engine, host, Exclusive, Holds
<1>20. CASE NeedsHelp
  BY <1>20 DEF NeedsHelp, Engine, host, Exclusive, Holds
<1>21. CASE HelpAsked
  BY <1>21, HelpAskedEffect, PausedType, NotedType DEF Exclusive, Holds
<1>22. CASE Cancelled
  BY <1>22 DEF Cancelled, Engine, Exclusive, Holds
<1>23. CASE Idles
  BY <1>23 DEF Idles, Engine, host, Exclusive, Holds
<1>24. CASE TaskEnds
  BY <1>24 DEF TaskEnds, Monitor, agent, Exclusive, Holds
<1>25. CASE HoldEnds
  BY <1>25 DEF HoldEnds, Monitor, agent, Exclusive, Holds
<1>26. CASE HandsBack
  BY <1>26, HandsBackEffect DEF HandsBack, ControlFree, Exclusive, Holds
<1>27. CASE HandedBack
  BY <1>27 DEF HandedBack, Exclusive, Holds
<1>28. CASE Releases
  BY <1>28 DEF Releases, Monitor, agent, Exclusive, Holds
<1>29. CASE Lists
  BY <1>29 DEF Lists, people, Exclusive, Holds
<1>30. CASE Resolves
  BY <1>30 DEF Resolves, agent, Exclusive, Holds
<1>31. CASE Interrupts
  BY <1>31 DEF Interrupts, Exclusive, Holds
<1>32. ASSUME NEW h \in Human, Asks(h) PROVE Exclusive'
  BY <1>32 DEF Asks, agent, Exclusive, Holds, Shape, Engines
<1>33. ASSUME NEW h \in Human, Rejected(h) PROVE Exclusive'
  BY <1>33 DEF Rejected, Done, NoCall, people, Exclusive, Holds
<1>34. ASSUME NEW h \in Human, TakesOver(h) PROVE Exclusive'
  BY <1>34, TakesOverEffect, PausedType, NotedType DEF TakesOver, Call, Done, Wants,
     ControlFree, people, Exclusive, Holds, Shape
<1>35. ASSUME NEW h \in Human, TookOver(h) PROVE Exclusive'
  BY <1>35 DEF TookOver, Done, people, Exclusive, Holds
<1>36. ASSUME NEW h \in Human, Returns(h) PROVE Exclusive'
  BY <1>36, ReturnsEffect DEF Returns, Call, Done, Wants, ControlFree, people,
     Exclusive, Holds, Shape
<1>37. ASSUME NEW h \in Human, Looked(h) PROVE Exclusive'
  BY <1>37, LookedEffect DEF Looked, Call, Done, people, Exclusive, Holds, Shape
<1>38. ASSUME NEW h \in Human, Resumed(h) PROVE Exclusive'
  BY <1>38 DEF Resumed, Done, people, Exclusive, Holds
<1>39. ASSUME NEW h \in Human, NotHelped(h) PROVE Exclusive'
  BY <1>39 DEF NotHelped, Done, NoCall, people, Exclusive, Holds
<1>40. ASSUME NEW h \in Human, HelpBegins(h) PROVE Exclusive'
  BY <1>40, HelpBeginsEffect DEF HelpBegins, Call, Done, Wants, ControlFree, people,
     Exclusive, Holds, Shape
<1>41. ASSUME NEW h \in Human, HelpTaken(h) PROVE Exclusive'
  BY <1>41 DEF HelpTaken, Done, people, Exclusive, Holds
<1>42. ASSUME NEW h \in Human, HelpEnds(h) PROVE Exclusive'
  BY <1>42, HelpEndsEffect DEF HelpEnds, Call, Wants, ControlFree, people, Exclusive,
     Holds, Shape
<1>43. ASSUME NEW h \in Human, Observed(h) PROVE Exclusive'
  BY <1>43, LookedEffect DEF Observed, Call, Done, people, Exclusive, Holds, Shape
<1>44. ASSUME NEW h \in Human, Answered(h) PROVE Exclusive'
  BY <1>44 DEF Answered, Done, people, Exclusive, Holds
<1>45. CASE UNCHANGED vars
  BY <1>45 DEF vars, Exclusive, Holds
<1> QED BY <1>1, <1>2, <1>3, <1>4, <1>5, <1>6, <1>7, <1>8, <1>9, <1>10, <1>11, <1>12, <1>13,
    <1>14, <1>15, <1>16, <1>17, <1>18, <1>19, <1>20, <1>21, <1>22, <1>23, <1>24, <1>25,
    <1>26, <1>27, <1>28, <1>29, <1>30, <1>31, <1>32, <1>33, <1>34, <1>35, <1>36, <1>37,
    <1>38, <1>39, <1>40, <1>41, <1>42, <1>43, <1>44, <1>45 DEF Next, RunEngine, RunMonitor,
    Person

LEMMA OrderedStep == ASSUME Shape, Turns, Exclusive, Ordered, [Next]_vars PROVE Ordered'
<1>1. CASE StartTurn
  BY <1>1 DEF StartTurn, Ordered, InTurn
<1>2. CASE EngineTakes
  BY <1>2 DEF EngineTakes, Ordered
<1>3. CASE RoundBegins
  BY <1>3 DEF RoundBegins, Ordered, Shape, InTurn, Pauses
<1>4. CASE Samples
  BY <1>4 DEF Samples, Engine, Ordered, InTurn
<1>5. CASE Answers
  BY <1>5 DEF Answers, Engine, Ordered, InTurn
<1>6. CASE Concludes
  BY <1>6 DEF Concludes, Engine, Ordered, InTurn
<1>7. CASE Continues
  BY <1>7 DEF Continues, Engine, Ordered, InTurn
<1>8. CASE Completes
  BY <1>8 DEF Completes, Engine, Ordered, InTurn
<1>9. CASE Refused
  BY <1>9 DEF Refused, AfterCall, Engine, Ordered, InTurn
<1>10. CASE Prepares
  BY <1>10 DEF Prepares, Engine, Ordered, InTurn
<1>11. CASE AsksApproval
  BY <1>11 DEF AsksApproval, Engine, Ordered, InTurn
<1>12. CASE Approved
  BY <1>12 DEF Approved, Engine, Ordered, InTurn
<1>13. CASE Denied
  BY <1>13 DEF Denied, AfterCall, Engine, Ordered, InTurn
<1>14. CASE Acts
  BY <1>14, ActsEffect DEF Intervened, Ordered, Shape, InTurn, Pauses, Runs, Issued
<1>15. CASE ClaimBegins
  BY <1>15, ClaimEffect DEF ClaimBegins, Ordered, Shape, Engines, Runs, Stays,
     Transfers, Issued
<1>16. CASE ClaimEnds
  BY <1>16, ClaimEndsEffect DEF Ordered, Issued, Shape, Runs
<1>17. CASE Executes
  BY <1>17 DEF Executes, Engine, Ordered, InTurn
<1>18. CASE Drops
  BY <1>18 DEF Drops, AfterCall, Engine, Ordered, InTurn
<1>19. CASE Executed
  BY <1>19 DEF Executed, AfterCall, Engine, Ordered, InTurn
<1>20. CASE NeedsHelp
  BY <1>20 DEF NeedsHelp, Engine, Ordered, InTurn
<1>21. CASE HelpAsked
  BY <1>21, HelpAskedEffect, PausedType, NotedType DEF Ordered, Shape, Engines, InTurn,
     Pauses, Stays
<1>22. CASE Cancelled
  BY <1>22 DEF Cancelled, InTurn, Engine, Ordered
<1>23. CASE Idles
  BY <1>23 DEF Idles, Engine, Released, Ordered, InTurn
<1>24. CASE TaskEnds
  BY <1>24 DEF TaskEnds, agent, Ordered, InTurn
<1>25. CASE HoldEnds
  BY <1>25 DEF HoldEnds, agent, Ordered, InTurn
<1>26. CASE HandsBack
  BY <1>26, HandsBackEffect DEF HandsBack, agent, Ordered, Shape, Engines, Turns,
     InTurn, Runs, Stays, Transfers
<1>27. CASE HandedBack
  BY <1>27 DEF HandedBack, Moved, agent, Ordered, InTurn
<1>28. CASE Releases
  BY <1>28 DEF Releases, agent, Ordered, InTurn
<1>29. CASE Lists
  BY <1>29 DEF Lists, people, Ordered, InTurn
<1>30. CASE Resolves
  BY <1>30 DEF Resolves, agent, Ordered, InTurn
<1>31. CASE Interrupts
  BY <1>31 DEF Interrupts, Ordered
<1>32. ASSUME NEW h \in Human, Asks(h) PROVE Ordered'
  BY <1>32 DEF Asks, agent, Ordered, InTurn
<1>33. ASSUME NEW h \in Human, Rejected(h) PROVE Ordered'
  BY <1>33 DEF Rejected, people, Ordered, InTurn
<1>34. ASSUME NEW h \in Human, TakesOver(h) PROVE Ordered'
  BY <1>34, TakesOverEffect, PausedType, NotedType DEF TakesOver, Wants, ControlFree,
     UsesBrowser, people, Ordered, Shape, Engines, InTurn, Pauses, Runs, Stays,
     Transfers
<1>35. ASSUME NEW h \in Human, TookOver(h) PROVE Ordered'
  BY <1>35 DEF TookOver, Moved, people, Ordered, InTurn
<1>36. ASSUME NEW h \in Human, Returns(h) PROVE Ordered'
  BY <1>36, OrderedTransfer, ReturnsEffect, ReturnsSeen
<1>37. ASSUME NEW h \in Human, Looked(h) PROVE Ordered'
  BY <1>37, OrderedTransfer, LookedEffect DEF Looked, people, Same
<1>38. ASSUME NEW h \in Human, Resumed(h) PROVE Ordered'
  BY <1>38 DEF Resumed, Moved, Released, people, Ordered, InTurn
<1>39. ASSUME NEW h \in Human, NotHelped(h) PROVE Ordered'
  BY <1>39 DEF NotHelped, people, Ordered, InTurn
<1>40. ASSUME NEW h \in Human, HelpBegins(h) PROVE Ordered'
  BY <1>40, OrderedTransfer, HelpBeginsEffect, HelpBeginsSeen DEF HelpBegins, people,
     Same
<1>41. ASSUME NEW h \in Human, HelpTaken(h) PROVE Ordered'
  BY <1>41 DEF HelpTaken, people, Ordered, InTurn
<1>42. ASSUME NEW h \in Human, HelpEnds(h) PROVE Ordered'
  BY <1>42, OrderedTransfer, HelpEndsEffect DEF HelpEnds, people, Same
<1>43. ASSUME NEW h \in Human, Observed(h) PROVE Ordered'
  BY <1>43, OrderedTransfer, LookedEffect, ObservedSeen DEF Observed, people, Same
<1>44. ASSUME NEW h \in Human, Answered(h) PROVE Ordered'
  BY <1>44 DEF Answered, Released, people, Ordered, InTurn
<1>45. CASE UNCHANGED vars
  BY <1>45 DEF vars, Ordered, InTurn
<1> QED BY <1>1, <1>2, <1>3, <1>4, <1>5, <1>6, <1>7, <1>8, <1>9, <1>10, <1>11, <1>12, <1>13,
    <1>14, <1>15, <1>16, <1>17, <1>18, <1>19, <1>20, <1>21, <1>22, <1>23, <1>24, <1>25,
    <1>26, <1>27, <1>28, <1>29, <1>30, <1>31, <1>32, <1>33, <1>34, <1>35, <1>36, <1>37,
    <1>38, <1>39, <1>40, <1>41, <1>42, <1>43, <1>44, <1>45 DEF Next, RunEngine, RunMonitor,
    Person

LEMMA ResumableStep ==
  ASSUME Shape, Turns, Exclusive, Ordered, Resumable, [Next]_vars PROVE Resumable'
<1>1. CASE StartTurn
  BY <1>1 DEF StartTurn, Resumable, Held, InTurn
<1>2. CASE EngineTakes
  <2>1. ~Held'
    BY <1>2, EngineTakesEffect DEF Held, Turns, Shape, Engines, Turn
  <2> QED
    BY <1>2, <2>1, EngineTakesEffect DEF Resumable
<1>3. CASE RoundBegins
  BY <1>3 DEF RoundBegins, host, Resumable, Held
<1>4. CASE Samples
  BY <1>4 DEF Samples, Engine, host, Resumable, Held, InTurn
<1>5. CASE Answers
  BY <1>5 DEF Answers, Engine, host, Resumable, Held, InTurn
<1>6. CASE Concludes
  BY <1>6 DEF Concludes, Engine, host, Resumable, Held, InTurn
<1>7. CASE Continues
  BY <1>7 DEF Continues, Engine, host, Resumable, Held, InTurn
<1>8. CASE Completes
  BY <1>8 DEF Completes, Engine, Resumable, Held, InTurn
<1>9. CASE Refused
  BY <1>9 DEF Refused, AfterCall, Engine, host, Resumable, Held, InTurn
<1>10. CASE Prepares
  BY <1>10 DEF Prepares, Engine, host, Resumable, Held, InTurn
<1>11. CASE AsksApproval
  BY <1>11 DEF AsksApproval, Engine, host, Resumable, Held, InTurn
<1>12. CASE Approved
  BY <1>12 DEF Approved, Engine, host, Resumable, Held, InTurn
<1>13. CASE Denied
  BY <1>13 DEF Denied, AfterCall, Engine, host, Resumable, Held, InTurn
<1>14. CASE Acts
  BY <1>14, ActsEffect DEF Resumable, Held, InTurn, Issued
<1>15. CASE ClaimBegins
  <2>1. ~Held'
    BY <1>15, ClaimEffect DEF ClaimBegins, Held, Ordered
  <2>2. \A g \in Human : call'[g] = call[g] /\ ~Holds(g)
    BY <1>15 DEF ClaimBegins, host, ControlFree, Holds
  <2> QED
    BY <2>1, <2>2 DEF Resumable, Holds
<1>16. CASE ClaimEnds
  BY <1>16 DEF ClaimEnds, Moved, Issue, host, Resumable, Held, Ordered
<1>17. CASE Executes
  BY <1>17 DEF Executes, Engine, host, Resumable, Held, InTurn
<1>18. CASE Drops
  BY <1>18 DEF Drops, AfterCall, Engine, host, Resumable, Held, InTurn
<1>19. CASE Executed
  BY <1>19 DEF Executed, AfterCall, Engine, host, Resumable, Held, InTurn
<1>20. CASE NeedsHelp
  BY <1>20 DEF NeedsHelp, Engine, host, Resumable, Held, InTurn
<1>21. CASE HelpAsked
  <2>1. \A g \in Human : call'[g] = call[g] /\ ~Holds(g)
    BY <1>21, HelpAskedEffect DEF HelpAsked, ControlFree, Holds
  <2>2. (Held /\ ~cancel)' =>
          /\ run'.agent_task
          /\ run'.owner = "user" \/ run'.transferring \/ run'.help.turn = eng'.turn
    <3>1. CASE UNCHANGED <<pause, run, seen>>
      BY <1>21, <3>1, HelpAskedEffect DEF Resumable, Held, InTurn
    <3>2. CASE run'.agent_task /\ run'.help.turn = active
      BY <1>21, <3>2, HelpAskedEffect DEF Turns, InTurn
    <3> QED
      BY <1>21, <3>1, <3>2, HelpAskedEffect
  <2> QED
    BY <2>1, <2>2 DEF Resumable, Holds
<1>22. CASE Cancelled
  BY <1>22 DEF Cancelled, InTurn, Engine, Resumable, Held
<1>23. CASE Idles
  BY <1>23 DEF Idles, Released, host, Resumable, Held
<1>24. CASE TaskEnds
  BY <1>24 DEF TaskEnds, agent, Resumable, Held, Turns, InTurn
<1>25. CASE HoldEnds
  BY <1>25 DEF HoldEnds, agent, Resumable, Held, Turns, InTurn
<1>26. CASE HandsBack
  BY <1>26, HandsBackEffect DEF HandsBack, agent, Resumable, Held, InTurn
<1>27. CASE HandedBack
  BY <1>27 DEF HandedBack, Moved, agent, Resumable, Held, Turns, InTurn
<1>28. CASE Releases
  BY <1>28 DEF Releases, agent, Resumable, Held, InTurn
<1>29. CASE Lists
  BY <1>29 DEF Lists, people, Resumable, Held, Turns, InTurn
<1>30. CASE Resolves
  BY <1>30 DEF Resolves, agent, Resumable, Held, InTurn
<1>31. CASE Interrupts
  BY <1>31 DEF Interrupts, Resumable
<1>32. ASSUME NEW h \in Human, Asks(h) PROVE Resumable'
  BY <1>32 DEF Asks, agent, Resumable, Held, Shape, InTurn
<1>33. ASSUME NEW h \in Human, Rejected(h) PROVE Resumable'
  BY <1>33 DEF Rejected, Done, NoCall, people, Resumable, Held, InTurn
<1>34. ASSUME NEW h \in Human, TakesOver(h) PROVE Resumable'
  <2>1. \A g \in Human : g # h => call'[g] = call[g] /\ ~Holds(g)
    BY <1>34 DEF TakesOver, Wants, ControlFree, Holds, Call, Done, Shape
  <2>2. call[h] \in Calls /\ call \in [Human -> Calls]
    BY DEF Shape
  <2>3. (Held /\ ~cancel)' => run'.agent_task /\ run'.owner = "user"
    <3>1. CASE UsesBrowser
      BY <1>34, <3>1, TakesOverEffect DEF UsesBrowser
    <3>2. CASE ~UsesBrowser
      <4>1. (Held /\ ~cancel)' => Held /\ ~cancel
        BY <1>34, <3>2, TakesOverEffect DEF TakesOver, people, Held, InTurn
      <4> QED
        BY <1>34, <4>1, TakesOverEffect DEF Resumable
    <3> QED
      BY <3>1, <3>2
  <2>4. ASSUME NEW g \in Human
        PROVE  /\ call'[g].pc = "coming" => run'.owner = "user"
               /\ call'[g].pc = "moving" => call'[g].wants = "user" /\ run'.owner = "user"
    BY <1>34, <2>1, TakesOverEffect DEF Holds, NoCall
  <2> QED
    BY <2>3, <2>4 DEF Resumable
<1>35. ASSUME NEW h \in Human, TookOver(h) PROVE Resumable'
  BY <1>35 DEF TookOver, Moved, Done, NoCall, people, Resumable, Held, InTurn
<1>36. ASSUME NEW h \in Human, Returns(h) PROVE Resumable'
  <2>1. \A g \in Human : g # h => call'[g] = call[g] /\ ~Holds(g)
    BY <1>36 DEF Returns, Wants, ControlFree, Holds, Call, Done, Shape
  <2>2. call[h] \in Calls /\ call \in [Human -> Calls]
    BY DEF Shape
  <2>3. call'[h].pc # "coming"
    BY <1>36, ReturnsEffect DEF NoCall
  <2>4. call'[h].pc = "moving" => call'[h].wants = "agent" /\ (Held => cancel)
    BY <1>36, ReturnsEffect DEF NoCall, UsesBrowser, Resumable, Held, Turns, None
  <2> QED
    BY <1>36, <2>1, <2>3, <2>4, ReturnsEffect, ReturnsSeen, ResumableTransfer
<1>37. ASSUME NEW h \in Human, Looked(h) PROVE Resumable'
  <2>1. \A g \in Human : g # h => call'[g] = call[g] /\ ~Holds(g)
    BY <1>37 DEF Looked, Exclusive, Holds, Call, Done, Shape
  <2>2. call[h] \in Calls /\ call \in [Human -> Calls]
    BY DEF Shape
  <2>3. call'[h].pc \notin {"coming", "moving"}
    BY <1>37, <2>2 DEF Looked, Call, Done, NoCall, Calls
  <2> QED
    BY <1>37, <2>1, <2>3, ResumableTransfer, LookedEffect DEF Looked, people, Same
<1>38. ASSUME NEW h \in Human, Resumed(h) PROVE Resumable'
  BY <1>38 DEF Resumed, Moved, Done, NoCall, Released, Resumable, Held
<1>39. ASSUME NEW h \in Human, NotHelped(h) PROVE Resumable'
  BY <1>39 DEF NotHelped, Done, NoCall, people, Resumable, Held, InTurn
<1>40. ASSUME NEW h \in Human, HelpBegins(h) PROVE Resumable'
  <2>1. \A g \in Human : g # h => call'[g] = call[g] /\ ~Holds(g)
    BY <1>40 DEF HelpBegins, Wants, ControlFree, Holds, Call, Done, Shape
  <2>2. call[h] \in Calls /\ call \in [Human -> Calls]
    BY DEF Shape
  <2>3. call'[h].pc # "moving" /\ run'.owner = "user"
    BY <1>40, <2>2, HelpBeginsEffect DEF HelpBegins, Call, Done, NoCall, Calls
  <2> QED
    BY <1>40, <2>1, <2>3, ResumableTransfer, HelpBeginsEffect, HelpBeginsSeen DEF
       HelpBegins, people, Same
<1>41. ASSUME NEW h \in Human, HelpTaken(h) PROVE Resumable'
  BY <1>41 DEF HelpTaken, Done, NoCall, people, Resumable, Held, InTurn
<1>42. ASSUME NEW h \in Human, HelpEnds(h) PROVE Resumable'
  <2>1. \A g \in Human : g # h => call'[g] = call[g] /\ ~Holds(g)
    BY <1>42 DEF HelpEnds, Wants, ControlFree, Holds, Call, Shape
  <2>2. call[h] \in Calls /\ call \in [Human -> Calls]
    BY DEF Shape
  <2>3. call'[h].pc \notin {"coming", "moving"}
    BY <1>42, <2>2 DEF HelpEnds, Call, Done, NoCall, Calls
  <2> QED
    BY <1>42, <2>1, <2>3, ResumableTransfer, HelpEndsEffect DEF HelpEnds, people, Same
<1>43. ASSUME NEW h \in Human, Observed(h) PROVE Resumable'
  <2>1. \A g \in Human : g # h => call'[g] = call[g] /\ ~Holds(g)
    BY <1>43 DEF Observed, Exclusive, Holds, Call, Done, Shape
  <2>2. call[h] \in Calls /\ call \in [Human -> Calls]
    BY DEF Shape
  <2>3. call'[h].pc \notin {"coming", "moving"}
    BY <1>43, <2>2 DEF Observed, Call, Done, NoCall, Calls
  <2> QED
    BY <1>43, <2>1, <2>3, ResumableTransfer, LookedEffect, ObservedSeen DEF Observed,
       people, Same
<1>44. ASSUME NEW h \in Human, Answered(h) PROVE Resumable'
  BY <1>44 DEF Answered, Released, Done, NoCall, Resumable, Held
<1>45. CASE UNCHANGED vars
  BY <1>45 DEF vars, Resumable, Held, InTurn
<1> QED BY <1>1, <1>2, <1>3, <1>4, <1>5, <1>6, <1>7, <1>8, <1>9, <1>10, <1>11, <1>12, <1>13,
    <1>14, <1>15, <1>16, <1>17, <1>18, <1>19, <1>20, <1>21, <1>22, <1>23, <1>24, <1>25,
    <1>26, <1>27, <1>28, <1>29, <1>30, <1>31, <1>32, <1>33, <1>34, <1>35, <1>36, <1>37,
    <1>38, <1>39, <1>40, <1>41, <1>42, <1>43, <1>44, <1>45 DEF Next, RunEngine, RunMonitor,
    Person

LEMMA KeptStep == ASSUME Shape, Turns, Exclusive, Kept, [Next]_vars PROVE Kept'
<1>1. CASE StartTurn
  <2>1. run.help.turn # active'
    BY <1>1 DEF StartTurn, Turns, Shape, Engines, Turn
  <2> QED
    BY <1>1, <2>1 DEF StartTurn, Kept, None
<1>2. CASE EngineTakes
  BY <1>2 DEF EngineTakes, host, Kept
<1>3. CASE RoundBegins
  BY <1>3 DEF RoundBegins, host, Kept
<1>4. CASE Samples
  BY <1>4 DEF Samples, host, Kept
<1>5. CASE Answers
  BY <1>5 DEF Answers, host, Kept
<1>6. CASE Concludes
  BY <1>6 DEF Concludes, host, Kept
<1>7. CASE Continues
  BY <1>7 DEF Continues, host, Kept
<1>8. CASE Completes
  BY <1>8 DEF Completes, Kept
<1>9. CASE Refused
  BY <1>9 DEF Refused, host, Kept
<1>10. CASE Prepares
  BY <1>10 DEF Prepares, host, Kept
<1>11. CASE AsksApproval
  BY <1>11 DEF AsksApproval, host, Kept
<1>12. CASE Approved
  BY <1>12 DEF Approved, host, Kept
<1>13. CASE Denied
  BY <1>13 DEF Denied, host, Kept
<1>14. CASE Acts
  BY <1>14, ActsEffect DEF Kept
<1>15. CASE ClaimBegins
  BY <1>15, ClaimEffect DEF ClaimBegins, host, Kept
<1>16. CASE ClaimEnds
  BY <1>16 DEF ClaimEnds, Moved, Issue, host, Kept
<1>17. CASE Executes
  BY <1>17 DEF Executes, host, Kept
<1>18. CASE Drops
  BY <1>18 DEF Drops, host, Kept
<1>19. CASE Executed
  BY <1>19 DEF Executed, host, Kept
<1>20. CASE NeedsHelp
  BY <1>20 DEF NeedsHelp, host, Kept
<1>21. CASE HelpAsked
  BY <1>21, HelpAskedEffect, PausedType, NotedType DEF Kept
<1>22. CASE Cancelled
  BY <1>22 DEF Cancelled, Kept
<1>23. CASE Idles
  BY <1>23 DEF Idles, host, Kept
<1>24. CASE TaskEnds
  BY <1>24 DEF TaskEnds, Monitor, Kept
<1>25. CASE HoldEnds
  BY <1>25 DEF HoldEnds, Monitor, Kept
<1>26. CASE HandsBack
  BY <1>26, HandsBackEffect DEF HandsBack, agent, Kept, Monitor, Turns, Same
<1>27. CASE HandedBack
  BY <1>27 DEF HandedBack, Monitor, Kept
<1>28. CASE Releases
  BY <1>28 DEF Releases, Kept
<1>29. CASE Lists
  BY <1>29 DEF Lists, NoHelp, people, Kept
<1>30. CASE Resolves
  BY <1>30 DEF Resolves, Kept
<1>31. CASE Interrupts
  BY <1>31 DEF Interrupts, Kept
<1>32. ASSUME NEW h \in Human, Asks(h) PROVE Kept'
  BY <1>32 DEF Asks, Kept, Shape
<1>33. ASSUME NEW h \in Human, Rejected(h) PROVE Kept'
  BY <1>33 DEF Rejected, Done, NoCall, people, Kept
<1>34. ASSUME NEW h \in Human, TakesOver(h) PROVE Kept'
  <2>1. \A g \in Human : call'[g].pc # "looking"
    BY <1>34, TakesOverEffect DEF TakesOver, Wants, ControlFree, Call, Done, NoCall,
       Shape
  <2> QED
    BY <1>34, <2>1, TakesOverEffect DEF TakesOver, people, Kept
<1>35. ASSUME NEW h \in Human, TookOver(h) PROVE Kept'
  BY <1>35 DEF TookOver, Moved, Done, NoCall, people, Kept
<1>36. ASSUME NEW h \in Human, Returns(h) PROVE Kept'
  BY <1>36, ReturnsEffect DEF Returns, Wants, ControlFree, Call, Done, NoCall, people,
     Kept, Exclusive, Holds, Shape, Engines, Calls, Turns, InTurn, Runs, Helps,
     Histories, None, Same
<1>37. ASSUME NEW h \in Human, Looked(h) PROVE Kept'
  BY <1>37, LookedEffect DEF Looked, people, Kept, Same
<1>38. ASSUME NEW h \in Human, Resumed(h) PROVE Kept'
  BY <1>38 DEF Resumed, Moved, Done, NoCall, people, Kept
<1>39. ASSUME NEW h \in Human, NotHelped(h) PROVE Kept'
  BY <1>39 DEF NotHelped, Done, NoCall, people, Kept
<1>40. ASSUME NEW h \in Human, HelpBegins(h) PROVE Kept'
  BY <1>40, HelpBeginsEffect DEF HelpBegins, Wants, ControlFree, Ended, Call, Done,
     NoCall, people, Kept, Shape, Calls, Same
<1>41. ASSUME NEW h \in Human, HelpTaken(h) PROVE Kept'
  BY <1>41 DEF HelpTaken, Done, NoCall, people, Kept
<1>42. ASSUME NEW h \in Human, HelpEnds(h) PROVE Kept'
  BY <1>42, HelpEndsEffect DEF HelpEnds, Call, people, Kept, Shape, Calls, Same
<1>43. ASSUME NEW h \in Human, Observed(h) PROVE Kept'
  BY <1>43, LookedEffect DEF Observed, Done, NoCall, people, Kept, Shape, Turns,
     Histories, Same
<1>44. ASSUME NEW h \in Human, Answered(h) PROVE Kept'
  BY <1>44 DEF Answered, NoHelp, Kept
<1>45. CASE UNCHANGED vars
  BY <1>45 DEF vars, Kept
<1> QED BY <1>1, <1>2, <1>3, <1>4, <1>5, <1>6, <1>7, <1>8, <1>9, <1>10, <1>11, <1>12, <1>13,
    <1>14, <1>15, <1>16, <1>17, <1>18, <1>19, <1>20, <1>21, <1>22, <1>23, <1>24, <1>25,
    <1>26, <1>27, <1>28, <1>29, <1>30, <1>31, <1>32, <1>33, <1>34, <1>35, <1>36, <1>37,
    <1>38, <1>39, <1>40, <1>41, <1>42, <1>43, <1>44, <1>45 DEF Next, RunEngine, RunMonitor,
    Person

\* Control that a person has is not changed under an action being executed.
LEMMA ActorStep == ASSUME Shape, OneActor, [Next]_vars PROVE OneActor'
<1>1. CASE StartTurn
  BY <1>1 DEF StartTurn, OneActor
<1>2. CASE EngineTakes
  BY <1>2 DEF EngineTakes, OneActor
<1>3. CASE RoundBegins
  BY <1>3 DEF RoundBegins, OneActor
<1>4. CASE Samples
  BY <1>4 DEF Samples, Engine, OneActor
<1>5. CASE Answers
  BY <1>5 DEF Answers, Engine, OneActor
<1>6. CASE Concludes
  BY <1>6 DEF Concludes, Engine, OneActor
<1>7. CASE Continues
  BY <1>7 DEF Continues, Engine, OneActor
<1>8. CASE Completes
  BY <1>8 DEF Completes, Engine, OneActor
<1>9. CASE Refused
  BY <1>9 DEF Refused, AfterCall, Engine, OneActor
<1>10. CASE Prepares
  BY <1>10 DEF Prepares, Engine, OneActor
<1>11. CASE AsksApproval
  BY <1>11 DEF AsksApproval, Engine, OneActor
<1>12. CASE Approved
  BY <1>12 DEF Approved, Engine, OneActor
<1>13. CASE Denied
  BY <1>13 DEF Denied, AfterCall, Engine, OneActor
<1>14. CASE Acts
  BY <1>14, ActsEffect DEF OneActor, Issued
<1>15. CASE ClaimBegins
  BY <1>15, ClaimEffect DEF ClaimBegins, OneActor, Issued
<1>16. CASE ClaimEnds
  BY <1>16 DEF ClaimEnds, Moved, LockFree, Issue, NoHelp, None, AfterCall, Engine, host,
     OneActor, Shape, Engines, Runs, Stays, Transfers
<1>17. CASE Executes
  BY <1>17 DEF Executes, Current, OneActor
<1>18. CASE Drops
  BY <1>18 DEF Drops, AfterCall, Engine, OneActor
<1>19. CASE Executed
  BY <1>19 DEF Executed, OneActor
<1>20. CASE NeedsHelp
  BY <1>20 DEF NeedsHelp, Engine, OneActor
<1>21. CASE HelpAsked
  BY <1>21, HelpAskedEffect, PausedType, NotedType DEF OneActor
<1>22. CASE Cancelled
  BY <1>22 DEF Cancelled, Engine, OneActor
<1>23. CASE Idles
  BY <1>23 DEF Idles, Engine, OneActor
<1>24. CASE TaskEnds
  BY <1>24 DEF TaskEnds, agent, OneActor
<1>25. CASE HoldEnds
  BY <1>25 DEF HoldEnds, agent, OneActor
<1>26. CASE HandsBack
  BY <1>26, HandsBackEffect DEF HandsBack, agent, OneActor, Stays, Transfers
<1>27. CASE HandedBack
  BY <1>27 DEF HandedBack, Moved, LockFree, agent, OneActor
<1>28. CASE Releases
  BY <1>28 DEF Releases, agent, OneActor
<1>29. CASE Lists
  BY <1>29 DEF Lists, people, OneActor
<1>30. CASE Resolves
  BY <1>30 DEF Resolves, agent, OneActor
<1>31. CASE Interrupts
  BY <1>31 DEF Interrupts, OneActor
<1>32. ASSUME NEW h \in Human, Asks(h) PROVE OneActor'
  BY <1>32 DEF Asks, agent, OneActor
<1>33. ASSUME NEW h \in Human, Rejected(h) PROVE OneActor'
  BY <1>33 DEF Rejected, people, OneActor
<1>34. ASSUME NEW h \in Human, TakesOver(h) PROVE OneActor'
  BY <1>34, TakesOverEffect, PausedType, NotedType DEF TakesOver, people, OneActor,
     Stays, Transfers
<1>35. ASSUME NEW h \in Human, TookOver(h) PROVE OneActor'
  BY <1>35 DEF TookOver, Moved, LockFree, people, OneActor
<1>36. ASSUME NEW h \in Human, Returns(h) PROVE OneActor'
  BY <1>36, ReturnsEffect DEF Returns, people, OneActor, Shape, Engines, Runs, Stays,
     Transfers
<1>37. ASSUME NEW h \in Human, Looked(h) PROVE OneActor'
  BY <1>37, LookedEffect DEF Looked, people, OneActor, Stays, Transfers
<1>38. ASSUME NEW h \in Human, Resumed(h) PROVE OneActor'
  BY <1>38 DEF Resumed, Moved, LockFree, people, OneActor
<1>39. ASSUME NEW h \in Human, NotHelped(h) PROVE OneActor'
  BY <1>39 DEF NotHelped, people, OneActor
<1>40. ASSUME NEW h \in Human, HelpBegins(h) PROVE OneActor'
  BY <1>40, HelpBeginsEffect DEF HelpBegins, people, OneActor, Stays, Transfers
<1>41. ASSUME NEW h \in Human, HelpTaken(h) PROVE OneActor'
  BY <1>41 DEF HelpTaken, LockFree, people, OneActor
<1>42. ASSUME NEW h \in Human, HelpEnds(h) PROVE OneActor'
  BY <1>42, HelpEndsEffect DEF HelpEnds, people, OneActor, Stays, Transfers
<1>43. ASSUME NEW h \in Human, Observed(h) PROVE OneActor'
  BY <1>43, LookedEffect DEF Observed, people, OneActor, Stays, Transfers
<1>44. ASSUME NEW h \in Human, Answered(h) PROVE OneActor'
  BY <1>44 DEF Answered, LockFree, people, OneActor
<1>45. CASE UNCHANGED vars
  BY <1>45 DEF vars, OneActor
<1> QED BY <1>1, <1>2, <1>3, <1>4, <1>5, <1>6, <1>7, <1>8, <1>9, <1>10, <1>11, <1>12, <1>13,
    <1>14, <1>15, <1>16, <1>17, <1>18, <1>19, <1>20, <1>21, <1>22, <1>23, <1>24, <1>25,
    <1>26, <1>27, <1>28, <1>29, <1>30, <1>31, <1>32, <1>33, <1>34, <1>35, <1>36, <1>37,
    <1>38, <1>39, <1>40, <1>41, <1>42, <1>43, <1>44, <1>45 DEF Next, RunEngine, RunMonitor,
    Person

LEMMA ApprovalStep == ASSUME Shape, ApprovalsEnd, [Next]_vars PROVE ApprovalsEnd'
<1>1. CASE StartTurn \/ EngineTakes \/ RoundBegins \/ Samples \/ Answers \/ Concludes
  BY <1>1 DEF StartTurn, EngineTakes, RoundBegins, Samples, Answers, Concludes, ApprovalsEnd
<1>2. CASE Continues \/ Completes \/ Refused \/ Prepares \/ ClaimEnds \/ Executes
  BY <1>2 DEF Continues, Completes, Refused, Prepares, ClaimEnds, Executes, ApprovalsEnd
<1>3. CASE Drops \/ Executed \/ NeedsHelp \/ Idles
  BY <1>3 DEF Drops, Executed, NeedsHelp, Idles, ApprovalsEnd
<1>4. CASE AsksApproval
  BY <1>4 DEF AsksApproval, Engine, Shape, Engines, ApprovalsEnd
<1>5. CASE Approved \/ Denied \/ Cancelled
  BY <1>5 DEF Approved, Denied, Cancelled, Discarded, ApprovalsEnd
<1>6. CASE Acts \/ ClaimBegins \/ HelpAsked
  BY <1>6 DEF Acts, ClaimBegins, HelpAsked, ApprovalsEnd
<1>7. CASE TaskEnds \/ Interrupts
  <2>1. bridge = NoApproval => bridge' = NoApproval
    BY <1>7 DEF TaskEnds, Interrupts, Withdrawn, NoApproval
  <2>2. eng' = eng
    BY <1>7 DEF TaskEnds, Interrupts, agent
  <2> QED
    BY <2>1, <2>2 DEF ApprovalsEnd
<1>8. CASE HoldEnds \/ HandsBack \/ HandedBack \/ Releases \/ Lists
  BY <1>8 DEF HoldEnds, HandsBack, HandedBack, Releases, Lists, agent, people, ApprovalsEnd
<1>9. CASE Resolves
  BY <1>9 DEF Resolves, NoApproval, agent, ApprovalsEnd
<1>10. ASSUME NEW h \in Human, Person(h) PROVE ApprovalsEnd'
  BY <1>10 DEF Person, Asks, Rejected, TakesOver, TookOver, Returns, Looked, Resumed,
     NotHelped, HelpBegins, HelpTaken, HelpEnds, Observed, Answered, agent, people,
     ApprovalsEnd
<1>11. CASE UNCHANGED vars
  BY <1>11 DEF vars, ApprovalsEnd
<1> QED
  BY <1>1, <1>2, <1>3, <1>4, <1>5, <1>6, <1>7, <1>8, <1>9, <1>10, <1>11
     DEF Next, RunEngine, RunMonitor
-----------------------------------------------------------------------------
(* The steps that the two action properties are about.                     *)

\* Only Executes begins an action of the browser; only Completes and Cancelled
\* end a turn.
LEMMA EngineGoes ==
  ASSUME Shape, RunEngine, ~Executes, ~Completes, ~Cancelled
  PROVE  eng'.pc \notin {"acting", "closing"}
<1>1. CASE EngineTakes \/ RoundBegins \/ Samples \/ Answers \/ Concludes \/ Continues
  BY <1>1 DEF EngineTakes, RoundBegins, Samples, Answers, Concludes, Continues, Engine,
     Shape, Engines
<1>2. CASE Refused \/ Prepares \/ AsksApproval \/ Approved \/ Denied \/ Drops \/ Executed
  BY <1>2 DEF Refused, Prepares, AsksApproval, Approved, Denied, Drops, Executed,
     AfterCall, Engine, Shape, Engines
<1>3. CASE Acts
  BY <1>3, ActsEffect DEF Issued
<1>4. CASE ClaimBegins
  BY <1>4, ClaimEffect DEF Issued
<1>5. CASE ClaimEnds
  BY <1>5, ClaimEndsEffect DEF Issued
<1>6. CASE NeedsHelp \/ HelpAsked \/ Idles
  BY <1>6 DEF NeedsHelp, HelpAsked, Idles, AfterCall, Engine, Shape, Engines
<1> QED
  BY <1>1, <1>2, <1>3, <1>4, <1>5, <1>6 DEF RunEngine

LEMMA EngineWaits ==
  ASSUME Next, ~RunEngine
  PROVE  eng' = eng
<1>1. ASSUME NEW h \in Human, Person(h) PROVE eng' = eng
  BY <1>1 DEF Person, Asks, Rejected, TakesOver, TookOver, Returns, Looked, Resumed,
     NotHelped, HelpBegins, HelpTaken, HelpEnds, Observed, Answered, people, agent
<1>2. CASE StartTurn \/ RunMonitor \/ Lists \/ Resolves \/ Interrupts
  BY <1>2 DEF StartTurn, RunMonitor, TaskEnds, HoldEnds, HandsBack, HandedBack, Releases,
     Lists, Resolves, Interrupts, people, agent
<1> QED
  BY <1>1, <1>2 DEF Next

\* The browser passes from a person to the agent in the claim of an action, or
\* by what a person asked for.
LEMMA OwnerKept ==
  ASSUME Shape, [Next]_vars, run.owner = "user", run'.owner = "agent"
  PROVE  ClaimBegins \/ \E h \in Human : Returns(h) \/ Looked(h) \/ Observed(h)
<1>1. CASE UNCHANGED vars
  BY <1>1 DEF vars
<1>2. CASE StartTurn \/ Lists \/ Resolves \/ Interrupts
  BY <1>2 DEF StartTurn, Lists, Resolves, Interrupts, people, agent, Shape, Runs
<1>3. CASE RunMonitor
  <2>1. ~(HandsBack \/ HandedBack)
    BY HandsBackEffect DEF Stays, Transfers, HandedBack, Moved, Shape, Runs
  <2> QED
    BY <1>3, <2>1 DEF RunMonitor, TaskEnds, HoldEnds, Releases, agent, Shape, Runs
<1>4. CASE RunEngine
  <2>1. ~HelpAsked /\ ~ClaimEnds /\ ~Acts
    BY HelpAskedEffect, ClaimEndsEffect, ActsEffect DEF Stays
  <2>2. ~Cancelled
    BY DEF Cancelled, Shape, Runs
  <2>3. CASE EngineTakes \/ RoundBegins \/ Samples \/ Answers \/ Concludes \/ Continues
             \/ Completes \/ Refused \/ Prepares \/ AsksApproval \/ Approved \/ Denied
    BY <2>3 DEF EngineTakes, RoundBegins, Samples, Answers, Concludes, Continues,
       Completes, Refused, Prepares, AsksApproval, Approved, Denied
  <2>4. CASE Executes \/ Drops \/ Executed \/ NeedsHelp \/ Idles
    BY <2>4 DEF Executes, Drops, Executed, NeedsHelp, Idles
  <2> QED
    BY <1>4, <2>1, <2>2, <2>3, <2>4 DEF RunEngine
<1>5. ASSUME NEW h \in Human, Person(h)
      PROVE  Returns(h) \/ Looked(h) \/ Observed(h)
  <2>1. ~TakesOver(h) /\ ~HelpBegins(h) /\ ~HelpEnds(h)
    BY TakesOverEffect, HelpBeginsEffect, HelpEndsEffect DEF Stays
  <2>2. ~(TookOver(h) \/ HelpTaken(h) \/ Answered(h))
    BY DEF TookOver, Moved, HelpTaken, Answered, Shape, Runs
  <2>3. ~(Asks(h) \/ Rejected(h) \/ Resumed(h) \/ NotHelped(h))
    BY DEF Asks, Rejected, Resumed, Moved, NotHelped, Shape, Runs
  <2> QED
    BY <1>5, <2>1, <2>2, <2>3 DEF Person
<1> QED
  BY <1>1, <1>2, <1>3, <1>4, <1>5 DEF Next

-----------------------------------------------------------------------------
(* The theorems.                                                           *)

HandoffInv ==
  /\ Shape /\ Turns /\ Exclusive /\ Ordered /\ Resumable /\ Kept
  /\ OneActor /\ ApprovalsEnd

LEMMA HandoffInvInit == Init => HandoffInv
<1> SUFFICES ASSUME Init PROVE HandoffInv
  OBVIOUS
<1>1. PICK o \in {"user", "agent"} :
        run = [owner |-> o, generation |-> 0, transferring |-> FALSE,
               user_hold |-> FALSE, agent_task |-> FALSE, help |-> NoHelp]
  BY DEF Init
<1>2. Shape
  <2>1. run \in Runs
    BY <1>1 DEF Runs, Helps, NoHelp, None
  <2>2. eng \in Engines /\ pause \in Pauses /\ seen \in Histories
    BY DEF Init, Engines, Pauses, Histories, None
  <2>3. call \in [Human -> Calls]
    BY DEF Init, Calls, NoCall, None
  <2>4. left \in 0..MaxAsks
    BY Assumptions DEF Init
  <2> QED
    BY <2>1, <2>2, <2>3, <2>4 DEF Init, Shape, Bridges, NoApproval, Monitors
<1>3. \A h \in Human : call[h].pc = "idle"
  BY DEF Init, NoCall
<1>4. Turns
  BY <1>1 DEF Init, Turns, InTurn, None, NoHelp
<1>5. Exclusive
  BY <1>3 DEF Init, Exclusive, Holds
<1>6. Ordered
  BY <1>1 DEF Init, Ordered, InTurn
<1>7. Resumable /\ Kept
  BY <1>3 DEF Init, Resumable, Kept, Held
<1>8. OneActor /\ ApprovalsEnd
  BY DEF Init, OneActor, ApprovalsEnd
<1> QED
  BY <1>2, <1>4, <1>5, <1>6, <1>7, <1>8 DEF HandoffInv

LEMMA HandoffInvStep == HandoffInv /\ [Next]_vars => HandoffInv'
BY TypesStep, TurnsStep, ExclusiveStep, OrderedStep, ResumableStep, KeptStep,
   ActorStep, ApprovalStep DEF HandoffInv

(* The inductive invariant, from which the theorems below follow, holds in every         *)
(* reachable state of the turn, whatever the thread, the browser and the people do.      *)
THEOREM HandoffInvHolds == Spec => []HandoffInv
BY HandoffInvInit, HandoffInvStep, PTL DEF Spec

\* The variables have their types; no turn and no request is counted beyond
\* its bound.
THEOREM TypesHold == Spec => []TypeOK
<1>1. HandoffInv => TypeOK
  BY ShapeIsType DEF HandoffInv
<1> QED
  BY <1>1, HandoffInvHolds, PTL

\* However many people take and return the browser, and whenever an action was
\* issued: none is executed while a person has it.
THEOREM OneActorHolds == Spec => []OneActor
<1>1. HandoffInv => OneActor
  BY DEF HandoffInv
<1> QED
  BY <1>1, HandoffInvHolds, PTL

\* Whoever answers or withdraws an approval, and whenever the turn ends, nothing
\* of it is left when the engine no longer asks.
THEOREM ApprovalsAreEnded == Spec => []ApprovalsEnd
<1>1. HandoffInv => ApprovalsEnd
  BY DEF HandoffInv
<1> QED
  BY <1>1, HandoffInvHolds, PTL

\* A turn that a person paused while it ran stays within the reach of the
\* controls that resume it, in a thread of any length.
THEOREM PausedIsHeldHolds == Spec => []PausedIsHeld
<1>1. HandoffInv => PausedIsHeld
  BY DEF HandoffInv, Turns, Resumable, Held, PausedIsHeld, NoHelp
<1> QED
  BY <1>1, HandoffInvHolds, PTL

\* An action reaches the browser, and a turn completes, only when the model has
\* been told of every takeover that paused the turn.
THEOREM TakeoversAreToldHolds == Spec => TakeoversAreTold
<1>1. ASSUME HandoffInv, Next, eng.pc # "acting", eng'.pc = "acting"
      PROVE  ~seen.untold
  <2>1. Executes
    BY <1>1, EngineGoes, EngineWaits DEF HandoffInv, Completes, Cancelled, Engine, Shape, Engines
  <2> QED
    BY <1>1, <2>1 DEF HandoffInv, Executes, Current, Ordered, Shape, Runs, Engines
<1>2. ASSUME HandoffInv, Next, eng.pc # "closing", eng'.pc = "closing",
             ~cancel, bridge.future # "cancelled"
      PROVE  ~seen.untold
  <2>1. Completes
    BY <1>2, EngineGoes, EngineWaits DEF HandoffInv, Executes, Cancelled, Engine, Shape, Engines
  <2> QED
    BY <1>2, <2>1 DEF HandoffInv, Completes, Unfinished, Ordered, InTurn
<1>3. HandoffInv /\ [Next]_vars =>
        [(\/ eng.pc # "acting" /\ eng'.pc = "acting"
          \/ eng.pc # "closing" /\ eng'.pc = "closing" /\ ~cancel
             /\ bridge.future # "cancelled")
         => ~seen.untold]_vars
  BY <1>1, <1>2
<1> QED
  BY <1>3, HandoffInvHolds, PTL DEF Spec, TakeoversAreTold

\* Whatever the turn does after a person took the browser, the browser leaves
\* that person's hands only by an answer of a person.
THEOREM TakeoverLastsHolds == Spec => TakeoverLasts
<1>1. ASSUME HandoffInv, [Next]_vars, run.owner = "user", run'.owner = "agent"
      PROVE  seen'.held = None
  <2>1. CASE ClaimBegins
    <3>1. seen' = seen /\ ~run.user_hold /\ ~run.agent_task /\ mon = "off"
      BY <1>1, <2>1, ClaimEffect
         DEF ClaimBegins, host, HandoffInv, Stays, UserBrowsing, Turns, InTurn
    <3> QED
      BY <1>1, <3>1 DEF HandoffInv, Kept
  <2>2. ASSUME NEW h \in Human, Returns(h) PROVE seen'.held = None
    BY <1>1, <2>2, ReturnsSeen DEF HandoffInv
  <2>3. ASSUME NEW h \in Human, Looked(h) PROVE seen'.held = None
    BY <1>1, <2>3 DEF HandoffInv, Kept, Looked
  <2>4. ASSUME NEW h \in Human, Observed(h) PROVE seen'.held = None
    BY <1>1, <2>4 DEF HandoffInv, Observed, Shape, Histories
  <2> QED
    BY <1>1, <2>1, <2>2, <2>3, <2>4, OwnerKept DEF HandoffInv
<1>2. HandoffInv /\ [Next]_vars =>
        [run.owner = "user" /\ run'.owner = "agent" => seen'.held = None]_vars
  BY <1>1
<1> QED
  BY <1>2, HandoffInvHolds, PTL DEF Spec, TakeoverLasts
=============================================================================
