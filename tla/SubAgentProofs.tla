--------------------------- MODULE SubAgentProofs ---------------------------
(***************************************************************************)
(* One executor for an agent, an end for every cancelled run and no lost   *)
(* wakeup: proofs for any processes, agents, callers and bounds.           *)
(*                                                                         *)
(* Neither of the first two survives a step by itself.  That a caller     *)
(* may release a claim needs that no executor is left when it goes on      *)
(* after its join; that this is so when the driver had not begun needs     *)
(* that such a driver belongs to a run nobody has cancelled; and that a    *)
(* cancel reaches every executor needs that a run nobody has cancelled has *)
(* a driver.                                                               *)
(***************************************************************************)
EXTENDS SubAgents, TLAPS

AnyStatus == Status \cup {"deleted"}
Agents == [status : AnyStatus, run : Nat, mine : BOOLEAN, token : BOOLEAN, closing : BOOLEAN]
Records == [status : AnyStatus, run : Nat, mine : BOOLEAN]
Drivers == {"none", "new", "live", "stopping", "done"}
Calls ==
  {x \in [pc : {"idle", "join", "joined", "remove"}, agent : Agent \cup {Nobody},
          close : BOOLEAN] : x.pc # "idle" => x.agent \in Agent}

Shape ==
  /\ phase \in [Proc -> {"down", "up", "stopping", "closed"}]
  /\ mem \in [Proc -> [Agent -> Agents]] /\ driver \in [Proc -> [Agent -> Drivers]]
  /\ records \in [Proc -> [Agent -> Records]] /\ disk \in [Agent -> Records]
  /\ call \in [Proc -> [Caller -> Calls]]
  /\ claim \in [Agent -> Proc \cup {Nobody}] /\ overtaken \in [Agent -> BOOLEAN]

\* Parts of the inductive invariant, of one agent in one process.
Claims(p, a) == Executing(p, a) => claim[a] = p \/ overtaken[a]
Past(x, a) == x.pc \in {"joined", "remove"} /\ x.agent = a
JoinedIsOver(p, a) ==
  \A c \in Caller : Past(call[p][c], a) /\ Executing(p, a) => overtaken[a]
NewIsUncancelled(p, a) ==
  driver[p][a] = "new" => mem[p][a].status = "running" /\ ~mem[p][a].token
UncancelledHasDriver(p, a) ==
  mem[p][a].status = "running" /\ ~mem[p][a].token => driver[p][a] \in {"new", "live"}
DownIsIdle(p, a) == phase[p] = "down" => driver[p][a] = "none"
Finalizer(x, a) == x.agent = a /\ x.pc = "joined"
CancelledEnds(p, a) ==
  mem[p][a].status = "running" /\ mem[p][a].token =>
    Executing(p, a) \/ phase[p] = "stopping" \/ \E c \in Caller : Finalizer(call[p][c], a)

Fine(p, a) ==
  /\ Claims(p, a) /\ JoinedIsOver(p, a) /\ NewIsUncancelled(p, a)
  /\ UncancelledHasDriver(p, a) /\ DownIsIdle(p, a) /\ CancelledEnds(p, a)

AgentInv == Shape /\ \A p \in Proc, a \in Agent : Fine(p, a)

-----------------------------------------------------------------------------
(* What a step leaves alone, and what the helpers return.                  *)

\* What is kept of an agent's claim, calls and history when a step is not about it.
Undisturbed(p, a) ==
  /\ Executing(p, a) /\ claim[a] = p /\ ~overtaken[a] => claim'[a] = p
  /\ overtaken[a] => overtaken'[a]
  /\ \A c \in Caller : Past(call'[p][c], a) => Past(call[p][c], a)
  /\ \A c \in Caller : Finalizer(call[p][c], a) => Finalizer(call'[p][c], a)

LEMMA NoAgentType == NoAgent \in Agents /\ NoAgent.status # "running"
BY DEF NoAgent, Agents, AnyStatus, Status

LEMMA SettledIsFine ==
  ASSUME NEW p \in Proc, NEW a \in Agent, driver'[p][a] # "new",
         Executing(p, a)' => overtaken'[a],
         mem'[p][a].status # "running", phase'[p] = "down" => driver'[p][a] = "none"
  PROVE  Fine(p, a)'
BY DEF Fine, Claims, JoinedIsOver, NewIsUncancelled, UncancelledHasDriver, DownIsIdle,
       CancelledEnds, Executing

LEMMA KeptIsFine ==
  ASSUME NEW p \in Proc, NEW a \in Agent, Fine(p, a), Undisturbed(p, a),
         phase'[p] = phase[p] \/ (phase[p] = "down" /\ phase'[p] # "stopping"),
         driver'[p][a] = driver[p][a],
         \/ mem'[p][a].status = mem[p][a].status /\ mem'[p][a].token = mem[p][a].token
         \/ mem[p][a] = NoAgent /\ mem'[p][a].status # "running"
  PROVE  Fine(p, a)'
<1>1. Executing(p, a)' <=> Executing(p, a)
  BY DEF Executing
<1>2. Claims(p, a)' /\ JoinedIsOver(p, a)'
  BY <1>1 DEF Fine, Claims, JoinedIsOver, Undisturbed
<1>3. NewIsUncancelled(p, a)' /\ UncancelledHasDriver(p, a)' /\ DownIsIdle(p, a)'
  BY NoAgentType DEF Fine, NewIsUncancelled, UncancelledHasDriver, DownIsIdle
<1>4. CancelledEnds(p, a)'
  BY <1>1 DEF Fine, CancelledEnds, Undisturbed
<1> QED
  BY <1>2, <1>3, <1>4 DEF Fine

LEMMA RestoredIsOver ==
  ASSUME Shape, NEW p \in Proc, NEW a \in Agent
  PROVE  /\ Required(p, a) \in Agents
         /\ mem[p][a] # NoAgent => Required(p, a) = mem[p][a]
         /\ mem[p][a] = NoAgent => Required(p, a).status # "running" /\ ~Required(p, a).token
<1>1. records[p][a] \in Records /\ mem[p][a] \in Agents
  BY DEF Shape
<1>2. /\ Restored(records[p][a]) \in Agents /\ Restored(records[p][a]).status # "running"
      /\ ~Restored(records[p][a]).token
  BY <1>1 DEF Restored, NoAgent, Agents, Records, AnyStatus, Status, Terminal
<1> QED
  BY <1>1, <1>2 DEF Required

\* Eviction touches only agents whose run has ended.
LEMMA TrimEffect ==
  ASSUME NEW p \in Proc, NEW m \in [Agent -> Agents], NEW drv \in [Agent -> Drivers], NEW recs,
         mem \in [Proc -> [Agent -> Agents]], driver \in [Proc -> [Agent -> Drivers]],
         Trim(p, m, recs, drv)
  PROVE  /\ mem' \in [Proc -> [Agent -> Agents]] /\ driver' \in [Proc -> [Agent -> Drivers]]
         /\ \A q \in Proc \ {p} : mem'[q] = mem[q] /\ driver'[q] = driver[q]
         /\ \A a \in Agent : \/ mem'[p][a] = m[a] /\ driver'[p][a] = drv[a]
                             \/ mem'[p][a] = NoAgent /\ driver'[p][a] = "none"
<1>1. PICK E \in SUBSET Agent :
        /\ mem' = [mem EXCEPT ![p] = [a \in Agent |-> IF a \in E THEN NoAgent ELSE m[a]]]
        /\ driver' = [driver EXCEPT ![p] = [a \in Agent |-> IF a \in E THEN "none" ELSE drv[a]]]
  BY DEF Trim
<1> DEFINE mm == [a \in Agent |-> IF a \in E THEN NoAgent ELSE m[a]]
           dd == [a \in Agent |-> IF a \in E THEN "none" ELSE drv[a]]
<1>2. mm \in [Agent -> Agents] /\ dd \in [Agent -> Drivers]
  BY NoAgentType DEF Drivers
<1>3. mem' = [mem EXCEPT ![p] = mm] /\ driver' = [driver EXCEPT ![p] = dd]
  BY <1>1
<1>4. \A a \in Agent : \/ mm[a] = m[a] /\ dd[a] = drv[a]
                       \/ mm[a] = NoAgent /\ dd[a] = "none"
  OBVIOUS
<1> HIDE DEF mm, dd
<1> QED
  BY <1>2, <1>3, <1>4

LEMMA PersistEffect ==
  ASSUME Shape, NEW p \in Proc, NEW m \in [Agent -> Agents], NEW own, Persist(p, m, own)
  PROVE  records' \in [Proc -> [Agent -> Records]] /\ disk' \in [Agent -> Records]
<1>1. \A a \in Agent : Raw(m[a]) \in Records
  BY DEF Raw, Agents, Records
<1>2. PICK S \in SUBSET Dirty(p, m, own) :
        /\ disk' = [a \in Agent |-> IF a \in S THEN Raw(m[a]) ELSE disk[a]]
        /\ records' = [records EXCEPT ![p] =
                         [a \in Agent |-> IF a \in S THEN Raw(m[a]) ELSE records[p][a]]]
  BY DEF Persist
<1>3. disk' \in [Agent -> Records]
  BY <1>1, <1>2 DEF Shape
<1>4. [a \in Agent |-> IF a \in S THEN Raw(m[a]) ELSE records[p][a]] \in [Agent -> Records]
  BY <1>1 DEF Shape
<1> QED
  BY <1>2, <1>3, <1>4 DEF Shape

-----------------------------------------------------------------------------
(* The steps.                                                              *)

LEMMA StartRunKeeps ==
  ASSUME AgentInv, runs \in [Agent -> Nat], NEW p \in Proc, NEW a \in Agent, StartRun(p, a)
  PROVE  AgentInv'
<1> DEFINE m == [mem[p] EXCEPT ![a] = Started(runs[a] + 1)]
<1> USE DEF AgentInv
<1>1. /\ Started(runs[a] + 1) \in Agents /\ Started(runs[a] + 1).status = "running"
      /\ ~Started(runs[a] + 1).token
  <2>1. runs[a] + 1 \in Nat
    OBVIOUS
  <2> QED
    BY <2>1 DEF Started, NoAgent, Agents, AnyStatus, Status
<1>2. m \in [Agent -> Agents]
  BY <1>1 DEF Shape
<1>3. mem' = [mem EXCEPT ![p] = m] /\ Persist(p, m, owned[p] \cup {a})
  BY DEF StartRun
<1>4. /\ driver' = [driver EXCEPT ![p][a] = "new"] /\ phase' = phase /\ call' = call
      /\ claim[a] = Nobody /\ claim' = [claim EXCEPT ![a] = p] /\ phase[p] = "up"
      /\ overtaken' = [overtaken EXCEPT ![a] =
                         @ \/ \E q \in Proc, c \in Caller :
                                call[q][c].pc # "idle" /\ call[q][c].agent = a]
  BY DEF StartRun, Admits
<1>5. records' \in [Proc -> [Agent -> Records]] /\ disk' \in [Agent -> Records]
  BY <1>2, <1>3, PersistEffect
<1>6. Shape'
  <2>1. mem' \in [Proc -> [Agent -> Agents]]
    BY <1>2, <1>3 DEF Shape
  <2>2. driver' \in [Proc -> [Agent -> Drivers]] /\ overtaken' \in [Agent -> BOOLEAN]
    BY <1>4 DEF Shape, Drivers
  <2>3. claim' \in [Agent -> Proc \cup {Nobody}] /\ UNCHANGED <<phase, call>>
    BY <1>4 DEF Shape
  <2> QED
    BY <1>5, <2>1, <2>2, <2>3 DEF Shape
<1>7. Fine(p, a)'
  <2>1. driver'[p][a] = "new" /\ mem'[p][a] = Started(runs[a] + 1)
    BY <1>2, <1>3, <1>4 DEF Shape
  <2>2. Claims(p, a)'
    BY <1>4 DEF Shape, Claims
  <2>3. JoinedIsOver(p, a)'
    BY <1>4 DEF Shape, JoinedIsOver, Past
  <2> QED
    BY <1>1, <1>4, <2>1, <2>2, <2>3
       DEF Fine, NewIsUncancelled, UncancelledHasDriver, DownIsIdle, CancelledEnds
<1>8. ASSUME NEW q \in Proc, NEW b \in Agent, q # p \/ b # a
      PROVE  Fine(q, b)'
  <2>1. driver'[q][b] = driver[q][b]
    BY <1>4, <1>8 DEF Shape
  <2>2. mem'[q][b] = mem[q][b]
    BY <1>2, <1>3, <1>8 DEF Shape
  <2>3. Undisturbed(q, b)
    BY <1>4, <1>8, ProcAssumption DEF Shape, Undisturbed
  <2> QED
    BY <1>4, <2>1, <2>2, <2>3, KeptIsFine
<1> QED
  BY <1>6, <1>7, <1>8

\* After the outcome of a is recorded by p, every other agent stands as before.
LEMMA SettlingKeeps ==
  ASSUME AgentInv, Shape', NEW p \in Proc, NEW a \in Agent,
         driver'[p][a] # "new", Executing(p, a)' => overtaken[a],
         mem'[p][a].status # "running", phase[p] = "down" => driver'[p][a] = "none",
         claim' = claim \/ (claim[a] = p /\ claim' = [claim EXCEPT ![a] = Nobody]),
         phase' = phase, overtaken' = overtaken,
         \A q \in Proc, b \in Agent : q # p \/ b # a =>
           \/ mem'[q][b] = mem[q][b] /\ driver'[q][b] = driver[q][b]
           \/ q = p /\ mem'[q][b] = NoAgent /\ driver'[q][b] = "none",
         \A q \in Proc, b \in Agent, c \in Caller : q # p \/ b # a =>
           /\ Past(call'[q][c], b) => Past(call[q][c], b)
           /\ Finalizer(call[q][c], b) => Finalizer(call'[q][c], b)
  PROVE  AgentInv'
<1>1. Fine(p, a)'
  BY SettledIsFine
<1>2. ASSUME NEW q \in Proc, NEW b \in Agent, q # p \/ b # a
      PROVE  Fine(q, b)'
  <2>1. CASE mem'[q][b] = mem[q][b] /\ driver'[q][b] = driver[q][b]
    <3>1. claim[b] = q => claim'[b] = q
      BY <1>2 DEF AgentInv, Shape
    <3>2. Undisturbed(q, b)
      BY <1>2, <3>1 DEF Undisturbed
    <3> QED
      BY <2>1, <3>2, KeptIsFine DEF AgentInv
  <2>2. CASE mem'[q][b] = NoAgent /\ driver'[q][b] = "none"
    BY <2>2, SettledIsFine, NoAgentType DEF Executing
  <2> QED
    BY <1>2, <2>1, <2>2
<1> QED
  BY <1>1, <1>2 DEF AgentInv

LEMMA ReleasedEffect ==
  ASSUME NEW p \in Proc, NEW a \in Agent, Released(p, a)
  PROVE  claim' = claim \/ (claim[a] = p /\ claim' = [claim EXCEPT ![a] = Nobody])
BY DEF Released

LEMMA DriverReturnsKeeps ==
  ASSUME AgentInv, NEW p \in Proc, NEW a \in Agent, driver[p][a] # "none",
         NEW s \in {"completed", "failed", "cancelled"}, DriverReturns(p, a, s)
  PROVE  AgentInv'
<1> DEFINE m == [mem[p] EXCEPT ![a] = Ended(@, s)]
           d == [driver[p] EXCEPT ![a] = "done"]
<1> USE DEF AgentInv
<1>1. m \in [Agent -> Agents] /\ m[a].status = s /\ \A b \in Agent \ {a} : m[b] = mem[p][b]
  <2>1. mem[p][a] \in Agents
    BY DEF Shape
  <2>2. [mem[p][a] EXCEPT !.status = s] \in Agents /\ [mem[p][a] EXCEPT !.status = s].status = s
    BY <2>1 DEF Agents, AnyStatus, Status, Terminal
  <2> QED
    BY <2>2 DEF Shape, Ended
<1>2. d \in [Agent -> Drivers] /\ d[a] = "done" /\ \A b \in Agent \ {a} : d[b] = driver[p][b]
  BY DEF Shape, Drivers
<1>3. Persist(p, m, owned[p]) /\ Trim(p, m, records'[p], d) /\ Released(p, a) /\ Joined(p, a)
  BY DEF DriverReturns
<1>4. phase' = phase /\ overtaken' = overtaken
  BY DEF DriverReturns
<1> HIDE DEF m, d
<1>5. /\ mem' \in [Proc -> [Agent -> Agents]] /\ driver' \in [Proc -> [Agent -> Drivers]]
      /\ \A q \in Proc \ {p} : mem'[q] = mem[q] /\ driver'[q] = driver[q]
      /\ \A b \in Agent : \/ mem'[p][b] = m[b] /\ driver'[p][b] = d[b]
                          \/ mem'[p][b] = NoAgent /\ driver'[p][b] = "none"
  <2>1. mem \in [Proc -> [Agent -> Agents]] /\ driver \in [Proc -> [Agent -> Drivers]]
    BY DEF Shape
  <2> QED
    BY <1>1, <1>2, <1>3, <2>1, TrimEffect
<1>6. records' \in [Proc -> [Agent -> Records]] /\ disk' \in [Agent -> Records]
  BY <1>1, <1>3, PersistEffect
<1>7. /\ call' \in [Proc -> [Caller -> Calls]]
      /\ \A q \in Proc, c \in Caller :
           \/ call'[q][c] = call[q][c]
           \/ q = p /\ call[q][c].agent = a /\ call'[q][c].agent = a /\ call[q][c].pc = "join"
  <2> DEFINE on(x) == IF x.pc = "join" /\ x.agent = a THEN [x EXCEPT !.pc = "joined"] ELSE x
  <2>1. call' = [call EXCEPT ![p] = [c \in Caller |-> on(call[p][c])]]
    BY <1>3 DEF Joined, Shape
  <2>2. ASSUME NEW c \in Caller
        PROVE  /\ on(call[p][c]) \in Calls
               /\ \/ on(call[p][c]) = call[p][c]
                  \/ /\ call[p][c].agent = a /\ call[p][c].pc = "join"
                     /\ on(call[p][c]).agent = a
    <3>1. call[p][c] \in Calls
      BY DEF Shape
    <3>2. call[p][c].pc = "join" => [call[p][c] EXCEPT !.pc = "joined"] \in Calls
      BY <3>1 DEF Calls
    <3>3. [call[p][c] EXCEPT !.pc = "joined"].agent = call[p][c].agent
      BY <3>1 DEF Calls
    <3> QED
      BY <3>1, <3>2, <3>3
  <2> HIDE DEF on
  <2>3. [c \in Caller |-> on(call[p][c])] \in [Caller -> Calls]
    BY <2>2
  <2>4. call' \in [Proc -> [Caller -> Calls]]
    BY <2>1, <2>3 DEF Shape
  <2>5. \A q \in Proc, c \in Caller : call'[q][c] = IF q = p THEN on(call[p][c]) ELSE call[q][c]
    BY <2>1 DEF Shape
  <2> QED
    BY <2>2, <2>4, <2>5
<1>8. claim' = claim \/ (claim[a] = p /\ claim' = [claim EXCEPT ![a] = Nobody])
  BY <1>3, ReleasedEffect
<1>9. Shape'
  <2>1. claim' \in [Agent -> Proc \cup {Nobody}]
    BY <1>8 DEF Shape
  <2> QED
    BY <1>4, <1>5, <1>6, <1>7, <2>1 DEF Shape
<1>10. phase[p] # "down"
  BY DEF Fine, DownIsIdle
<1>11. /\ driver'[p][a] # "new" /\ mem'[p][a].status # "running"
       /\ Executing(p, a)' => overtaken[a]
  BY <1>1, <1>2, <1>5, NoAgentType DEF Executing
<1>12. \A q \in Proc, b \in Agent : q # p \/ b # a =>
         \/ mem'[q][b] = mem[q][b] /\ driver'[q][b] = driver[q][b]
         \/ q = p /\ mem'[q][b] = NoAgent /\ driver'[q][b] = "none"
  BY <1>1, <1>2, <1>5
<1>13. \A q \in Proc, b \in Agent, c \in Caller : q # p \/ b # a =>
         /\ Past(call'[q][c], b) => Past(call[q][c], b)
         /\ Finalizer(call[q][c], b) => Finalizer(call'[q][c], b)
  BY <1>7 DEF Past, Finalizer
<1> QED
  BY <1>4, <1>8, <1>9, <1>10, <1>11, <1>12, <1>13, SettlingKeeps

\* A cancel or a close marks the run, stops the driver and joins it.
LEMMA RequestsKeeps ==
  ASSUME AgentInv, NEW p \in Proc, NEW c \in Caller, NEW a \in Agent, NEW x \in Agents,
         NEW close \in BOOLEAN, Requests(p, c, a, x, close),
         x.status = Required(p, a).status, x.token = Required(p, a).token,
         call[p][c] = NoCall, phase[p] # "down",
         claim' = claim \/ (claim[a] \in {p, Nobody} /\ claim' = [claim EXCEPT ![a] = p]),
         phase' = phase, records' = records, disk' = disk, overtaken' = overtaken
  PROVE  AgentInv'
<1> DEFINE d == IF Hit(x) THEN Stopped(driver[p][a]) ELSE driver[p][a]
           y == [x EXCEPT !.token = @ \/ Hit(x)]
           r == IF d \in {"live", "stopping"} THEN [pc |-> "join", agent |-> a, close |-> close]
                ELSE IF d = "done" THEN [pc |-> "joined", agent |-> a, close |-> close]
                ELSE IF close THEN [pc |-> "remove", agent |-> a, close |-> close]
                ELSE NoCall
<1> USE DEF AgentInv
<1>1. /\ mem' = [mem EXCEPT ![p][a] = y] /\ driver' = [driver EXCEPT ![p][a] = d]
      /\ call' = [call EXCEPT ![p][c] = r]
  BY DEF Requests
<1>2. y \in Agents /\ y.status = x.status /\ (y.token <=> x.token \/ Hit(x))
  BY DEF Agents
<1>3. d \in Drivers /\ (d \in {"live", "stopping"} => driver[p][a] \in {"live", "stopping"})
  BY DEF Shape, Drivers, Stopped
<1>4. x.status = "running" => /\ mem[p][a].status = "running"
                              /\ mem[p][a].token = x.token
  BY RestoredIsOver
<1>5. driver[p][a] = "new" => x.status = "running" /\ ~x.token
  BY RestoredIsOver, NoAgentType DEF Fine, NewIsUncancelled
<1>6. d # "new"
  BY <1>5 DEF Stopped, Hit
<1>7. /\ NoCall \in Calls /\ NoCall.pc = "idle"
      /\ r \in Calls /\ (r = NoCall \/ r.agent = a)
      /\ r.pc \in {"joined", "remove"} => d \notin {"live", "stopping"}
      /\ d = "done" => Finalizer(r, a)
  BY DEF NoCall, Calls, Finalizer
<1>8. mem'[p][a] = y /\ driver'[p][a] = d /\ call'[p][c] = r
  BY <1>1 DEF Shape
<1>9. \A q \in Proc, b \in Agent : q # p \/ b # a =>
        mem'[q][b] = mem[q][b] /\ driver'[q][b] = driver[q][b]
  BY <1>1 DEF Shape
<1>10. \A q \in Proc, e \in Caller : q # p \/ e # c => call'[q][e] = call[q][e]
  BY <1>1 DEF Shape
<1>11. Shape'
  <2>1. mem' \in [Proc -> [Agent -> Agents]] /\ driver' \in [Proc -> [Agent -> Drivers]]
    BY <1>1, <1>2, <1>3 DEF Shape
  <2>2. call' \in [Proc -> [Caller -> Calls]]
    BY <1>1, <1>7 DEF Shape
  <2>3. claim' \in [Agent -> Proc \cup {Nobody}]
    BY DEF Shape
  <2> QED
    BY <2>1, <2>2, <2>3 DEF Shape
<1> HIDE DEF d, y, r
<1>12. Fine(p, a)'
  <2>1. Executing(p, a)' => Executing(p, a) /\ d \in {"live", "stopping"}
    BY <1>3, <1>6, <1>8 DEF Executing
  <2>2. Claims(p, a)'
    BY <2>1 DEF Shape, Fine, Claims
  <2>3. JoinedIsOver(p, a)'
    BY <1>7, <1>8, <1>10, <2>1 DEF Fine, JoinedIsOver, Past
  <2>4. NewIsUncancelled(p, a)' /\ DownIsIdle(p, a)' /\ UncancelledHasDriver(p, a)'
    BY <1>2, <1>6, <1>8 DEF NewIsUncancelled, DownIsIdle, UncancelledHasDriver, Hit
  <2>5. CancelledEnds(p, a)'
    <3>1. CASE Hit(x)
      <4>1. driver[p][a] \in {"new", "live"}
        BY <1>4, <3>1 DEF Hit, Fine, UncancelledHasDriver
      <4>2. d = "done" \/ d = "stopping"
        BY <3>1, <4>1 DEF d, Stopped
      <4> QED
        BY <1>7, <1>8, <4>2 DEF CancelledEnds, Executing
    <3>2. CASE ~Hit(x)
      <4>1. SUFFICES ASSUME y.status = "running", y.token
                     PROVE  \/ Executing(p, a)' \/ phase'[p] = "stopping"
                            \/ \E e \in Caller : Finalizer(call'[p][e], a)
        BY <1>8 DEF CancelledEnds
      <4>2. mem[p][a].status = "running" /\ mem[p][a].token
        BY <1>2, <1>4, <3>2, <4>1
      <4>3. Executing(p, a) => Executing(p, a)'
        BY <1>8, <3>2 DEF Executing, d
      <4>4. \A e \in Caller : Finalizer(call[p][e], a) => Finalizer(call'[p][e], a)
        BY <1>7, <1>10 DEF Finalizer
      <4> QED
        BY <4>2, <4>3, <4>4 DEF Fine, CancelledEnds
    <3> QED
      BY <3>1, <3>2
  <2> QED
    BY <2>2, <2>3, <2>4, <2>5 DEF Fine
<1>13. ASSUME NEW q \in Proc, NEW b \in Agent, q # p \/ b # a
       PROVE  Fine(q, b)'
  <2>1. \A e \in Caller : /\ Past(call'[q][e], b) => Past(call[q][e], b)
                          /\ Finalizer(call[q][e], b) => Finalizer(call'[q][e], b)
    BY <1>7, <1>8, <1>10, <1>13 DEF Past, Finalizer
  <2>2. claim[b] = q => claim'[b] = q
    BY <1>13, ProcAssumption DEF Shape
  <2>3. Undisturbed(q, b)
    BY <2>1, <2>2 DEF Undisturbed
  <2> QED
    BY <1>9, <1>13, <2>3, KeptIsFine
<1> QED
  BY <1>11, <1>12, <1>13

LEMMA BeginsKeeps ==
  ASSUME AgentInv, NEW p \in Proc, NEW c \in Caller, NEW a \in Agent,
         CancelBegins(p, c, a) \/ CloseBegins(p, c, a)
  PROVE  AgentInv'
<1>1. Required(p, a) \in Agents
  BY RestoredIsOver DEF AgentInv
<1>2. CASE CancelBegins(p, c, a)
  <2>1. Requests(p, c, a, Required(p, a), FALSE)
    BY <1>2 DEF CancelBegins
  <2>2. /\ call[p][c] = NoCall /\ phase[p] # "down" /\ claim' = claim
        /\ UNCHANGED <<phase, records, disk, overtaken>>
    BY <1>2 DEF CancelBegins, requestOthers
  <2> QED
    BY <1>1, <2>1, <2>2, RequestsKeeps
<1>3. CASE CloseBegins(p, c, a)
  <2> DEFINE x == [Required(p, a) EXCEPT !.closing = TRUE]
  <2>1. Requests(p, c, a, x, TRUE)
    BY <1>3 DEF CloseBegins
  <2>2. x \in Agents /\ x.status = Required(p, a).status /\ x.token = Required(p, a).token
    BY <1>1 DEF Agents
  <2>3. /\ call[p][c] = NoCall /\ phase[p] # "down"
        /\ claim[a] \in {p, Nobody} /\ claim' = [claim EXCEPT ![a] = p]
        /\ UNCHANGED <<phase, records, disk, overtaken>>
    BY <1>3 DEF CloseBegins, requestOthers
  <2> HIDE DEF x
  <2> QED
    BY <2>1, <2>2, <2>3, RequestsKeeps
<1> QED
  BY <1>2, <1>3

\* What cancels and shutdowns do for a driver that never began.
LEMMA FinalizesKeeps ==
  ASSUME AgentInv, NEW p \in Proc, NEW a \in Agent, Unfinished(mem[p][a]), Finalizes(p, a),
         Executing(p, a) => overtaken[a],
         phase' = phase, driver' = driver, overtaken' = overtaken,
         call' \in [Proc -> [Caller -> Calls]],
         \A q \in Proc, b \in Agent, e \in Caller : q # p \/ b # a =>
           /\ Past(call'[q][e], b) => Past(call[q][e], b)
           /\ Finalizer(call[q][e], b) => Finalizer(call'[q][e], b)
  PROVE  AgentInv'
<1> DEFINE m == [mem[p] EXCEPT ![a] = Ended(@, "cancelled")]
<1> USE DEF AgentInv
<1>1. m \in [Agent -> Agents] /\ m[a].status # "running" /\ \A b \in Agent \ {a} : m[b] = mem[p][b]
  <2>1. mem[p][a] \in Agents
    BY DEF Shape
  <2>2. /\ [mem[p][a] EXCEPT !.status = "cancelled"] \in Agents
        /\ [mem[p][a] EXCEPT !.status = "cancelled"].status = "cancelled"
    BY <2>1 DEF Agents, AnyStatus, Status, Terminal
  <2> QED
    BY <2>2 DEF Shape, Ended
<1>2. Persist(p, m, owned[p]) /\ mem' = [mem EXCEPT ![p] = m] /\ Released(p, a)
  BY DEF Finalizes
<1> HIDE DEF m
<1>3. records' \in [Proc -> [Agent -> Records]] /\ disk' \in [Agent -> Records]
  BY <1>1, <1>2, PersistEffect
<1>4. claim' = claim \/ (claim[a] = p /\ claim' = [claim EXCEPT ![a] = Nobody])
  BY <1>2, ReleasedEffect
<1>5. Shape'
  <2>1. claim' \in [Agent -> Proc \cup {Nobody}]
    BY <1>4 DEF Shape
  <2>2. mem' \in [Proc -> [Agent -> Agents]]
    BY <1>1, <1>2 DEF Shape
  <2> QED
    BY <1>3, <2>1, <2>2 DEF Shape
<1>6. mem'[p][a].status # "running"
  BY <1>1, <1>2 DEF Shape
<1>7. \A q \in Proc, b \in Agent : q # p \/ b # a => mem'[q][b] = mem[q][b]
  BY <1>1, <1>2 DEF Shape
<1>8. driver[p][a] # "new" /\ (phase[p] = "down" => driver[p][a] = "none")
  BY DEF Fine, NewIsUncancelled, DownIsIdle, Unfinished
<1>9. Executing(p, a)' => overtaken[a]
  BY DEF Executing
<1> QED
  BY <1>4, <1>5, <1>6, <1>7, <1>8, <1>9, SettlingKeeps

LEMMA CallerGoesOnKeeps ==
  ASSUME AgentInv, NEW p \in Proc, NEW c \in Caller, CallerGoesOn(p, c)
  PROVE  AgentInv'
<1> DEFINE r == IF call[p][c].close THEN [call[p][c] EXCEPT !.pc = "remove"] ELSE NoCall
<1> USE DEF AgentInv
<1>1. /\ call[p][c].pc = "joined" /\ call' = [call EXCEPT ![p][c] = r]
      /\ UNCHANGED <<phase, driver, overtaken>>
  BY DEF CallerGoesOn
<1>2. call[p][c] \in Calls
  BY DEF Shape
<1> PICK a \in Agent : call[p][c].agent = a
  BY <1>1, <1>2 DEF Calls
<1>3. r \in Calls /\ r.pc # "joined" /\ (r = NoCall \/ r.agent = a) /\ NoCall.pc = "idle"
  BY <1>2 DEF Calls, NoCall
<1> HIDE DEF r
<1>4. call' \in [Proc -> [Caller -> Calls]]
  BY <1>1, <1>3 DEF Shape
<1>5. /\ call'[p][c] = r
      /\ \A q \in Proc, e \in Caller : q # p \/ e # c => call'[q][e] = call[q][e]
  BY <1>1 DEF Shape
<1>6. Past(call[p][c], a) /\ (Executing(p, a) => overtaken[a])
  BY <1>1, <1>2 DEF Fine, JoinedIsOver, Past
<1>7. \A q \in Proc, b \in Agent, e \in Caller : Past(call'[q][e], b) => Past(call[q][e], b)
  BY <1>3, <1>5, <1>6 DEF Past
<1>8. \A q \in Proc, b \in Agent, e \in Caller :
        q # p \/ b # a => (Finalizer(call[q][e], b) => Finalizer(call'[q][e], b))
  BY <1>3, <1>5, <1>6 DEF Past, Finalizer
<1>9. CASE Unfinished(mem[p][a]) /\ Finalizes(p, a)
  BY <1>1, <1>2, <1>4, <1>6, <1>7, <1>8, <1>9, FinalizesKeeps
<1>10. CASE ~Unfinished(mem[p][a]) /\ UNCHANGED <<mem, records, disk, claim>>
  <2>1. Shape'
    BY <1>1, <1>4, <1>10 DEF Shape
  <2>2. ASSUME NEW q \in Proc, NEW b \in Agent, q # p \/ b # a
        PROVE  Fine(q, b)'
    <3>1. Undisturbed(q, b)
      BY <1>1, <1>7, <1>8, <1>10, <2>2 DEF Undisturbed
    <3> QED
      BY <1>1, <1>10, <3>1, KeptIsFine
  <2>3. Fine(p, a)'
    <3>1. Executing(p, a)' <=> Executing(p, a)
      BY <1>1 DEF Executing
    <3>2. Fine(p, a)
      BY <1>2
    <3>3. Claims(p, a)' /\ JoinedIsOver(p, a)'
      BY <1>1, <1>2, <1>6, <1>7, <1>10, <3>1, <3>2 DEF Fine, Claims, JoinedIsOver
    <3>4. NewIsUncancelled(p, a)' /\ UncancelledHasDriver(p, a)' /\ DownIsIdle(p, a)'
      BY <1>1, <1>10, <3>2 DEF Fine, NewIsUncancelled, UncancelledHasDriver, DownIsIdle
    <3>5. CancelledEnds(p, a)'
      BY <1>10 DEF CancelledEnds, Unfinished
    <3> QED
      BY <3>3, <3>4, <3>5 DEF Fine
  <2> QED
    BY <2>1, <2>2, <2>3
<1> QED
  BY <1>9, <1>10 DEF CallerGoesOn

LEMMA CloseRemovesKeeps ==
  ASSUME AgentInv, NEW p \in Proc, NEW c \in Caller, CloseRemoves(p, c)
  PROVE  AgentInv'
<1>1. call[p][c].pc = "remove" /\ call[p][c] \in Calls
  BY DEF CloseRemoves, AgentInv, Shape
<1> PICK a \in Agent : call[p][c].agent = a
  BY <1>1 DEF Calls
<1> DEFINE y == [Required(p, a) EXCEPT !.closing = FALSE]
<1> USE DEF AgentInv
<1>2. /\ call' = [call EXCEPT ![p][c] = NoCall]
      /\ claim' = IF claim[a] = p THEN [claim EXCEPT ![a] = Nobody] ELSE claim
      /\ UNCHANGED <<phase, overtaken>>
  BY DEF CloseRemoves
<1>3. NoCall \in Calls /\ NoCall.pc = "idle"
  BY DEF NoCall, Calls
<1>4. call' \in [Proc -> [Caller -> Calls]] /\ claim' \in [Agent -> Proc \cup {Nobody}]
  BY <1>2, <1>3 DEF Shape
<1>5. Executing(p, a) => overtaken[a]
  BY <1>1, <1>2 DEF Fine, JoinedIsOver, Past
<1>6. \A q \in Proc, b \in Agent, e \in Caller :
        /\ Past(call'[q][e], b) => Past(call[q][e], b)
        /\ Finalizer(call[q][e], b) => Finalizer(call'[q][e], b)
  <2>1. /\ call'[p][c] = NoCall
        /\ \A q \in Proc, e \in Caller : q # p \/ e # c => call'[q][e] = call[q][e]
    BY <1>1, <1>2 DEF Shape
  <2> QED
    BY <1>1, <1>3, <2>1 DEF Past, Finalizer
<1>7. y \in Agents /\ y.status = Required(p, a).status /\ y.token = Required(p, a).token
  <2>1. Required(p, a) \in Agents
    BY <1>2, RestoredIsOver
  <2> QED
    BY <2>1 DEF Agents
<1>8. \/ /\ disk' = [disk EXCEPT ![a] = Tombstone]
         /\ mem' = [mem EXCEPT ![p][a] = NoAgent]
         /\ records' = [records EXCEPT ![p][a] = NoRecord]
         /\ driver' = [driver EXCEPT ![p][a] = "none"]
      \/ mem' = [mem EXCEPT ![p][a] = y] /\ UNCHANGED <<disk, records, driver>>
  BY DEF CloseRemoves
<1> HIDE DEF y
<1>9. ASSUME NEW q \in Proc, NEW b \in Agent
      PROVE  Undisturbed(q, b)
  <2>1. claim[b] # q \/ claim'[b] = claim[b] \/ (b = a /\ q = p)
    BY <1>1, <1>2 DEF Shape
  <2> QED
    BY <1>1, <1>2, <1>5, <1>6, <2>1 DEF Undisturbed
<1>10. ASSUME NEW q \in Proc, NEW b \in Agent, q # p \/ b # a
       PROVE  Fine(q, b)'
  <2>1. mem'[q][b] = mem[q][b] /\ driver'[q][b] = driver[q][b]
    BY <1>2, <1>8, <1>10 DEF Shape
  <2> QED
    BY <1>1, <1>2, <1>9, <2>1, KeptIsFine
<1>11. CASE /\ disk' = [disk EXCEPT ![a] = Tombstone]
            /\ mem' = [mem EXCEPT ![p][a] = NoAgent]
            /\ records' = [records EXCEPT ![p][a] = NoRecord]
            /\ driver' = [driver EXCEPT ![p][a] = "none"]
  <2>1. Tombstone \in Records /\ NoRecord \in Records
    BY DEF Tombstone, NoRecord, Records, AnyStatus, Status
  <2>2. Shape'
    <3>1. disk' \in [Agent -> Records] /\ records' \in [Proc -> [Agent -> Records]]
      BY <1>2, <1>11, <2>1 DEF Shape
    <3>2. mem' \in [Proc -> [Agent -> Agents]] /\ driver' \in [Proc -> [Agent -> Drivers]]
      BY <1>2, <1>11, NoAgentType DEF Shape, Drivers
    <3> QED
      BY <1>1, <1>2, <1>4, <3>1, <3>2 DEF Shape
  <2>3. mem'[p][a] = NoAgent /\ driver'[p][a] = "none"
    BY <1>2, <1>11 DEF Shape
  <2>4. Fine(p, a)'
    BY <1>2, <2>3, NoAgentType, SettledIsFine DEF Executing
  <2> QED
    BY <1>10, <2>2, <2>4
<1>12. CASE mem' = [mem EXCEPT ![p][a] = y] /\ UNCHANGED <<disk, records, driver>>
  <2>1. mem' \in [Proc -> [Agent -> Agents]] /\ mem'[p][a] = y
    BY <1>2, <1>7, <1>12 DEF Shape
  <2>2. Shape'
    BY <1>1, <1>2, <1>4, <1>12, <2>1 DEF Shape
  <2>3. \/ mem'[p][a].status = mem[p][a].status /\ mem'[p][a].token = mem[p][a].token
        \/ mem[p][a] = NoAgent /\ mem'[p][a].status # "running"
    BY <1>2, <1>7, <2>1, RestoredIsOver
  <2>4. Fine(p, a)'
    BY <1>1, <1>2, <1>9, <1>12, <2>3, KeptIsFine
  <2> QED
    BY <1>10, <2>2, <2>4
<1> QED
  BY <1>8, <1>11, <1>12

\* Reading an agent restores or evicts it.
LEMMA LoadedEffect ==
  ASSUME Shape, NEW p \in Proc, NEW S
  PROVE  /\ Loaded(p, S) \in [Agent -> Agents]
         /\ \A a \in Agent : \/ Loaded(p, S)[a] = mem[p][a]
                             \/ mem[p][a] = NoAgent /\ Loaded(p, S)[a].status # "running"
BY RestoredIsOver DEF Loaded, Shape

LEMMA ReadingKeeps ==
  ASSUME AgentInv, NEW p \in Proc,
         UNCHANGED <<phase, records, disk, call, claim, overtaken>>,
         mem' \in [Proc -> [Agent -> Agents]], driver' \in [Proc -> [Agent -> Drivers]],
         \A q \in Proc \ {p} : mem'[q] = mem[q] /\ driver'[q] = driver[q],
         \A a \in Agent :
           \/ /\ driver'[p][a] = driver[p][a]
              /\ mem'[p][a] = mem[p][a] \/ (mem[p][a] = NoAgent /\ mem'[p][a].status # "running")
           \/ mem'[p][a] = NoAgent /\ driver'[p][a] = "none"
  PROVE  AgentInv'
<1>1. Shape'
  BY DEF AgentInv, Shape
<1>2. ASSUME NEW q \in Proc, NEW b \in Agent
      PROVE  Fine(q, b)'
  <2>1. Undisturbed(q, b) /\ Fine(q, b)
    BY DEF Undisturbed, AgentInv
  <2>2. CASE mem'[q][b] = NoAgent /\ driver'[q][b] = "none"
    BY <2>2, NoAgentType, SettledIsFine DEF Executing
  <2>3. CASE /\ driver'[q][b] = driver[q][b]
             /\ mem'[q][b] = mem[q][b] \/ (mem[q][b] = NoAgent /\ mem'[q][b].status # "running")
    BY <2>1, <2>3, KeptIsFine
  <2> QED
    BY <2>2, <2>3
<1> QED
  BY <1>1, <1>2 DEF AgentInv

LEMMA LooksKeeps ==
  ASSUME AgentInv, NEW p \in Proc, NEW a \in Agent, Looks(p, a)
  PROVE  AgentInv'
<1> DEFINE m == Loaded(p, {a})
<1> USE DEF AgentInv
<1>1. /\ m \in [Agent -> Agents] /\ driver[p] \in [Agent -> Drivers]
      /\ mem \in [Proc -> [Agent -> Agents]] /\ driver \in [Proc -> [Agent -> Drivers]]
  BY LoadedEffect DEF Shape
<1>2. \A b \in Agent : m[b] = mem[p][b] \/ (mem[p][b] = NoAgent /\ m[b].status # "running")
  BY LoadedEffect
<1>3. UNCHANGED <<phase, records, disk, call, claim, overtaken>>
  BY DEF Looks
<1>4. \/ Trim(p, m, records[p], driver[p])
      \/ mem' = [mem EXCEPT ![p] = m] /\ driver' = driver
  BY DEF Looks
<1> HIDE DEF m
<1>5. /\ mem' \in [Proc -> [Agent -> Agents]] /\ driver' \in [Proc -> [Agent -> Drivers]]
      /\ \A q \in Proc \ {p} : mem'[q] = mem[q] /\ driver'[q] = driver[q]
      /\ \A b \in Agent : \/ mem'[p][b] = m[b] /\ driver'[p][b] = driver[p][b]
                          \/ mem'[p][b] = NoAgent /\ driver'[p][b] = "none"
  <2>1. CASE Trim(p, m, records[p], driver[p])
    BY <1>1, <2>1, TrimEffect
  <2>2. CASE mem' = [mem EXCEPT ![p] = m] /\ driver' = driver
    BY <1>1, <2>2
  <2> QED
    BY <1>4, <2>1, <2>2
<1>6. \A b \in Agent :
        \/ /\ driver'[p][b] = driver[p][b]
           /\ mem'[p][b] = mem[p][b] \/ (mem[p][b] = NoAgent /\ mem'[p][b].status # "running")
        \/ mem'[p][b] = NoAgent /\ driver'[p][b] = "none"
  BY <1>2, <1>5
<1> QED
  BY <1>3, <1>5, <1>6, ReadingKeeps

LEMMA WaitKeeps ==
  ASSUME AgentInv, NEW p \in Proc, Wait(p)
  PROVE  AgentInv'
<1>1. \/ \E w : Reads(p, w)
      \/ UNCHANGED mem
  <2>1. WaitBegins(p) => \E w : Reads(p, w)
    BY DEF WaitBegins
  <2>2. WaitWakes(p) => \E w : Reads(p, w)
    BY DEF WaitWakes
  <2>3. WaitTimesOut(p) => UNCHANGED mem
    BY DEF WaitTimesOut
  <2> QED
    BY <2>1, <2>2, <2>3 DEF Wait
<1>2. UNCHANGED <<phase, records, disk, call, claim, overtaken, driver>>
  BY DEF Wait, WaitBegins, WaitWakes, WaitTimesOut, waitOthers
<1>3. ASSUME NEW w, mem' = [mem EXCEPT ![p] = Loaded(p, w.targets)]
      PROVE  AgentInv'
  <2>1. /\ Loaded(p, w.targets) \in [Agent -> Agents]
        /\ \A a \in Agent :
             \/ Loaded(p, w.targets)[a] = mem[p][a]
             \/ mem[p][a] = NoAgent /\ Loaded(p, w.targets)[a].status # "running"
    BY LoadedEffect DEF AgentInv
  <2>2. mem \in [Proc -> [Agent -> Agents]] /\ driver \in [Proc -> [Agent -> Drivers]]
    BY DEF AgentInv, Shape
  <2> QED
    BY <1>2, <1>3, <2>1, <2>2, ReadingKeeps
<1>4. CASE UNCHANGED mem
  <2>1. mem \in [Proc -> [Agent -> Agents]] /\ driver \in [Proc -> [Agent -> Drivers]]
    BY DEF AgentInv, Shape
  <2> QED
    BY <1>2, <1>4, <2>1, ReadingKeeps
<1> QED
  BY <1>1, <1>3, <1>4 DEF Reads

LEMMA UnchangedKeeps ==
  ASSUME AgentInv, UNCHANGED <<phase, mem, records, driver, disk, call, claim, overtaken>>
  PROVE  AgentInv'
<1>1. Shape'
  BY DEF AgentInv, Shape
<1>2. ASSUME NEW q \in Proc, NEW b \in Agent
      PROVE  Fine(q, b)'
  BY KeptIsFine DEF Undisturbed, AgentInv
<1> QED
  BY <1>1, <1>2 DEF AgentInv

LEMMA DriveKeeps ==
  ASSUME AgentInv, NEW p \in Proc, NEW a \in Agent, Drive(p, a)
  PROVE  AgentInv'
<1>1. CASE DriverStarts(p, a)
  <2>1. /\ driver[p][a] = "new" /\ driver' = [driver EXCEPT ![p][a] = "live"]
        /\ UNCHANGED <<phase, mem, records, disk, call, claim, overtaken>>
    BY <1>1 DEF DriverStarts
  <2>2. Shape'
    BY <2>1 DEF AgentInv, Shape, Drivers
  <2>3. Fine(p, a)'
    <3>1. Fine(p, a) /\ driver'[p][a] = "live"
      BY <2>1 DEF AgentInv, Shape
    <3> QED
      BY <2>1, <3>1 DEF Fine, Claims, JoinedIsOver, NewIsUncancelled, UncancelledHasDriver,
                        DownIsIdle, CancelledEnds, Executing
  <2>4. ASSUME NEW q \in Proc, NEW b \in Agent, q # p \/ b # a
        PROVE  Fine(q, b)'
    <3>1. driver'[q][b] = driver[q][b]
      BY <2>1, <2>4 DEF AgentInv, Shape
    <3> QED
      BY <2>1, <3>1, KeptIsFine DEF Undisturbed, AgentInv
  <2> QED
    BY <2>2, <2>3, <2>4 DEF AgentInv
<1>2. CASE DriverEnds(p, a)
  BY <1>2, DriverReturnsKeeps DEF DriverEnds
<1>3. CASE ReportsProgress(p, a)
  BY <1>3, UnchangedKeeps DEF ReportsProgress
<1> QED
  BY <1>1, <1>2, <1>3 DEF Drive

LEMMA ShutdownBeginsKeeps ==
  ASSUME AgentInv, NEW p \in Proc, ShutdownBegins(p)
  PROVE  AgentInv'
<1> DEFINE m == [a \in Agent |-> IF Executing(p, a) THEN [mem[p][a] EXCEPT !.token = TRUE]
                                 ELSE mem[p][a]]
           d == [a \in Agent |-> Stopped(driver[p][a])]
<1> USE DEF AgentInv
<1>1. /\ phase' = [phase EXCEPT ![p] = "stopping"]
      /\ UNCHANGED <<records, call, claim, disk, overtaken>>
      /\ mem' = [mem EXCEPT ![p] = m] /\ driver' = [driver EXCEPT ![p] = d]
  BY DEF ShutdownBegins, Shape
<1>2. ASSUME NEW a \in Agent
      PROVE  /\ m[a] \in Agents /\ d[a] \in Drivers /\ d[a] # "new"
             /\ d[a] \in {"live", "stopping"} => Executing(p, a)
             /\ m[a].status = mem[p][a].status
             /\ ~m[a].token => ~mem[p][a].token /\ ~Executing(p, a)
  <2>1. mem[p][a] \in Agents /\ driver[p][a] \in Drivers
    BY DEF Shape
  <2>2. LET y == [mem[p][a] EXCEPT !.token = TRUE]
        IN  y \in Agents /\ y.status = mem[p][a].status /\ y.token = TRUE
    BY <2>1 DEF Agents
  <2>3. /\ d[a] \in Drivers /\ d[a] # "new"
        /\ d[a] \in {"live", "stopping"} => Executing(p, a)
    BY <2>1 DEF Drivers, Stopped, Executing
  <2> QED
    BY <2>1, <2>2, <2>3
<1>3. m \in [Agent -> Agents] /\ d \in [Agent -> Drivers]
  BY <1>2
<1> HIDE DEF m, d
<1>4. Shape'
  <2>1. mem' \in [Proc -> [Agent -> Agents]] /\ driver' \in [Proc -> [Agent -> Drivers]]
    BY <1>1, <1>3 DEF Shape
  <2>2. phase' \in [Proc -> {"down", "up", "stopping", "closed"}]
    BY <1>1 DEF Shape
  <2> QED
    BY <1>1, <2>1, <2>2 DEF Shape
<1>5. ASSUME NEW a \in Agent
      PROVE  Fine(p, a)'
  <2>1. mem'[p][a] = m[a] /\ driver'[p][a] = d[a] /\ phase'[p] = "stopping" /\ Fine(p, a)
    BY <1>1, <1>3 DEF Shape
  <2>2. Executing(p, a)' => Executing(p, a)
    BY <1>2, <2>1 DEF Executing
  <2>3. Claims(p, a)' /\ JoinedIsOver(p, a)'
    BY <1>1, <2>1, <2>2 DEF Fine, Claims, JoinedIsOver
  <2>4. NewIsUncancelled(p, a)' /\ DownIsIdle(p, a)' /\ CancelledEnds(p, a)'
    BY <1>2, <2>1 DEF NewIsUncancelled, DownIsIdle, CancelledEnds
  <2>5. UncancelledHasDriver(p, a)'
    BY <1>2, <2>1 DEF Fine, UncancelledHasDriver, Executing
  <2> QED
    BY <2>3, <2>4, <2>5 DEF Fine
<1>6. ASSUME NEW q \in Proc \ {p}, NEW b \in Agent
      PROVE  Fine(q, b)'
  <2>1. mem'[q] = mem[q] /\ driver'[q] = driver[q] /\ phase'[q] = phase[q]
    BY <1>1 DEF Shape
  <2> QED
    BY <1>1, <2>1, KeptIsFine DEF Undisturbed
<1> QED
  BY <1>4, <1>5, <1>6

LEMMA ShutdownJoinsKeeps ==
  ASSUME AgentInv, NEW p \in Proc, NEW a \in Agent, ShutdownJoins(p, a)
  PROVE  AgentInv'
<1>1. /\ ~Executing(p, a) /\ Unfinished(mem[p][a]) /\ Finalizes(p, a)
      /\ UNCHANGED <<phase, driver, call, overtaken>>
  BY DEF ShutdownJoins
<1>2. call' \in [Proc -> [Caller -> Calls]]
  BY <1>1 DEF AgentInv, Shape
<1> QED
  BY <1>1, <1>2, FinalizesKeeps

LEMMA FreedEffect ==
  ASSUME Shape, NEW p \in Proc, Freed(p)
  PROVE  /\ claim' \in [Agent -> Proc \cup {Nobody}]
         /\ \A q \in Proc \ {p}, a \in Agent : claim[a] = q => claim'[a] = q
BY DEF Freed, Shape

LEMMA ShutdownEndsKeeps ==
  ASSUME AgentInv, NEW p \in Proc, ShutdownEnds(p)
  PROVE  AgentInv'
<1> USE DEF AgentInv
<1>1. /\ phase' = [phase EXCEPT ![p] = "closed"] /\ Freed(p)
      /\ \A a \in Agent : ~Executing(p, a)
      /\ \A a \in Agent : mem[p][a].status = "running" /\ mem[p][a].token =>
           \E c \in Caller : Finalizer(call[p][c], a)
      /\ UNCHANGED <<mem, records, driver, call, disk, overtaken>>
  BY DEF ShutdownEnds, AllJoined, Finalizer, Unfinished
<1>2. Shape'
  BY <1>1, FreedEffect DEF Shape
<1>3. ASSUME NEW a \in Agent
      PROVE  Fine(p, a)'
  <2>1. Fine(p, a) /\ phase'[p] = "closed" /\ ~Executing(p, a)'
    BY <1>1 DEF Shape, Executing
  <2>2. CancelledEnds(p, a)'
    <3>1. mem' = mem /\ call' = call
      BY <1>1
    <3>2. mem[p][a].status = "running" /\ mem[p][a].token =>
            \E c \in Caller : Finalizer(call[p][c], a)
      BY <1>1
    <3> QED
      BY <3>1, <3>2 DEF CancelledEnds
  <2> QED
    BY <1>1, <2>1, <2>2 DEF Fine, Claims, JoinedIsOver, NewIsUncancelled,
                            UncancelledHasDriver, DownIsIdle
<1>4. ASSUME NEW q \in Proc \ {p}, NEW b \in Agent
      PROVE  Fine(q, b)'
  <2>1. phase'[q] = phase[q]
    BY <1>1 DEF Shape
  <2> QED
    BY <1>1, <2>1, FreedEffect, KeptIsFine DEF Undisturbed
<1> QED
  BY <1>2, <1>3, <1>4

LEMMA GoneKeeps ==
  ASSUME AgentInv, NEW p \in Proc, Gone(p)
  PROVE  AgentInv'
<1> USE DEF AgentInv
<1>1. /\ phase' = [phase EXCEPT ![p] = "down"]
      /\ mem' = [mem EXCEPT ![p] = [a \in Agent |-> NoAgent]]
      /\ records' = [records EXCEPT ![p] = [a \in Agent |-> NoRecord]]
      /\ driver' = [driver EXCEPT ![p] = [a \in Agent |-> "none"]]
      /\ call' = [call EXCEPT ![p] = [c \in Caller |-> NoCall]]
      /\ Freed(p) /\ UNCHANGED <<disk, overtaken>>
  BY DEF Gone
<1>2. NoCall \in Calls /\ NoRecord \in Records
  BY DEF NoCall, Calls, NoRecord, Records, AnyStatus, Status
<1>3. Shape'
  <2>1. mem' \in [Proc -> [Agent -> Agents]] /\ driver' \in [Proc -> [Agent -> Drivers]]
    BY <1>1, NoAgentType DEF Shape, Drivers
  <2>2. records' \in [Proc -> [Agent -> Records]] /\ call' \in [Proc -> [Caller -> Calls]]
    BY <1>1, <1>2 DEF Shape
  <2>3. phase' \in [Proc -> {"down", "up", "stopping", "closed"}]
    BY <1>1 DEF Shape
  <2> QED
    BY <1>1, <2>1, <2>2, <2>3, FreedEffect DEF Shape
<1>4. ASSUME NEW a \in Agent
      PROVE  Fine(p, a)'
  <2>1. mem'[p][a] = NoAgent /\ driver'[p][a] = "none"
    BY <1>1 DEF Shape
  <2> QED
    BY <2>1, NoAgentType, SettledIsFine DEF Executing
<1>5. ASSUME NEW q \in Proc \ {p}, NEW b \in Agent
      PROVE  Fine(q, b)'
  <2>1. /\ phase'[q] = phase[q] /\ mem'[q] = mem[q] /\ driver'[q] = driver[q]
        /\ call'[q] = call[q]
    BY <1>1 DEF Shape
  <2> QED
    BY <1>1, <2>1, FreedEffect, KeptIsFine DEF Undisturbed
<1> QED
  BY <1>3, <1>4, <1>5

LEMMA StartKeeps ==
  ASSUME AgentInv, NEW p \in Proc, Start(p)
  PROVE  AgentInv'
<1> DEFINE recs == [a \in Agent |-> Found(disk[a])]
           m == [a \in Agent |-> IF recs[a] = NoRecord THEN NoAgent ELSE Restored(recs[a])]
<1> USE DEF AgentInv
<1>1. /\ phase[p] = "down" /\ phase' = [phase EXCEPT ![p] = "up"]
      /\ records' = [records EXCEPT ![p] = recs] /\ Trim(p, m, recs, driver[p])
      /\ UNCHANGED <<call, claim, disk, overtaken>>
  BY DEF Start
<1>2. recs \in [Agent -> Records]
  <2>1. ASSUME NEW a \in Agent
        PROVE  Found(disk[a]) \in Records
    <3>1. disk[a] \in Records
      BY DEF Shape
    <3>2. [disk[a] EXCEPT !.mine = FALSE] \in Records /\ NoRecord \in Records
      BY <3>1 DEF Records, NoRecord, AnyStatus, Status
    <3> QED
      BY <3>2 DEF Found
  <2> QED
    BY <2>1
<1>3. ASSUME NEW a \in Agent
      PROVE  m[a] \in Agents /\ m[a].status # "running"
  <2>1. recs[a] \in Records
    BY <1>2
  <2> HIDE DEF recs
  <2>2. Restored(recs[a]) \in Agents /\ Restored(recs[a]).status # "running"
    BY <2>1 DEF Restored, NoAgent, Agents, Records, AnyStatus, Status, Terminal
  <2> QED
    BY <2>2, NoAgentType
<1>4. m \in [Agent -> Agents]
  BY <1>3
<1> HIDE DEF m, recs
<1>5. /\ mem \in [Proc -> [Agent -> Agents]] /\ driver \in [Proc -> [Agent -> Drivers]]
      /\ driver[p] \in [Agent -> Drivers]
  BY DEF Shape
<1>6. /\ mem' \in [Proc -> [Agent -> Agents]] /\ driver' \in [Proc -> [Agent -> Drivers]]
      /\ \A q \in Proc \ {p} : mem'[q] = mem[q] /\ driver'[q] = driver[q]
      /\ \A a \in Agent : \/ mem'[p][a] = m[a] /\ driver'[p][a] = driver[p][a]
                          \/ mem'[p][a] = NoAgent /\ driver'[p][a] = "none"
  BY <1>1, <1>4, <1>5, TrimEffect
<1>7. Shape'
  <2>1. records' \in [Proc -> [Agent -> Records]]
    BY <1>1, <1>2 DEF Shape
  <2>2. phase' \in [Proc -> {"down", "up", "stopping", "closed"}]
    BY <1>1 DEF Shape
  <2> QED
    BY <1>1, <1>6, <2>1, <2>2 DEF Shape
<1>8. ASSUME NEW a \in Agent
      PROVE  Fine(p, a)'
  <2>1. driver[p][a] = "none"
    BY <1>1 DEF Fine, DownIsIdle
  <2>2. driver'[p][a] = "none" /\ mem'[p][a].status # "running"
    BY <1>3, <1>6, <2>1, NoAgentType
  <2> QED
    BY <2>2, SettledIsFine DEF Executing
<1>9. ASSUME NEW q \in Proc \ {p}, NEW b \in Agent
      PROVE  Fine(q, b)'
  <2>1. phase'[q] = phase[q]
    BY <1>1 DEF Shape
  <2> QED
    BY <1>1, <1>6, <2>1, KeptIsFine DEF Undisturbed
<1> QED
  BY <1>7, <1>8, <1>9

-----------------------------------------------------------------------------
(* The theorems.                                                           *)

LEMMA AgentInvInit == Init => AgentInv
<1>1. SUFFICES ASSUME Init PROVE AgentInv
  OBVIOUS
<1>2. NoCall \in Calls /\ NoCall.pc = "idle" /\ NoRecord \in Records
  BY DEF NoCall, Calls, NoRecord, Records, AnyStatus, Status
<1>3. Shape
  BY <1>1, <1>2, NoAgentType DEF Init, Shape, Drivers
<1>4. ASSUME NEW p \in Proc, NEW a \in Agent
      PROVE  Fine(p, a)
  <2>1. mem[p][a] = NoAgent /\ driver[p][a] = "none"
    BY <1>1 DEF Init
  <2> QED
    BY <2>1, NoAgentType DEF Fine, Claims, JoinedIsOver, NewIsUncancelled,
         UncancelledHasDriver, DownIsIdle, CancelledEnds, Executing
<1> QED
  BY <1>3, <1>4 DEF AgentInv

\* The number of a run is counted by the step that starts it.
RunsTyped == runs \in [Agent -> Nat]

LEMMA RunsStep == RunsTyped /\ [Next]_vars => RunsTyped'
<1>1. SUFFICES ASSUME runs \in [Agent -> Nat], [Next]_vars PROVE runs' \in [Agent -> Nat]
  BY DEF RunsTyped
<1>2. ASSUME NEW p \in Proc, NEW a \in Agent, Spawn(p, a) \/ Resume(p, a)
      PROVE  runs' \in [Agent -> Nat]
  <2>1. runs' = [runs EXCEPT ![a] = @ + 1]
    BY <1>2 DEF Spawn, Resume, StartRun
  <2> QED
    BY <1>1, <2>1
<1>3. ASSUME NEW p \in Proc, NEW a \in Agent, Drive(p, a) \/ Looks(p, a)
      PROVE  UNCHANGED runs
  BY <1>3 DEF Drive, DriverStarts, DriverEnds, DriverReturns, ReportsProgress, Looks
<1>4. ASSUME NEW p \in Proc, NEW c \in Caller, Request(p, c)
      PROVE  UNCHANGED runs
  BY <1>4 DEF Request, CancelBegins, CloseBegins, requestOthers, CallerGoesOn, CloseRemoves
<1>5. ASSUME NEW p \in Proc, Wait(p) \/ Drains(p) \/ Start(p)
      PROVE  UNCHANGED runs
  BY <1>5 DEF Wait, WaitBegins, WaitWakes, WaitTimesOut, waitOthers, Drains, Start
<1>6. ASSUME NEW p \in Proc, Stop(p)
      PROVE  UNCHANGED runs
  BY <1>6 DEF Stop, ShutdownBegins, ShutdownJoins, ShutdownEnds, Crash, Exit, Gone
<1>7. CASE UNCHANGED vars
  BY <1>1, <1>7 DEF vars
<1> QED
  BY <1>1, <1>2, <1>3, <1>4, <1>5, <1>6, <1>7 DEF Next

LEMMA AgentInvStep == AgentInv /\ RunsTyped /\ [Next]_vars => AgentInv'
<1>1. SUFFICES ASSUME AgentInv, runs \in [Agent -> Nat], [Next]_vars PROVE AgentInv'
  BY DEF RunsTyped
<1>2. CASE UNCHANGED vars
  BY <1>1, <1>2, UnchangedKeeps DEF vars
<1>3. ASSUME NEW p \in Proc, NEW a \in Agent,
             Spawn(p, a) \/ Resume(p, a) \/ Drive(p, a) \/ Looks(p, a)
      PROVE  AgentInv'
  BY <1>1, <1>3, StartRunKeeps, DriveKeeps, LooksKeeps DEF Spawn, Resume
<1>4. ASSUME NEW p \in Proc, NEW c \in Caller, Request(p, c)
      PROVE  AgentInv'
  BY <1>1, <1>4, BeginsKeeps, CallerGoesOnKeeps, CloseRemovesKeeps DEF Request
<1>5. ASSUME NEW p \in Proc, Stop(p)
      PROVE  AgentInv'
  BY <1>1, <1>5, ShutdownBeginsKeeps, ShutdownJoinsKeeps, ShutdownEndsKeeps, GoneKeeps
     DEF Stop, Crash, Exit
<1>6. ASSUME NEW p \in Proc, Drains(p)
      PROVE  AgentInv'
  BY <1>1, <1>6, UnchangedKeeps DEF Drains
<1> QED
  BY <1>1, <1>2, <1>3, <1>4, <1>5, <1>6, WaitKeeps, StartKeeps DEF Next

\* What the manager's coroutines keep true of every agent: who executes it holds
\* its claim, and a cancelled run has someone who will end it.
THEOREM AgentInvHolds == Spec => []AgentInv
<1>1. Init => RunsTyped
  BY DEF Init, RunsTyped
<1> QED
  BY <1>1, RunsStep, AgentInvInit, AgentInvStep, PTL DEF Spec

\* However processes that share the registry start, resume, cancel and close
\* agents, and however they stop, an agent has one executor, in the process that
\* holds its claim, until a run is started under a cancel that has not returned.
THEOREM OneExecutorHolds == Spec => []OneExecutor
<1>1. AgentInv => OneExecutor
  BY DEF AgentInv, Fine, Claims, OneExecutor
<1> QED
  BY <1>1, AgentInvHolds, PTL

\* A run that was cancelled is executing, being shut down, or about to be
\* finalized by a caller: never left running with no one to end it.
THEOREM CancelledRunsAreEnded == Spec => []CancelledRunsEnd
<1>1. AgentInv => CancelledRunsEnd
  BY DEF AgentInv, Fine, CancelledEnds, Finalizer, CancelledRunsEnd
<1> QED
  BY <1>1, AgentInvHolds, PTL
-----------------------------------------------------------------------------
(***************************************************************************)
(* No lost wakeup.  Every step that ends a run wakes the waiter, but the   *)
(* removal of a closed agent forgets it without waking anyone.  That no    *)
(* one can be asleep on it needs that its run is over by then, and stays   *)
(* over: that whoever closes an agent holds its claim from the first half  *)
(* of the close to the second, which needs in turn that neither the driver *)
(* nor a cancel that finalizes the run releases the claim of an agent that *)
(* is being closed.                                                        *)
(***************************************************************************)
Waits == [pc : {"idle", "asleep", "woken"}, all : BOOLEAN, targets : SUBSET Agent]

\* A close of a that has begun and not ended.
Closing(x, a) == x.pc # "idle" /\ x.agent = a /\ x.close
Closed(p, a) == \E c \in Caller : Closing(call[p][c], a)
Removing(x, a) == x.pc = "remove" /\ x.agent = a
Live(p, a) == mem[p][a].status = "running"

\* Parts of the inductive invariant, of one agent in one process.
Counted(p, a) == Known(p, a) \/ Closed(p, a) => runs[a] > 0
HasMemory(p, a) == Executing(p, a) => mem[p][a].status # "none"
RunHasDriver(p, a) == Live(p, a) => driver[p][a] # "none"
CloseIsMarked(p, a) ==
  Closed(p, a) /\ (Live(p, a) \/ Executing(p, a)) => mem[p][a].closing
CloseCancels(p, a) == Closed(p, a) /\ Live(p, a) => mem[p][a].token
CloseHolds(p, a) ==
  Closed(p, a) /\ Known(p, a) => phase[p] = "closed" \/ claim[a] = p
RemoveIsOver(p, a) ==
  \A c \in Caller : Removing(call[p][c], a) => call[p][c].close /\ ~Live(p, a)

Wakeful(p, a) ==
  /\ Counted(p, a) /\ HasMemory(p, a) /\ RunHasDriver(p, a) /\ CloseIsMarked(p, a)
  /\ CloseCancels(p, a) /\ CloseHolds(p, a) /\ RemoveIsOver(p, a)

\* Of one process.
Down(p) == phase[p] = "down" => waiter[p] = NoWait /\ \A c \in Caller : call[p][c] = NoCall
Sleeps(p) == waiter[p].pc = "asleep" => ~Satisfied(p, waiter[p])

Counts ==
  /\ waiter \in [Proc -> Waits] /\ runs \in [Agent -> Nat] /\ faults \in Nat
  /\ \A a \in Agent : disk[a] # NoRecord => runs[a] > 0

WaitInv ==
  /\ AgentInv /\ Counts
  /\ \A p \in Proc : Down(p) /\ Sleeps(p) /\ \A a \in Agent : Wakeful(p, a)

-----------------------------------------------------------------------------
(* What is enough for a step to keep the invariant.                        *)

\* What a step of p leaves alone.
Elsewhere(p) ==
  \A q \in Proc \ {p} :
    /\ mem'[q] = mem[q] /\ records'[q] = records[q] /\ driver'[q] = driver[q]
    /\ phase'[q] = phase[q] /\ call'[q] = call[q] /\ waiter'[q] = waiter[q]
    /\ \A a \in Agent : claim[a] = q => claim'[a] = q

\* A step that neither starts a run of a nor begins to close it.
Calm(p, a) ==
  /\ phase[p] = "closed" => phase'[p] = "closed"
  /\ Known(p, a)' => Known(p, a)
  /\ Executing(p, a)' => Executing(p, a) /\ mem'[p][a].status # "none"
  /\ Live(p, a)' => /\ Live(p, a) /\ driver'[p][a] # "none"
                    /\ mem[p][a].token => mem'[p][a].token
  /\ Live(p, a)' \/ Executing(p, a)' => (mem[p][a].closing => mem'[p][a].closing)
  /\ \A c \in Caller :
       /\ Closing(call'[p][c], a) => Closing(call[p][c], a)
       /\ Removing(call'[p][c], a) =>
            call'[p][c].close /\ (Removing(call[p][c], a) \/ ~Live(p, a)')
  /\ Known(p, a)' /\ Closed(p, a)' /\ claim[a] = p => claim'[a] = p \/ phase'[p] = "closed"

LEMMA CalmIsWakeful ==
  ASSUME NEW p \in Proc, NEW a \in Agent, Wakeful(p, a), Calm(p, a),
         runs[a] > 0 => runs'[a] > 0
  PROVE  Wakeful(p, a)'
<1>1. Closed(p, a)' => Closed(p, a)
  BY DEF Calm, Closed
<1>2. Counted(p, a)' /\ HasMemory(p, a)' /\ RunHasDriver(p, a)'
  BY <1>1 DEF Calm, Wakeful, Counted, HasMemory, RunHasDriver
<1>3. CloseIsMarked(p, a)' /\ CloseCancels(p, a)'
  BY <1>1 DEF Calm, Wakeful, CloseIsMarked, CloseCancels
<1>4. CloseHolds(p, a)'
  BY <1>1 DEF Calm, Wakeful, CloseHolds
<1>5. RemoveIsOver(p, a)'
  BY DEF Calm, Wakeful, RemoveIsOver
<1> QED
  BY <1>2, <1>3, <1>4, <1>5 DEF Wakeful

LEMMA ElsewhereIsCalm ==
  ASSUME WaitInv, NEW p \in Proc, Elsewhere(p), NEW q \in Proc \ {p},
         \A a \in Agent : runs[a] > 0 => runs'[a] > 0
  PROVE  Down(q)' /\ Sleeps(q)' /\ \A a \in Agent : Wakeful(q, a)'
<1>1. /\ mem'[q] = mem[q] /\ records'[q] = records[q] /\ driver'[q] = driver[q]
      /\ phase'[q] = phase[q] /\ call'[q] = call[q] /\ waiter'[q] = waiter[q]
      /\ \A a \in Agent : claim[a] = q => claim'[a] = q
  BY DEF Elsewhere
<1>2. Down(q) /\ Sleeps(q)
  BY DEF WaitInv
<1>3. Down(q)'
  BY <1>1, <1>2 DEF Down
<1>4. Sleeps(q)'
  BY <1>1, <1>2 DEF Sleeps, Satisfied, Over, Required
<1>5. ASSUME NEW a \in Agent
      PROVE  Wakeful(q, a)'
  <2>1. Wakeful(q, a)
    BY DEF WaitInv
  <2>2. HasMemory(q, a) /\ RunHasDriver(q, a) /\ RemoveIsOver(q, a)
    BY <2>1 DEF Wakeful
  <2>3. Calm(q, a)
    BY <1>1, <2>2 DEF Calm, Known, Executing, Live, Closed, HasMemory, RunHasDriver, RemoveIsOver
  <2> QED
    BY <2>1, <2>3, CalmIsWakeful
<1> QED
  BY <1>3, <1>4, <1>5

LEMMA StepKeeps ==
  ASSUME WaitInv, AgentInv', NEW p \in Proc, Elsewhere(p), Counts',
         \A a \in Agent : runs[a] > 0 => runs'[a] > 0,
         Down(p)', Sleeps(p)', \A a \in Agent : Wakeful(p, a)'
  PROVE  WaitInv'
<1>1. ASSUME NEW q \in Proc
      PROVE  Down(q)' /\ Sleeps(q)' /\ \A a \in Agent : Wakeful(q, a)'
  BY ElsewhereIsCalm
<1> QED
  BY <1>1 DEF WaitInv

\* Nobody is left asleep by a step that ends no run.
LEMMA StillAsleep ==
  ASSUME NEW p \in Proc, Sleeps(p), waiter \in [Proc -> Waits], waiter'[p] = waiter[p],
         \A a \in Agent : Over(p, a)' => Over(p, a)
  PROVE  Sleeps(p)'
<1>1. waiter[p].targets \subseteq Agent
  BY DEF Waits
<1>2. Satisfied(p, waiter[p])' => Satisfied(p, waiter[p])
  BY <1>1 DEF Satisfied
<1> QED
  BY <1>2 DEF Sleeps

\* A step about another part of the state.
LEMMA ApartKeeps ==
  ASSUME WaitInv, AgentInv',
         UNCHANGED <<phase, mem, records, driver, call, waiter, claim, disk, runs, faults>>
  PROVE  WaitInv'
<1>1. Counts'
  BY DEF WaitInv, Counts
<1>2. ASSUME NEW q \in Proc
      PROVE  Down(q)' /\ Sleeps(q)'
  BY DEF WaitInv, Down, Sleeps, Satisfied, Over, Required
<1>3. ASSUME NEW q \in Proc, NEW a \in Agent
      PROVE  Wakeful(q, a)'
  <2>1. Wakeful(q, a)
    BY DEF WaitInv
  <2> QED
    BY <2>1 DEF Wakeful, Counted, HasMemory, RunHasDriver, CloseIsMarked, CloseCancels,
                CloseHolds, RemoveIsOver, Known, Closed, Executing, Live
<1> QED
  BY <1>1, <1>2, <1>3 DEF WaitInv

-----------------------------------------------------------------------------
(* What the helpers return.                                                *)

LEMMA NothingRestored == Restored(NoRecord) = NoAgent
<1>1. NoRecord.status = "none" /\ NoRecord.run = 0 /\ NoRecord.mine = FALSE
  BY DEF NoRecord
<1>2. NoAgent \in Agents
  BY NoAgentType
<1>3. NoAgent.status = "none" /\ NoAgent.run = 0 /\ NoAgent.mine = FALSE
  BY DEF NoAgent
<1>4. Restored(NoRecord) = [NoAgent EXCEPT !.status = "none", !.run = 0, !.mine = FALSE]
  BY <1>1 DEF Restored
<1>5. [NoAgent EXCEPT !.status = "none"] = NoAgent
  BY <1>2, <1>3 DEF Agents
<1>6. [NoAgent EXCEPT !.run = 0] = NoAgent
  BY <1>2, <1>3 DEF Agents
<1>7. [NoAgent EXCEPT !.mine = FALSE] = NoAgent
  BY <1>2, <1>3 DEF Agents
<1> QED
  BY <1>4, <1>5, <1>6, <1>7

LEMMA LoadedIsKnown ==
  ASSUME Shape, NEW p \in Proc, NEW S, NEW a \in Agent, Loaded(p, S)[a] # NoAgent
  PROVE  Known(p, a) /\ Loaded(p, S)[a] = Required(p, a)
BY NothingRestored DEF Loaded, Known, Required

LEMMA PersistWrites ==
  ASSUME Shape, NEW p \in Proc, NEW m \in [Agent -> Agents], NEW own, Persist(p, m, own),
         faults \in Nat
  PROVE  /\ \A q \in Proc \ {p} : records'[q] = records[q]
         /\ \A a \in Agent : records'[p][a] # NoRecord => records[p][a] # NoRecord \/ m[a] # NoAgent
         /\ \A a \in Agent : disk'[a] # NoRecord => disk[a] # NoRecord \/ m[a] # NoAgent
         /\ faults' \in Nat
<1>1. PICK S \in SUBSET Dirty(p, m, own) :
        /\ IF S = Dirty(p, m, own) THEN faults' = faults ELSE Fault
        /\ disk' = [a \in Agent |-> IF a \in S THEN Raw(m[a]) ELSE disk[a]]
        /\ records' = [records EXCEPT ![p] =
                         [a \in Agent |-> IF a \in S THEN Raw(m[a]) ELSE records[p][a]]]
  BY DEF Persist
<1>2. \A a \in S : m[a] # NoAgent
  BY DEF Dirty
<1>3. /\ \A q \in Proc \ {p} : records'[q] = records[q]
      /\ \A a \in Agent : records'[p][a] = IF a \in S THEN Raw(m[a]) ELSE records[p][a]
  BY <1>1 DEF Shape
<1>4. faults' \in Nat
  BY <1>1 DEF Fault
<1> QED
  BY <1>1, <1>2, <1>3, <1>4

\* An evicted agent had ended, and so had its driver.
LEMMA TrimEvicts ==
  ASSUME NEW p \in Proc, NEW m \in [Agent -> Agents], NEW drv \in [Agent -> Drivers], NEW recs,
         mem \in [Proc -> [Agent -> Agents]], driver \in [Proc -> [Agent -> Drivers]],
         Trim(p, m, recs, drv), NEW a \in Agent
  PROVE  \/ mem'[p][a] = m[a] /\ driver'[p][a] = drv[a]
         \/ /\ mem'[p][a] = NoAgent /\ driver'[p][a] = "none" /\ m[a].status # "running"
            /\ drv[a] \in {"none", "done"}
<1> DEFINE gone == {b \in Agent : /\ m[b].status \in Terminal /\ recs[b] # NoRecord
                                  /\ drv[b] \in {"none", "done"}}
<1>1. PICK E \in SUBSET gone :
        /\ mem' = [mem EXCEPT ![p] = [b \in Agent |-> IF b \in E THEN NoAgent ELSE m[b]]]
        /\ driver' = [driver EXCEPT ![p] = [b \in Agent |-> IF b \in E THEN "none" ELSE drv[b]]]
  BY DEF Trim
<1>2. a \in E => m[a].status # "running" /\ drv[a] \in {"none", "done"}
  BY DEF Terminal
<1>3. /\ mem'[p][a] = IF a \in E THEN NoAgent ELSE m[a]
      /\ driver'[p][a] = IF a \in E THEN "none" ELSE drv[a]
  BY <1>1
<1> QED
  BY <1>2, <1>3

LEMMA WakesEffect ==
  ASSUME NEW p \in Proc, waiter \in [Proc -> Waits], Wakes(p)
  PROVE  /\ waiter' \in [Proc -> Waits] /\ waiter'[p].pc # "asleep"
         /\ \A q \in Proc \ {p} : waiter'[q] = waiter[q]
<1>1. waiter[p] \in Waits
  OBVIOUS
<1>2. waiter[p].pc = "asleep" => /\ [waiter[p] EXCEPT !.pc = "woken"] \in Waits
                                 /\ [waiter[p] EXCEPT !.pc = "woken"].pc = "woken"
  BY <1>1 DEF Waits
<1>3. Woken(waiter[p]) \in Waits /\ Woken(waiter[p]).pc # "asleep"
  BY <1>1, <1>2 DEF Woken
<1> QED
  BY <1>3 DEF Wakes

-----------------------------------------------------------------------------
(* The steps.                                                              *)

\* Nobody closes an agent whose run is being started.
LEMMA StartRunIsNotClosed ==
  ASSUME WaitInv, NEW p \in Proc, NEW a \in Agent, Spawn(p, a) \/ Resume(p, a)
  PROVE  ~Closed(p, a) /\ StartRun(p, a)
<1>1. Counted(p, a) /\ CloseHolds(p, a)
  BY DEF WaitInv, Wakeful
<1>2. phase[p] = "up" /\ claim[a] = Nobody /\ StartRun(p, a)
  BY DEF Spawn, Resume, StartRun, Admits
<1>3. claim[a] # p
  BY <1>2, ProcAssumption
<1>4. CASE Spawn(p, a)
  BY <1>1, <1>2, <1>4 DEF Spawn, Counted
<1>5. CASE Resume(p, a)
  BY <1>1, <1>2, <1>3, <1>5 DEF Resume, CloseHolds
<1> QED
  BY <1>4, <1>5

LEMMA StartRunWakes ==
  ASSUME WaitInv, AgentInv', NEW p \in Proc, NEW a \in Agent, Spawn(p, a) \/ Resume(p, a)
  PROVE  WaitInv'
<1> DEFINE m == [mem[p] EXCEPT ![a] = Started(runs[a] + 1)]
<1>1. StartRun(p, a) /\ ~Closed(p, a) /\ Shape /\ Counts
  BY StartRunIsNotClosed DEF WaitInv, AgentInv
<1>2. /\ Started(runs[a] + 1) \in Agents /\ Started(runs[a] + 1).status = "running"
      /\ Started(runs[a] + 1) # NoAgent
  <2>1. runs[a] + 1 \in Nat
    BY <1>1 DEF Counts
  <2> QED
    BY <2>1 DEF Started, NoAgent, Agents, AnyStatus, Status
<1>3. m \in [Agent -> Agents] /\ m[a].status = "running" /\ m[a] # NoAgent
      /\ \A b \in Agent \ {a} : m[b] = mem[p][b]
  BY <1>1, <1>2 DEF Shape
<1>4. mem' = [mem EXCEPT ![p] = m] /\ Persist(p, m, owned[p] \cup {a})
  BY <1>1 DEF StartRun
<1> HIDE DEF m
<1>5. /\ driver' = [driver EXCEPT ![p][a] = "new"] /\ UNCHANGED <<phase, call, waiter>>
      /\ claim[a] = Nobody /\ claim' = [claim EXCEPT ![a] = p] /\ phase[p] = "up"
      /\ runs' = [runs EXCEPT ![a] = @ + 1]
  BY <1>1 DEF StartRun, Admits
<1>6. /\ \A q \in Proc \ {p} : records'[q] = records[q]
      /\ \A b \in Agent : records'[p][b] # NoRecord => records[p][b] # NoRecord \/ m[b] # NoAgent
      /\ \A b \in Agent : disk'[b] # NoRecord => disk[b] # NoRecord \/ m[b] # NoAgent
      /\ faults' \in Nat
  BY <1>1, <1>3, <1>4, PersistWrites DEF Counts
<1>7. /\ \A b \in Agent : mem'[p][b] = m[b]
      /\ \A b \in Agent \ {a} : driver'[p][b] = driver[p][b]
      /\ driver'[p][a] = "new" /\ runs' \in [Agent -> Nat] /\ runs'[a] > 0
      /\ \A b \in Agent : runs[b] > 0 => runs'[b] > 0
  BY <1>1, <1>3, <1>4, <1>5 DEF Shape, Counts
<1>8. Elsewhere(p)
  BY <1>1, <1>3, <1>4, <1>5, <1>6, ProcAssumption DEF Shape, Elsewhere
<1>9. \A b \in Agent \ {a} : Known(p, b)' => Known(p, b)
  BY <1>3, <1>6, <1>7 DEF Known
<1>10. Counts'
  <2>1. ASSUME NEW b \in Agent, disk'[b] # NoRecord
        PROVE  runs'[b] > 0
    <3>1. b = a \/ disk[b] # NoRecord \/ mem[p][b] # NoAgent
      BY <1>3, <1>6, <2>1
    <3>2. mem[p][b] # NoAgent => runs[b] > 0
      BY DEF WaitInv, Wakeful, Counted, Known
    <3> QED
      BY <1>1, <1>7, <3>1, <3>2 DEF Counts
  <2> QED
    BY <1>1, <1>5, <1>6, <1>7, <2>1 DEF Counts
<1>11. Down(p)'
  BY <1>5 DEF Down
<1>12. Sleeps(p)'
  <2>1. ASSUME NEW b \in Agent
        PROVE  Over(p, b)' => Over(p, b)
    <3>1. CASE b = a
      BY <1>3, <1>7, <3>1 DEF Over, Required
    <3>2. CASE b # a
      <4>1. mem'[p][b] = mem[p][b]
        BY <1>3, <1>7, <3>2
      <4>2. mem[p][b] = NoAgent => Required(p, b).status # "running"
        BY <1>1, RestoredIsOver
      <4> QED
        BY <4>1, <4>2 DEF Over, Required
    <3> QED
      BY <3>1, <3>2
  <2> QED
    BY <1>1, <1>5, <2>1, StillAsleep DEF WaitInv, Counts
<1>13. Wakeful(p, a)'
  <2>1. ~Closed(p, a)' /\ \A c \in Caller : ~Removing(call'[p][c], a)
    BY <1>1, <1>5 DEF Closed, Closing, Removing, WaitInv, Wakeful, RemoveIsOver
  <2> QED
    BY <1>3, <1>7, <2>1 DEF Wakeful, Counted, HasMemory, RunHasDriver, CloseIsMarked,
       CloseCancels, CloseHolds, RemoveIsOver, Live
<1>14. ASSUME NEW b \in Agent \ {a}
       PROVE  Wakeful(p, b)'
  <2>1. Wakeful(p, b)
    BY DEF WaitInv
  <2>2. mem'[p][b] = mem[p][b] /\ driver'[p][b] = driver[p][b] /\ claim'[b] = claim[b]
    BY <1>1, <1>3, <1>5, <1>7 DEF Shape
  <2>3. Calm(p, b)
    BY <1>5, <1>9, <2>1, <2>2
       DEF Calm, Wakeful, HasMemory, RunHasDriver, RemoveIsOver, Executing, Live
  <2> QED
    BY <1>7, <2>1, <2>3, CalmIsWakeful
<1> QED
  BY <1>7, <1>8, <1>10, <1>11, <1>12, <1>13, <1>14, StepKeeps

\* Whoever records the outcome of a: the driver, a caller or the shutdown.
LEMMA SettlingWakes ==
  ASSUME WaitInv, AgentInv', NEW p \in Proc, NEW a \in Agent, NEW m \in [Agent -> Agents],
         Live(p, a) \/ Executing(p, a), phase[p] # "down",
         m[a].status \notin {"none", "running"}, m[a].closing = mem[p][a].closing,
         \A b \in Agent \ {a} : m[b] = mem[p][b],
         Persist(p, m, owned[p]), Released(p, a), Wakes(p), UNCHANGED <<phase, runs>>,
         \A q \in Proc \ {p} : mem'[q] = mem[q] /\ driver'[q] = driver[q] /\ call'[q] = call[q],
         \A b \in Agent :
           \/ mem'[p][b] = m[b] /\ (driver'[p][b] = driver[p][b] \/ driver'[p][b] = "done")
           \/ mem'[p][b] = NoAgent /\ driver'[p][b] = "none",
         \A c \in Caller, b \in Agent :
           /\ Closing(call'[p][c], b) => Closing(call[p][c], b)
           /\ Removing(call'[p][c], b) =>
                call'[p][c].close /\ (Removing(call[p][c], b) \/ ~Live(p, b)')
  PROVE  WaitInv'
<1>1. Shape /\ Counts /\ \A b \in Agent : Wakeful(p, b)
  BY DEF WaitInv, AgentInv
<1>2. Known(p, a) /\ mem[p][a] # NoAgent
  BY <1>1 DEF NoAgent, Wakeful, HasMemory, Known, Live
<1>3. /\ \A q \in Proc \ {p} : records'[q] = records[q]
      /\ \A b \in Agent : records'[p][b] # NoRecord => records[p][b] # NoRecord \/ m[b] # NoAgent
      /\ \A b \in Agent : disk'[b] # NoRecord => disk[b] # NoRecord \/ m[b] # NoAgent
      /\ faults' \in Nat
  BY <1>1, PersistWrites DEF Counts
<1>4. /\ waiter' \in [Proc -> Waits] /\ waiter'[p].pc # "asleep"
      /\ \A q \in Proc \ {p} : waiter'[q] = waiter[q]
  BY <1>1, WakesEffect DEF Counts
<1>5. /\ claim' = claim \/ (claim[a] = p /\ claim' = [claim EXCEPT ![a] = Nobody])
      /\ mem[p][a].closing => claim' = claim
  BY DEF Released
<1>6. \A b \in Agent : m[b] # NoAgent => Known(p, b)
  BY <1>2 DEF Known
<1>7. Counts'
  <2>1. ASSUME NEW b \in Agent, disk'[b] # NoRecord
        PROVE  runs'[b] > 0
    BY <1>1, <1>3, <1>6, <2>1 DEF Counts, Wakeful, Counted
  <2> QED
    BY <1>1, <1>3, <1>4, <2>1 DEF Counts
<1>8. Elsewhere(p)
  BY <1>1, <1>3, <1>4, <1>5 DEF Shape, Elsewhere
<1>9. ASSUME NEW b \in Agent
      PROVE  Wakeful(p, b)'
  <2>1. Wakeful(p, b)
    BY <1>1
  <2>2. Known(p, b)' => Known(p, b)
    BY <1>3, <1>6 DEF Known
  <2>3. Executing(p, b)' => Executing(p, b) /\ mem'[p][b].status # "none"
    BY <2>1, NoAgentType DEF Executing, Wakeful, HasMemory
  <2>4. Live(p, b)' => /\ Live(p, b) /\ mem'[p][b] = mem[p][b] /\ driver'[p][b] # "none"
    BY <2>1, NoAgentType DEF Live, Wakeful, RunHasDriver
  <2>5. Live(p, b)' \/ Executing(p, b)' => mem'[p][b].closing = mem[p][b].closing
    BY <2>3, <2>4 DEF Executing
  <2>6. Known(p, b)' /\ Closed(p, b)' /\ claim[b] = p => claim'[b] = p
    <3>1. CASE b = a
      <4>1. Closed(p, a)' => Closed(p, a)
        BY DEF Closed
      <4>2. Closed(p, a)' => mem[p][a].closing
        BY <1>1, <4>1 DEF Wakeful, CloseIsMarked
      <4> QED
        BY <1>5, <3>1, <4>2
    <3>2. CASE b # a
      BY <1>1, <1>5, <3>2 DEF Shape
    <3> QED
      BY <3>1, <3>2
  <2>7. Calm(p, b)
    BY <2>2, <2>3, <2>4, <2>5, <2>6 DEF Calm
  <2> QED
    BY <2>1, <2>7, CalmIsWakeful
<1>10. Down(p)' /\ Sleeps(p)'
  BY <1>4 DEF Down, Sleeps
<1> QED
  BY <1>7, <1>8, <1>9, <1>10, StepKeeps

LEMMA EndedEffect ==
  ASSUME Shape, NEW p \in Proc, NEW a \in Agent, NEW s \in {"completed", "failed", "cancelled"}
  PROVE  LET m == [mem[p] EXCEPT ![a] = Ended(@, s)] IN
           /\ m \in [Agent -> Agents] /\ m[a].status \notin {"none", "running"}
           /\ m[a].closing = mem[p][a].closing /\ \A b \in Agent \ {a} : m[b] = mem[p][b]
<1>1. mem[p][a] \in Agents
  BY DEF Shape
<1>2. LET x == Ended(mem[p][a], s)
      IN  x \in Agents /\ x.status = s /\ x.closing = mem[p][a].closing
  BY <1>1 DEF Ended, Agents, AnyStatus, Status, Terminal
<1> QED
  BY <1>2 DEF Shape

LEMMA DriverReturnsWakes ==
  ASSUME WaitInv, AgentInv', NEW p \in Proc, NEW a \in Agent, Executing(p, a),
         NEW s \in {"completed", "failed", "cancelled"}, DriverReturns(p, a, s)
  PROVE  WaitInv'
<1> DEFINE m == [mem[p] EXCEPT ![a] = Ended(@, s)]
           d == [driver[p] EXCEPT ![a] = "done"]
           on(x) == IF x.pc = "join" /\ x.agent = a THEN [x EXCEPT !.pc = "joined"] ELSE x
<1>1. Shape /\ Fine(p, a)
  BY DEF WaitInv, AgentInv
<1>2. /\ m \in [Agent -> Agents] /\ m[a].status \notin {"none", "running"}
      /\ m[a].closing = mem[p][a].closing /\ \A b \in Agent \ {a} : m[b] = mem[p][b]
  BY <1>1, EndedEffect
<1>3. d \in [Agent -> Drivers] /\ \A b \in Agent : d[b] = driver[p][b] \/ d[b] = "done"
  BY <1>1 DEF Shape, Drivers
<1>4. /\ Persist(p, m, owned[p]) /\ Trim(p, m, records'[p], d) /\ Released(p, a) /\ Wakes(p)
      /\ UNCHANGED <<phase, runs>>
  BY DEF DriverReturns
<1>5. call' = [call EXCEPT ![p] = [c \in Caller |-> on(call[p][c])]]
  BY <1>1 DEF DriverReturns, Joined, Shape
<1> HIDE DEF m, d
<1>6. /\ \A q \in Proc \ {p} : mem'[q] = mem[q] /\ driver'[q] = driver[q]
      /\ \A b \in Agent : \/ mem'[p][b] = m[b] /\ driver'[p][b] = d[b]
                          \/ mem'[p][b] = NoAgent /\ driver'[p][b] = "none"
  <2>1. mem \in [Proc -> [Agent -> Agents]] /\ driver \in [Proc -> [Agent -> Drivers]]
    BY <1>1 DEF Shape
  <2> QED
    BY <1>2, <1>3, <1>4, <2>1, TrimEffect, ZenonT(40)
<1>7. ASSUME NEW c \in Caller
      PROVE  /\ on(call[p][c]).close = call[p][c].close
             /\ on(call[p][c]).agent = call[p][c].agent
             /\ on(call[p][c]).pc = call[p][c].pc
                  \/ (call[p][c].pc = "join" /\ on(call[p][c]).pc = "joined")
  <2>1. call[p][c] \in Calls
    BY <1>1 DEF Shape
  <2>2. LET y == [call[p][c] EXCEPT !.pc = "joined"]
        IN  y.close = call[p][c].close /\ y.agent = call[p][c].agent /\ y.pc = "joined"
    BY <2>1 DEF Calls
  <2> QED
    BY <2>2
<1> HIDE DEF on
<1>8. /\ \A q \in Proc \ {p} : call'[q] = call[q]
      /\ \A c \in Caller : call'[p][c] = on(call[p][c])
  BY <1>1, <1>5 DEF Shape
<1>9. \A c \in Caller, b \in Agent :
        /\ Closing(call'[p][c], b) => Closing(call[p][c], b)
        /\ Removing(call'[p][c], b) =>
             call'[p][c].close /\ (Removing(call[p][c], b) \/ ~Live(p, b)')
  BY <1>7, <1>8 DEF Closing, Removing, WaitInv, Wakeful, RemoveIsOver
<1>10. phase[p] # "down"
  BY <1>1 DEF Fine, DownIsIdle, Executing
<1> QED
  BY <1>2, <1>3, <1>4, <1>6, <1>8, <1>9, <1>10, SettlingWakes

LEMMA FinalizesWakes ==
  ASSUME WaitInv, AgentInv', NEW p \in Proc, NEW a \in Agent, Unfinished(mem[p][a]),
         Finalizes(p, a), phase[p] # "down", UNCHANGED <<phase, driver, runs>>,
         \A q \in Proc \ {p} : call'[q] = call[q],
         \A c \in Caller, b \in Agent :
           /\ Closing(call'[p][c], b) => Closing(call[p][c], b)
           /\ Removing(call'[p][c], b) =>
                call'[p][c].close /\ (Removing(call[p][c], b) \/ b = a)
  PROVE  WaitInv'
<1> DEFINE m == [mem[p] EXCEPT ![a] = Ended(@, "cancelled")]
<1>1. Shape /\ Live(p, a)
  BY DEF WaitInv, AgentInv, Unfinished, Live
<1>2. /\ m \in [Agent -> Agents] /\ m[a].status \notin {"none", "running"}
      /\ m[a].closing = mem[p][a].closing /\ \A b \in Agent \ {a} : m[b] = mem[p][b]
  BY <1>1, EndedEffect
<1>3. Persist(p, m, owned[p]) /\ mem' = [mem EXCEPT ![p] = m] /\ Released(p, a) /\ Wakes(p)
  BY DEF Finalizes
<1> HIDE DEF m
<1>4. mem'[p] = m /\ \A q \in Proc \ {p} : mem'[q] = mem[q]
  BY <1>1, <1>3 DEF Shape
<1>5. ~Live(p, a)'
  BY <1>2, <1>4 DEF Live
<1> QED
  BY <1>1, <1>2, <1>3, <1>4, <1>5, SettlingWakes

LEMMA CallerGoesOnWakes ==
  ASSUME WaitInv, AgentInv', NEW p \in Proc, NEW c \in Caller, CallerGoesOn(p, c)
  PROVE  WaitInv'
<1> DEFINE r == IF call[p][c].close THEN [call[p][c] EXCEPT !.pc = "remove"] ELSE NoCall
<1>1. Shape /\ Counts /\ Down(p) /\ Sleeps(p) /\ \A b \in Agent : Wakeful(p, b)
  BY DEF WaitInv, AgentInv
<1>2. /\ call[p][c].pc = "joined" /\ call' = [call EXCEPT ![p][c] = r]
      /\ UNCHANGED <<phase, driver, runs>>
  BY DEF CallerGoesOn
<1>3. call[p][c] \in Calls
  BY <1>1 DEF Shape
<1> PICK a \in Agent : call[p][c].agent = a
  BY <1>2, <1>3 DEF Calls
<1>4. /\ NoCall.pc = "idle"
      /\ r = NoCall \/ (r.agent = a /\ r.close /\ call[p][c].close)
  BY <1>3 DEF Calls, NoCall
<1> HIDE DEF r
<1>5. /\ call'[p][c] = r /\ \A q \in Proc \ {p} : call'[q] = call[q]
      /\ \A e \in Caller : e # c => call'[p][e] = call[p][e]
  BY <1>1, <1>2 DEF Shape
<1>6. ASSUME NEW e \in Caller, NEW b \in Agent
      PROVE  /\ Closing(call'[p][e], b) => Closing(call[p][e], b)
             /\ Removing(call'[p][e], b) =>
                  /\ call'[p][e].close
                  /\ Removing(call[p][e], b) \/ (b = a /\ Closing(call[p][c], a))
  <2>1. CASE e = c
    BY <1>2, <1>4, <1>5, <2>1 DEF Closing, Removing
  <2>2. CASE e # c
    BY <1>1, <1>5, <2>2 DEF Closing, Removing, Wakeful, RemoveIsOver
  <2> QED
    BY <2>1, <2>2
<1>7. phase[p] # "down"
  BY <1>1, <1>2, <1>4 DEF Down
<1>8. CASE Unfinished(mem[p][a]) /\ Finalizes(p, a)
  BY <1>2, <1>5, <1>6, <1>7, <1>8, FinalizesWakes
<1>9. CASE ~Unfinished(mem[p][a]) /\ UNCHANGED <<mem, records, disk, claim, waiter, faults>>
  <2>1. Closing(call[p][c], a) => ~Live(p, a)'
    BY <1>1, <1>9 DEF Closed, Wakeful, CloseCancels, Unfinished, Live
  <2>2. Counts' /\ Elsewhere(p) /\ Down(p)'
    BY <1>1, <1>2, <1>5, <1>7, <1>9 DEF Counts, Elsewhere, Down
  <2>3. Sleeps(p)'
    BY <1>1, <1>9 DEF Sleeps, Satisfied, Over, Required
  <2>4. ASSUME NEW b \in Agent
        PROVE  Wakeful(p, b)'
    <3>1. Wakeful(p, b)
      BY <1>1
    <3>2. Calm(p, b)
      BY <1>2, <1>6, <1>9, <2>1, <3>1
         DEF Calm, Wakeful, HasMemory, RunHasDriver, Known, Executing, Live
    <3> QED
      BY <1>2, <3>1, <3>2, CalmIsWakeful
  <2> QED
    BY <1>2, <2>2, <2>3, <2>4, StepKeeps
<1> QED
  BY <1>2, <1>8, <1>9 DEF CallerGoesOn

LEMMA ShutdownJoinsWakes ==
  ASSUME WaitInv, AgentInv', NEW p \in Proc, NEW a \in Agent, ShutdownJoins(p, a)
  PROVE  WaitInv'
<1>1. /\ phase[p] # "down" /\ Unfinished(mem[p][a]) /\ Finalizes(p, a)
      /\ UNCHANGED <<phase, driver, call, runs>>
  BY DEF ShutdownJoins
<1>2. \A c \in Caller, b \in Agent : Removing(call[p][c], b) => call[p][c].close
  BY DEF WaitInv, Wakeful, RemoveIsOver
<1> QED
  BY <1>1, <1>2, FinalizesWakes

\* The first half of a cancel or of a close.
LEMMA RequestsWakes ==
  ASSUME WaitInv, AgentInv', NEW p \in Proc, NEW c \in Caller, NEW a \in Agent, NEW x \in Agents,
         NEW close \in BOOLEAN, Requests(p, c, a, x, close), Known(p, a),
         x.status = Required(p, a).status, x.token = Required(p, a).token,
         close => x.closing, ~close => x = Required(p, a),
         call[p][c] = NoCall, phase[p] # "down",
         \/ claim' = claim /\ ~close
         \/ claim[a] \in {p, Nobody} /\ claim' = [claim EXCEPT ![a] = p],
         UNCHANGED <<phase, records, disk, waiter, runs, faults>>
  PROVE  WaitInv'
<1> DEFINE d == IF Hit(x) THEN Stopped(driver[p][a]) ELSE driver[p][a]
           y == [x EXCEPT !.token = @ \/ Hit(x)]
           r == IF d \in {"live", "stopping"} THEN [pc |-> "join", agent |-> a, close |-> close]
                ELSE IF d = "done" THEN [pc |-> "joined", agent |-> a, close |-> close]
                ELSE IF close THEN [pc |-> "remove", agent |-> a, close |-> close]
                ELSE NoCall
<1>1. Shape /\ Counts /\ Sleeps(p) /\ \A b \in Agent : Wakeful(p, b) /\ Fine(p, b)
  BY DEF WaitInv, AgentInv
<1>2. /\ mem' = [mem EXCEPT ![p][a] = y] /\ driver' = [driver EXCEPT ![p][a] = d]
      /\ call' = [call EXCEPT ![p][c] = r]
  BY DEF Requests
<1>3. /\ y \in Agents /\ y.status = x.status /\ (y.token <=> x.token \/ Hit(x))
      /\ y.closing = x.closing
  BY DEF Agents
<1>4. /\ mem[p][a] # NoAgent => Required(p, a) = mem[p][a]
      /\ x.status = "running" => mem[p][a] # NoAgent
  BY <1>1, RestoredIsOver
<1>5. /\ d \in {"live", "stopping"} => Executing(p, a)
      /\ d = "none" => driver[p][a] = "none"
  BY DEF Stopped, Executing
<1>6. d # "new"
  BY <1>1, <1>4, NoAgentType DEF Fine, NewIsUncancelled, Stopped, Hit
<1>7. d \in Drivers
  BY <1>1 DEF Shape, Drivers, Stopped
<1>8. /\ NoCall.pc = "idle" /\ (r = NoCall \/ (r.agent = a /\ r.close = close))
      /\ r.pc = "remove" => close /\ d = "none"
  BY <1>6, <1>7 DEF NoCall, Drivers
<1>9. /\ mem'[p][a] = y /\ driver'[p][a] = d /\ call'[p][c] = r
      /\ \A q \in Proc, b \in Agent : q # p \/ b # a =>
           mem'[q][b] = mem[q][b] /\ driver'[q][b] = driver[q][b]
      /\ \A e \in Caller : e # c => call'[p][e] = call[p][e]
      /\ \A q \in Proc \ {p} : mem'[q] = mem[q] /\ driver'[q] = driver[q] /\ call'[q] = call[q]
  BY <1>1, <1>2 DEF Shape
<1> HIDE DEF d, y, r
<1>10. Elsewhere(p)
  BY <1>1, <1>9, ProcAssumption DEF Shape, Elsewhere
<1>11. Counts' /\ Down(p)'
  BY <1>1 DEF Counts, Down
<1>12. Sleeps(p)'
  <2>1. \A b \in Agent : Over(p, b)' => Over(p, b)
    <3>1. ASSUME NEW b \in Agent \ {a}
          PROVE  Over(p, b)' => Over(p, b)
      BY <1>9 DEF Over, Required
    <3>2. Over(p, a)' => Over(p, a)
      <4>1. CASE mem'[p][a] = NoAgent
        <5>1. x.status # "running"
          BY <1>3, <1>9, <4>1, NoAgentType
        <5> QED
          BY <5>1 DEF Over
      <4>2. CASE mem'[p][a] # NoAgent
        BY <1>3, <1>9, <4>2 DEF Over, Required
      <4> QED
        BY <4>1, <4>2
    <3> QED
      BY <3>1, <3>2
  <2> QED
    BY <1>1, <2>1, StillAsleep DEF Counts
<1>13. ASSUME NEW e \in Caller, NEW b \in Agent, e # c \/ b # a \/ ~close
       PROVE  /\ Closing(call'[p][e], b) => Closing(call[p][e], b)
              /\ Removing(call'[p][e], b) => call'[p][e].close /\ Removing(call[p][e], b)
  BY <1>1, <1>8, <1>9, <1>13 DEF Closing, Removing, Wakeful, RemoveIsOver
<1>14. ASSUME NEW b \in Agent \ {a}
       PROVE  Wakeful(p, b)'
  <2>1. Wakeful(p, b) /\ (claim[b] = p => claim'[b] = p)
    BY <1>1 DEF Shape
  <2>2. Calm(p, b)
    BY <1>9, <1>13, <2>1 DEF Calm, Wakeful, HasMemory, RunHasDriver, Known, Executing, Live
  <2> QED
    BY <2>1, <2>2, CalmIsWakeful
<1>15. Wakeful(p, a) /\ (x.status = "running" => driver[p][a] # "none")
  BY <1>1, <1>4 DEF Wakeful, RunHasDriver, Live
<1>16. ASSUME ~close
       PROVE  Wakeful(p, a)'
  <2>1. x = Required(p, a)
    BY <1>16
  <2>2. Known(p, a)' => Known(p, a)
    OBVIOUS
  <2>3. Executing(p, a)' => Executing(p, a) /\ mem'[p][a].status # "none"
    BY <1>3, <1>4, <1>5, <1>6, <1>9, <1>15 DEF Executing, Wakeful, HasMemory, NoAgent
  <2>4. Live(p, a)' => /\ Live(p, a) /\ driver'[p][a] # "none"
                       /\ mem[p][a].token => mem'[p][a].token
    BY <1>3, <1>4, <1>5, <1>9, <1>15 DEF Live
  <2>5. Live(p, a)' \/ Executing(p, a)' => (mem[p][a].closing => mem'[p][a].closing)
    <3>1. Live(p, a)' \/ Executing(p, a)' => mem[p][a] # NoAgent
      BY <1>15, <2>3, <2>4 DEF NoAgent, Live, Wakeful, HasMemory
    <3> QED
      BY <1>3, <1>4, <1>9, <2>1, <3>1
  <2>6. claim[a] = p => claim'[a] = p
    BY <1>1 DEF Shape
  <2>7. Calm(p, a)
    BY <1>13, <1>16, <2>2, <2>3, <2>4, <2>5, <2>6 DEF Calm
  <2> QED
    BY <1>15, <2>7, CalmIsWakeful
<1>17. ASSUME close
       PROVE  Wakeful(p, a)'
  <2>1. y.closing /\ y # NoAgent /\ claim'[a] = p
    BY <1>1, <1>3, <1>17 DEF NoAgent, Shape
  <2>2. Counted(p, a)'
    BY <1>15 DEF Wakeful, Counted
  <2>3. HasMemory(p, a)'
    BY <1>3, <1>4, <1>5, <1>6, <1>9, <1>15 DEF HasMemory, Executing, Wakeful, NoAgent
  <2>4. RunHasDriver(p, a)' /\ CloseIsMarked(p, a)' /\ CloseHolds(p, a)'
    BY <1>3, <1>5, <1>9, <1>15, <2>1
       DEF RunHasDriver, CloseIsMarked, CloseHolds, Live
  <2>5. CloseCancels(p, a)'
    BY <1>3, <1>9 DEF CloseCancels, Live, Hit
  <2>6. RemoveIsOver(p, a)'
    <3>1. SUFFICES ASSUME NEW e \in Caller, Removing(call'[p][e], a)
                   PROVE  call'[p][e].close /\ ~Live(p, a)'
      BY DEF RemoveIsOver
    <3>2. CASE e = c
      BY <1>3, <1>5, <1>8, <1>9, <1>15, <3>1, <3>2 DEF Removing, Live
    <3>3. CASE e # c
      <4>1. call'[p][e].close /\ Removing(call[p][e], a)
        BY <1>13, <3>1, <3>3
      <4>2. ~Live(p, a)
        BY <1>15, <4>1 DEF Wakeful, RemoveIsOver
      <4> QED
        BY <1>3, <1>4, <1>9, <4>1, <4>2 DEF Live
    <3> QED
      BY <3>2, <3>3
  <2> QED
    BY <2>2, <2>3, <2>4, <2>5, <2>6 DEF Wakeful
<1> QED
  BY <1>10, <1>11, <1>12, <1>14, <1>16, <1>17, StepKeeps

LEMMA BeginsWakes ==
  ASSUME WaitInv, AgentInv', NEW p \in Proc, NEW c \in Caller, NEW a \in Agent,
         CancelBegins(p, c, a) \/ CloseBegins(p, c, a)
  PROVE  WaitInv'
<1>1. Required(p, a) \in Agents
  BY RestoredIsOver DEF WaitInv, AgentInv
<1>2. CASE CancelBegins(p, c, a)
  <2>1. Requests(p, c, a, Required(p, a), FALSE)
    BY <1>2 DEF CancelBegins
  <2>2. /\ call[p][c] = NoCall /\ phase[p] # "down" /\ claim' = claim /\ Known(p, a)
        /\ UNCHANGED <<phase, records, disk, waiter, runs, faults>>
    BY <1>2 DEF CancelBegins, requestOthers
  <2> QED
    BY <1>1, <2>1, <2>2, RequestsWakes
<1>3. CASE CloseBegins(p, c, a)
  <2> DEFINE x == [Required(p, a) EXCEPT !.closing = TRUE]
  <2>1. Requests(p, c, a, x, TRUE)
    BY <1>3 DEF CloseBegins
  <2>2. /\ x \in Agents /\ x.status = Required(p, a).status /\ x.token = Required(p, a).token
        /\ x.closing
    BY <1>1 DEF Agents
  <2>3. /\ call[p][c] = NoCall /\ phase[p] # "down" /\ Known(p, a)
        /\ claim[a] \in {p, Nobody} /\ claim' = [claim EXCEPT ![a] = p]
        /\ UNCHANGED <<phase, records, disk, waiter, runs, faults>>
    BY <1>3 DEF CloseBegins, requestOthers
  <2> HIDE DEF x
  <2> QED
    BY <2>1, <2>2, <2>3, RequestsWakes
<1> QED
  BY <1>2, <1>3

\* The second half of a close: the run it forgets has been over for long.
LEMMA CloseRemovesWakes ==
  ASSUME WaitInv, AgentInv', NEW p \in Proc, NEW c \in Caller, CloseRemoves(p, c)
  PROVE  WaitInv'
<1>1. Shape /\ Counts /\ Down(p) /\ Sleeps(p) /\ \A b \in Agent : Wakeful(p, b)
  BY DEF WaitInv, AgentInv
<1>2. /\ call[p][c].pc = "remove" /\ call' = [call EXCEPT ![p][c] = NoCall]
      /\ call[p][c] \in Calls
  BY <1>1 DEF CloseRemoves, Shape
<1> PICK a \in Agent : call[p][c].agent = a
  BY <1>2 DEF Calls
<1> DEFINE y == [Required(p, a) EXCEPT !.closing = FALSE]
<1>3. /\ claim' = IF claim[a] = p THEN [claim EXCEPT ![a] = Nobody] ELSE claim
      /\ UNCHANGED <<phase, waiter, runs>>
      /\ \/ /\ disk' = [disk EXCEPT ![a] = Tombstone]
            /\ mem' = [mem EXCEPT ![p][a] = NoAgent]
            /\ records' = [records EXCEPT ![p][a] = NoRecord]
            /\ driver' = [driver EXCEPT ![p][a] = "none"] /\ UNCHANGED faults
         \/ /\ Fault /\ mem' = [mem EXCEPT ![p][a] = y] /\ UNCHANGED <<disk, records, driver>>
  BY DEF CloseRemoves
<1>4. ~Live(p, a) /\ Closed(p, a) /\ runs[a] > 0
  BY <1>1, <1>2 DEF Removing, Closed, Closing, Wakeful, RemoveIsOver, Counted
<1>5. Over(p, a)
  BY <1>1, <1>4, RestoredIsOver DEF Over, Live
<1>6. /\ call'[p][c] = NoCall /\ NoCall.pc = "idle"
      /\ \A e \in Caller : e # c => call'[p][e] = call[p][e]
      /\ \A q \in Proc \ {p} : call'[q] = call[q]
  BY <1>1, <1>2 DEF Shape, NoCall
<1>7. y \in Agents /\ y.status = Required(p, a).status
  <2>1. Required(p, a) \in Agents
    BY <1>1, RestoredIsOver
  <2> QED
    BY <2>1 DEF Agents
<1> HIDE DEF y
<1>8. /\ mem'[p][a] = NoAgent \/ mem'[p][a] = y
      /\ \A q \in Proc, b \in Agent : q # p \/ b # a =>
           /\ mem'[q][b] = mem[q][b] /\ driver'[q][b] = driver[q][b]
           /\ records'[q][b] = records[q][b] /\ (claim[b] = q => claim'[b] = q)
      /\ \A q \in Proc \ {p} :
           mem'[q] = mem[q] /\ driver'[q] = driver[q] /\ records'[q] = records[q]
  BY <1>1, <1>3 DEF Shape
<1>9. ~Live(p, a)'
  BY <1>5, <1>7, <1>8, NoAgentType DEF Live, Over
<1>10. Counts' /\ Elsewhere(p) /\ Down(p)'
  <2>1. faults' \in Nat
    BY <1>1, <1>3 DEF Counts, Fault
  <2>2. \A b \in Agent : disk'[b] # NoRecord => runs'[b] > 0
    BY <1>1, <1>3, <1>4 DEF Counts, Shape
  <2>3. Counts'
    BY <1>1, <1>3, <2>1, <2>2 DEF Counts
  <2>4. Elsewhere(p)
    BY <1>3, <1>6, <1>8 DEF Elsewhere
  <2>5. phase[p] # "down"
    BY <1>1, <1>2, <1>6 DEF Down
  <2> QED
    BY <1>3, <2>3, <2>4, <2>5 DEF Down
<1>11. Sleeps(p)'
  <2>1. \A b \in Agent : Over(p, b)' => Over(p, b)
    BY <1>5, <1>8 DEF Over, Required
  <2> QED
    BY <1>1, <1>3, <2>1, StillAsleep DEF Counts
<1>12. ASSUME NEW e \in Caller, NEW b \in Agent
       PROVE  /\ Closing(call'[p][e], b) => Closing(call[p][e], b)
              /\ Removing(call'[p][e], b) => call'[p][e].close /\ Removing(call[p][e], b)
  BY <1>1, <1>6 DEF Closing, Removing, Wakeful, RemoveIsOver
<1>13. ASSUME NEW b \in Agent \ {a}
       PROVE  Wakeful(p, b)'
  <2>1. Wakeful(p, b)
    BY <1>1
  <2>2. Calm(p, b)
    BY <1>3, <1>8, <1>12, <2>1
       DEF Calm, Wakeful, HasMemory, RunHasDriver, Known, Executing, Live
  <2> QED
    BY <1>3, <2>1, <2>2, CalmIsWakeful
<1>14. Wakeful(p, a)'
  <2>1. CASE /\ mem' = [mem EXCEPT ![p][a] = NoAgent]
             /\ records' = [records EXCEPT ![p][a] = NoRecord]
             /\ driver' = [driver EXCEPT ![p][a] = "none"]
    <3>1. ~Known(p, a)' /\ ~Executing(p, a)'
      BY <1>1, <2>1 DEF Shape, Known, Executing
    <3>2. Calm(p, a)
      BY <1>3, <1>9, <1>12, <3>1 DEF Calm
    <3> QED
      BY <1>1, <1>3, <3>2, CalmIsWakeful
  <2>2. CASE Fault /\ mem' = [mem EXCEPT ![p][a] = y] /\ UNCHANGED <<disk, records, driver>>
    <3>1. MaxFaults # 0
      BY <1>1, <2>2, LimitAssumption DEF Fault, Counts
    <3>2. \A e \in Caller : e = c
      BY <3>1, CallerAssumption
    <3>3. ~Closed(p, a)' /\ \A e \in Caller : ~Removing(call'[p][e], a)
      BY <1>6, <3>2 DEF Closed, Closing, Removing
    <3>4. HasMemory(p, a) /\ driver'[p][a] = driver[p][a] /\ mem'[p][a] = y
      BY <1>1, <2>2 DEF Wakeful, Shape
    <3>5. HasMemory(p, a)'
      BY <1>1, <1>7, <3>4, RestoredIsOver DEF HasMemory, Executing, NoAgent
    <3>6. Counted(p, a)'
      BY <1>3, <1>4 DEF Counted
    <3> QED
      BY <1>9, <3>3, <3>5, <3>6
         DEF Wakeful, RunHasDriver, CloseIsMarked, CloseCancels, CloseHolds, RemoveIsOver
  <2> QED
    BY <1>3, <2>1, <2>2
<1> QED
  BY <1>3, <1>10, <1>11, <1>13, <1>14, StepKeeps

\* Restoring and evicting agents ends no run.
LEMMA ReadingIsCalm ==
  ASSUME WaitInv, NEW p \in Proc, NEW S, UNCHANGED <<phase, records, call, claim, runs>>,
         \A b \in Agent :
           \/ mem'[p][b] = Loaded(p, S)[b] /\ driver'[p][b] = driver[p][b]
           \/ /\ mem'[p][b] = NoAgent /\ driver'[p][b] = "none"
              /\ Loaded(p, S)[b].status # "running"
  PROVE  /\ \A b \in Agent : (Over(p, b)' => Over(p, b)) /\ Wakeful(p, b)'
<1> DEFINE m == Loaded(p, S)
<1>1. Shape
  BY DEF WaitInv, AgentInv
<1> SUFFICES ASSUME NEW b \in Agent
             PROVE  (Over(p, b)' => Over(p, b)) /\ Wakeful(p, b)'
  OBVIOUS
<1>2. /\ m[b] # NoAgent => Known(p, b) /\ m[b] = Required(p, b)
      /\ m[b] = mem[p][b] \/ (mem[p][b] = NoAgent /\ m[b].status # "running")
  BY <1>1, LoadedIsKnown, LoadedEffect
<1>3. mem[p][b] # NoAgent => Required(p, b) = mem[p][b]
  BY DEF Required
<1>4. m[b].status # "running" => Over(p, b)
  BY <1>1, <1>2, <1>3, RestoredIsOver DEF Over
<1> HIDE DEF m
<1>5. /\ \/ mem'[p][b] = m[b] /\ driver'[p][b] = driver[p][b]
         \/ mem'[p][b] = NoAgent /\ driver'[p][b] = "none" /\ m[b].status # "running"
      /\ records'[p][b] = records[p][b]
  BY DEF m
<1>6. Over(p, b)' => Over(p, b)
  <2>1. CASE mem'[p][b] = NoAgent
    BY <1>4, <1>5, <2>1, NoAgentType
  <2>2. CASE mem'[p][b] # NoAgent
    BY <1>2, <1>5, <2>2 DEF Over, Required
  <2> QED
    BY <2>1, <2>2
<1>7. Wakeful(p, b)
  BY DEF WaitInv
<1>8. Known(p, b)' => Known(p, b)
  BY <1>2, <1>5 DEF Known
<1>9. Executing(p, b)' => Executing(p, b) /\ mem'[p][b] = mem[p][b] /\ mem'[p][b].status # "none"
  BY <1>2, <1>5, <1>7 DEF Executing, Wakeful, HasMemory, NoAgent
<1>10. Live(p, b)' => /\ Live(p, b) /\ driver'[p][b] # "none"
                      /\ mem'[p][b] = mem[p][b]
  BY <1>2, <1>5, <1>7, NoAgentType DEF Live, Wakeful, RunHasDriver
<1>11. \A c \in Caller : Removing(call[p][c], b) => call[p][c].close
  BY <1>7 DEF Wakeful, RemoveIsOver
<1>12. Calm(p, b)
  BY <1>8, <1>9, <1>10, <1>11 DEF Calm
<1> QED
  BY <1>6, <1>7, <1>12, CalmIsWakeful

LEMMA LooksWakes ==
  ASSUME WaitInv, AgentInv', NEW p \in Proc, NEW a \in Agent, Looks(p, a)
  PROVE  WaitInv'
<1> DEFINE m == Loaded(p, {a})
<1>1. Shape /\ Counts /\ Sleeps(p)
  BY DEF WaitInv, AgentInv
<1>2. /\ m \in [Agent -> Agents] /\ driver[p] \in [Agent -> Drivers]
      /\ mem \in [Proc -> [Agent -> Agents]] /\ driver \in [Proc -> [Agent -> Drivers]]
  BY <1>1, LoadedEffect DEF Shape
<1>3. /\ UNCHANGED <<phase, records, disk, call, claim, waiter, runs, faults>>
      /\ phase[p] # "down"
      /\ \/ Trim(p, m, records[p], driver[p])
         \/ mem' = [mem EXCEPT ![p] = m] /\ driver' = driver
  BY DEF Looks
<1> HIDE DEF m
<1>4. ASSUME NEW b \in Agent
      PROVE  \/ mem'[p][b] = m[b] /\ driver'[p][b] = driver[p][b]
             \/ mem'[p][b] = NoAgent /\ driver'[p][b] = "none" /\ m[b].status # "running"
  <2>1. CASE Trim(p, m, records[p], driver[p])
    BY <1>2, <2>1, TrimEvicts
  <2>2. CASE mem' = [mem EXCEPT ![p] = m] /\ driver' = driver
    BY <1>2, <2>2
  <2> QED
    BY <1>3, <2>1, <2>2
<1>5. \A q \in Proc \ {p} : mem'[q] = mem[q] /\ driver'[q] = driver[q]
  <2>1. CASE Trim(p, m, records[p], driver[p])
    BY <1>2, <2>1, TrimEffect
  <2>2. CASE mem' = [mem EXCEPT ![p] = m] /\ driver' = driver
    BY <1>2, <2>2
  <2> QED
    BY <1>3, <2>1, <2>2
<1>6. \A b \in Agent : (Over(p, b)' => Over(p, b)) /\ Wakeful(p, b)'
  BY <1>3, <1>4, ReadingIsCalm DEF m
<1>7. Sleeps(p)'
  BY <1>1, <1>3, <1>6, StillAsleep DEF Counts
<1>8. Counts' /\ Down(p)' /\ Elsewhere(p)
  BY <1>1, <1>3, <1>5 DEF Counts, Down, Elsewhere
<1> QED
  BY <1>3, <1>6, <1>7, <1>8, StepKeeps

LEMMA ReadsWakes ==
  ASSUME WaitInv, AgentInv', NEW p \in Proc, NEW w \in Waits, Reads(p, w),
         phase[p] # "down", UNCHANGED waitOthers
  PROVE  WaitInv'
<1> DEFINE m == Loaded(p, w.targets)
<1>1. Shape /\ Counts
  BY DEF WaitInv, AgentInv
<1>2. UNCHANGED <<phase, records, driver, call, claim, disk, runs, faults>>
  BY DEF waitOthers
<1>3. NoWait \in Waits /\ NoWait.pc # "asleep"
  BY DEF NoWait, Waits
<1>4. /\ [w EXCEPT !.pc = "asleep"] \in Waits
      /\ [w EXCEPT !.pc = "asleep"].all = w.all
      /\ [w EXCEPT !.pc = "asleep"].targets = w.targets /\ w.targets \subseteq Agent
  BY DEF Waits
<1>5. \/ waiter' = [waiter EXCEPT ![p] = NoWait]
      \/ waiter' = [waiter EXCEPT ![p] = [w EXCEPT !.pc = "asleep"]] /\ ~Satisfied(p, w)
  BY DEF Reads
<1>6. Counts' /\ \A q \in Proc \ {p} : waiter'[q] = waiter[q]
  BY <1>1, <1>2, <1>3, <1>4, <1>5 DEF Counts
<1>7. m \in [Agent -> Agents]
  BY <1>1, LoadedEffect
<1>8. Loaded(p, {}) = mem[p]
  BY <1>1 DEF Loaded, Shape
<1>9. mem' = [mem EXCEPT ![p] = m] \/ mem' = mem
  BY DEF Reads
<1> HIDE DEF m
<1>10. mem'[p] \in {m, Loaded(p, {})} /\ \A q \in Proc \ {p} : mem'[q] = mem[q]
  BY <1>1, <1>7, <1>8, <1>9 DEF Shape
<1>11. \A b \in Agent : (Over(p, b)' => Over(p, b)) /\ Wakeful(p, b)'
  <2>1. CASE mem'[p] = m
    BY <1>2, <2>1, ReadingIsCalm DEF m
  <2>2. CASE mem'[p] = Loaded(p, {})
    BY <1>2, <2>2, ReadingIsCalm
  <2> QED
    BY <1>10, <2>1, <2>2
<1>12. Sleeps(p)'
  <2>1. CASE waiter' = [waiter EXCEPT ![p] = NoWait]
    BY <1>1, <1>3, <2>1 DEF Counts, Sleeps
  <2>2. CASE waiter' = [waiter EXCEPT ![p] = [w EXCEPT !.pc = "asleep"]] /\ ~Satisfied(p, w)
    <3>1. waiter'[p].all = w.all /\ waiter'[p].targets = w.targets
      BY <1>1, <1>4, <2>2 DEF Counts
    <3> QED
      BY <1>4, <1>11, <2>2, <3>1 DEF Sleeps, Satisfied
  <2> QED
    BY <1>5, <2>1, <2>2
<1>13. Down(p)' /\ Elsewhere(p)
  BY <1>2, <1>6, <1>10 DEF Down, Elsewhere
<1> QED
  BY <1>2, <1>6, <1>11, <1>12, <1>13, StepKeeps

LEMMA WaitWakesUp ==
  ASSUME WaitInv, AgentInv', NEW p \in Proc, Wait(p)
  PROVE  WaitInv'
<1>1. Shape /\ Counts /\ Down(p) /\ \A b \in Agent : Wakeful(p, b)
  BY DEF WaitInv, AgentInv
<1>2. NoWait \in Waits /\ NoWait.pc = "idle"
  BY DEF NoWait, Waits
<1>3. CASE WaitBegins(p)
  <2>1. PICK all \in BOOLEAN, S \in SUBSET {a \in Agent : Known(p, a)} :
          Reads(p, [pc |-> "asleep", all |-> all, targets |-> S])
    BY <1>3 DEF WaitBegins
  <2>2. [pc |-> "asleep", all |-> all, targets |-> S] \in Waits
    BY DEF Waits
  <2> QED
    BY <1>3, <2>1, <2>2, ReadsWakes DEF WaitBegins
<1>4. CASE WaitWakes(p)
  <2>1. phase[p] # "down"
    BY <1>1, <1>2, <1>4 DEF WaitWakes, Down
  <2>2. waiter[p] \in Waits
    BY <1>1 DEF Counts
  <2> QED
    BY <1>4, <2>1, <2>2, ReadsWakes DEF WaitWakes
<1>5. CASE WaitTimesOut(p)
  <2>1. /\ waiter' = [waiter EXCEPT ![p] = NoWait]
        /\ UNCHANGED <<mem, phase, records, driver, call, claim, disk, runs, faults>>
    BY <1>5 DEF WaitTimesOut, waitOthers
  <2>2. waiter'[p] = NoWait /\ \A q \in Proc \ {p} : waiter'[q] = waiter[q]
    BY <1>1, <2>1 DEF Counts
  <2>3. Counts' /\ Down(p)' /\ Sleeps(p)' /\ Elsewhere(p)
    BY <1>1, <1>2, <2>1, <2>2 DEF Counts, Down, Sleeps, Elsewhere
  <2>4. \A b \in Agent : Wakeful(p, b)'
    BY <1>1, <2>1 DEF Wakeful, Counted, HasMemory, RunHasDriver, CloseIsMarked, CloseCancels,
                      CloseHolds, RemoveIsOver, Known, Closed, Executing, Live
  <2> QED
    BY <2>1, <2>3, <2>4, StepKeeps
<1> QED
  BY <1>3, <1>4, <1>5 DEF Wait

LEMMA DriveWakes ==
  ASSUME WaitInv, AgentInv', NEW p \in Proc, NEW a \in Agent, Drive(p, a)
  PROVE  WaitInv'
<1>1. CASE DriverStarts(p, a)
  <2>1. /\ driver[p][a] = "new" /\ driver' = [driver EXCEPT ![p][a] = "live"]
        /\ UNCHANGED <<phase, mem, records, call, waiter, claim, disk, runs, faults>>
    BY <1>1 DEF DriverStarts
  <2>2. Shape /\ Counts /\ Down(p) /\ Sleeps(p) /\ \A b \in Agent : Wakeful(p, b)
    BY DEF WaitInv, AgentInv
  <2>3. /\ driver'[p][a] = "live" /\ \A b \in Agent \ {a} : driver'[p][b] = driver[p][b]
        /\ \A q \in Proc \ {p} : driver'[q] = driver[q]
    BY <2>1, <2>2 DEF Shape
  <2>4. Counts' /\ Down(p)' /\ Sleeps(p)' /\ Elsewhere(p)
    BY <2>1, <2>2, <2>3 DEF Counts, Down, Sleeps, Satisfied, Over, Required, Elsewhere
  <2>5. ASSUME NEW b \in Agent
        PROVE  Wakeful(p, b)'
    <3>1. /\ Executing(p, b)' => Executing(p, b)
          /\ driver'[p][b] = "none" => driver[p][b] = "none"
      BY <2>1, <2>3 DEF Executing
    <3>2. Wakeful(p, b)
      BY <2>2
    <3>3. Calm(p, b)
      BY <2>1, <3>1, <3>2
         DEF Calm, Wakeful, HasMemory, RunHasDriver, RemoveIsOver, Known, Live
    <3> QED
      BY <2>1, <3>2, <3>3, CalmIsWakeful
  <2> QED
    BY <2>1, <2>4, <2>5, StepKeeps
<1>2. CASE DriverEnds(p, a)
  <2>1. PICK s \in {"completed", "failed", "cancelled"} : DriverReturns(p, a, s)
    BY <1>2 DEF DriverEnds
  <2>2. Executing(p, a)
    BY <1>2 DEF DriverEnds, Executing
  <2> QED
    BY <2>1, <2>2, DriverReturnsWakes
<1>3. CASE ReportsProgress(p, a)
  BY <1>3, ApartKeeps DEF ReportsProgress
<1> QED
  BY <1>1, <1>2, <1>3 DEF Drive

LEMMA ShutdownBeginsWakes ==
  ASSUME WaitInv, AgentInv', NEW p \in Proc, ShutdownBegins(p)
  PROVE  WaitInv'
<1> DEFINE m == [a \in Agent |-> IF Executing(p, a) THEN [mem[p][a] EXCEPT !.token = TRUE]
                                 ELSE mem[p][a]]
           d == [a \in Agent |-> Stopped(driver[p][a])]
<1>1. Shape /\ Counts /\ Down(p) /\ Sleeps(p) /\ \A b \in Agent : Wakeful(p, b)
  BY DEF WaitInv, AgentInv
<1>2. /\ phase[p] = "up" /\ phase' = [phase EXCEPT ![p] = "stopping"]
      /\ UNCHANGED <<records, call, waiter, claim, disk, runs, faults>>
      /\ mem' = [mem EXCEPT ![p] = m] /\ driver' = [driver EXCEPT ![p] = d]
  BY <1>1 DEF ShutdownBegins, Shape
<1>3. /\ mem'[p] = m /\ driver'[p] = d /\ phase'[p] = "stopping"
      /\ \A q \in Proc \ {p} :
           mem'[q] = mem[q] /\ driver'[q] = driver[q] /\ phase'[q] = phase[q]
  BY <1>1, <1>2 DEF Shape
<1>4. ASSUME NEW b \in Agent
      PROVE  /\ m[b].status = mem[p][b].status /\ m[b].closing = mem[p][b].closing
             /\ mem[p][b].token => m[b].token
             /\ m[b] = mem[p][b] \/ (Executing(p, b) /\ m[b].token)
             /\ d[b] \in {"new", "live", "stopping"} => Executing(p, b)
             /\ d[b] = "none" => driver[p][b] = "none"
  <2>1. mem[p][b] \in Agents /\ driver[p][b] \in Drivers
    BY <1>1 DEF Shape
  <2>2. LET y == [mem[p][b] EXCEPT !.token = TRUE]
        IN  y.status = mem[p][b].status /\ y.closing = mem[p][b].closing /\ y.token
    BY <2>1 DEF Agents
  <2> QED
    BY <2>1, <2>2 DEF Drivers, Stopped, Executing
<1> HIDE DEF m, d
<1>5. Counts' /\ Down(p)' /\ Elsewhere(p)
  BY <1>1, <1>2, <1>3 DEF Counts, Down, Elsewhere
<1>6. \A b \in Agent : Executing(p, b) => mem[p][b] # NoAgent /\ m[b] # NoAgent
  BY <1>1, <1>4 DEF Wakeful, HasMemory, NoAgent
<1>7. Sleeps(p)'
  <2>1. ASSUME NEW b \in Agent
        PROVE  Over(p, b)' => Over(p, b)
    BY <1>2, <1>3, <1>4, <1>6 DEF Over, Required
  <2> QED
    BY <1>1, <1>2, <2>1, StillAsleep DEF Counts
<1>8. ASSUME NEW b \in Agent
      PROVE  Wakeful(p, b)'
  <2>1. Wakeful(p, b)
    BY <1>1
  <2>2. Known(p, b)' => Known(p, b)
    BY <1>2, <1>3, <1>4, <1>6 DEF Known
  <2>3. Executing(p, b)' => Executing(p, b) /\ mem'[p][b].status # "none"
    BY <1>3, <1>4, <2>1 DEF Executing, Wakeful, HasMemory
  <2>4. Calm(p, b)
    BY <1>2, <1>3, <1>4, <2>1, <2>2, <2>3
       DEF Calm, Wakeful, RunHasDriver, RemoveIsOver, Live
  <2> QED
    BY <1>2, <2>1, <2>4, CalmIsWakeful
<1> QED
  BY <1>2, <1>5, <1>7, <1>8, StepKeeps

LEMMA ShutdownEndsWakes ==
  ASSUME WaitInv, AgentInv', NEW p \in Proc, ShutdownEnds(p)
  PROVE  WaitInv'
<1>1. Shape /\ Counts /\ Sleeps(p) /\ \A b \in Agent : Wakeful(p, b)
  BY DEF WaitInv, AgentInv
<1>2. /\ phase' = [phase EXCEPT ![p] = "closed"] /\ Freed(p)
      /\ UNCHANGED <<mem, records, driver, call, waiter, disk, runs, faults>>
  BY DEF ShutdownEnds
<1>3. phase'[p] = "closed" /\ \A q \in Proc \ {p} : phase'[q] = phase[q]
  BY <1>1, <1>2 DEF Shape
<1>4. Counts' /\ Down(p)' /\ Sleeps(p)' /\ Elsewhere(p)
  BY <1>1, <1>2, <1>3, FreedEffect
     DEF Counts, Down, Sleeps, Satisfied, Over, Required, Elsewhere
<1>5. ASSUME NEW b \in Agent
      PROVE  Wakeful(p, b)'
  <2>1. Wakeful(p, b)
    BY <1>1
  <2>2. Calm(p, b)
    BY <1>2, <1>3, <2>1
       DEF Calm, Wakeful, HasMemory, RunHasDriver, RemoveIsOver, Known, Executing, Live
  <2> QED
    BY <1>2, <2>1, <2>2, CalmIsWakeful
<1> QED
  BY <1>2, <1>4, <1>5, StepKeeps

\* Nothing is known, running or asked for in a process that has gone.
LEMMA GoneWakes ==
  ASSUME WaitInv, AgentInv', NEW p \in Proc, Gone(p)
  PROVE  WaitInv'
<1>1. Shape /\ Counts
  BY DEF WaitInv, AgentInv
<1>2. /\ phase' = [phase EXCEPT ![p] = "down"]
      /\ mem' = [mem EXCEPT ![p] = [a \in Agent |-> NoAgent]]
      /\ records' = [records EXCEPT ![p] = [a \in Agent |-> NoRecord]]
      /\ driver' = [driver EXCEPT ![p] = [a \in Agent |-> "none"]]
      /\ call' = [call EXCEPT ![p] = [c \in Caller |-> NoCall]]
      /\ waiter' = [waiter EXCEPT ![p] = NoWait]
      /\ Freed(p) /\ UNCHANGED <<disk, runs, faults>>
  BY DEF Gone
<1>3. /\ waiter'[p] = NoWait /\ \A c \in Caller : call'[p][c] = NoCall
      /\ \A q \in Proc \ {p} :
           /\ phase'[q] = phase[q] /\ mem'[q] = mem[q] /\ records'[q] = records[q]
           /\ driver'[q] = driver[q] /\ call'[q] = call[q] /\ waiter'[q] = waiter[q]
      /\ \A a \in Agent :
           mem'[p][a] = NoAgent /\ records'[p][a] = NoRecord /\ driver'[p][a] = "none"
  BY <1>1, <1>2 DEF Shape, Counts
<1>4. NoWait \in Waits /\ NoWait.pc = "idle" /\ NoCall.pc = "idle"
  BY DEF NoWait, Waits, NoCall
<1>5. Counts' /\ Down(p)' /\ Sleeps(p)' /\ Elsewhere(p)
  BY <1>1, <1>2, <1>3, <1>4, FreedEffect DEF Counts, Down, Sleeps, Elsewhere
<1>6. ASSUME NEW b \in Agent
      PROVE  Wakeful(p, b)'
  BY <1>3, <1>4, NoAgentType
     DEF Wakeful, Counted, HasMemory, RunHasDriver, CloseIsMarked, CloseCancels, CloseHolds,
         RemoveIsOver, Known, Closed, Closing, Removing, Executing, Live
<1> QED
  BY <1>2, <1>5, <1>6, StepKeeps

LEMMA StartWakes ==
  ASSUME WaitInv, AgentInv', NEW p \in Proc, Start(p)
  PROVE  WaitInv'
<1> DEFINE recs == [a \in Agent |-> Found(disk[a])]
           m == [a \in Agent |-> IF recs[a] = NoRecord THEN NoAgent ELSE Restored(recs[a])]
<1>1. Shape /\ Counts /\ Down(p) /\ Sleeps(p) /\ \A b \in Agent : Wakeful(p, b) /\ Fine(p, b)
  BY DEF WaitInv, AgentInv
<1>2. /\ phase[p] = "down" /\ phase' = [phase EXCEPT ![p] = "up"]
      /\ records' = [records EXCEPT ![p] = recs] /\ Trim(p, m, recs, driver[p])
      /\ UNCHANGED <<call, waiter, claim, disk, runs, faults>>
  BY DEF Start
<1>3. NoRecord.mine = FALSE /\ NoRecord \in Records
  BY DEF NoRecord, Records, AnyStatus, Status
<1>4. ASSUME NEW a \in Agent
      PROVE  /\ recs[a] \in Records /\ (recs[a] # NoRecord => disk[a] # NoRecord)
             /\ m[a] \in Agents /\ m[a].status # "running"
             /\ m[a] # NoAgent => recs[a] # NoRecord
  <2>1. disk[a] \in Records
    BY <1>1 DEF Shape
  <2>2. [disk[a] EXCEPT !.mine = FALSE] \in Records
    BY <2>1 DEF Records
  <2>3. [NoRecord EXCEPT !.mine = FALSE] = NoRecord
    BY <1>3 DEF Records
  <2>4. recs[a] \in Records /\ (recs[a] # NoRecord => disk[a] # NoRecord)
    BY <1>3, <2>2, <2>3 DEF Found
  <2> HIDE DEF recs
  <2>5. Restored(recs[a]) \in Agents /\ Restored(recs[a]).status # "running"
    BY <2>4 DEF Restored, NoAgent, Agents, Records, AnyStatus, Status, Terminal
  <2> QED
    BY <2>4, <2>5, NoAgentType
<1>5. m \in [Agent -> Agents] /\ recs \in [Agent -> Records]
  BY <1>4
<1> HIDE DEF m, recs
<1>6. /\ mem \in [Proc -> [Agent -> Agents]] /\ driver \in [Proc -> [Agent -> Drivers]]
      /\ driver[p] \in [Agent -> Drivers]
  BY <1>1 DEF Shape
<1>7. /\ \A q \in Proc \ {p} : mem'[q] = mem[q] /\ driver'[q] = driver[q]
      /\ \A a \in Agent : \/ mem'[p][a] = m[a] /\ driver'[p][a] = driver[p][a]
                          \/ mem'[p][a] = NoAgent /\ driver'[p][a] = "none"
  BY <1>2, <1>5, <1>6, TrimEffect
<1>8. /\ phase'[p] = "up" /\ records'[p] = recs
      /\ \A q \in Proc \ {p} : phase'[q] = phase[q] /\ records'[q] = records[q]
  BY <1>1, <1>2 DEF Shape
<1>9. /\ waiter[p] = NoWait /\ NoWait.pc = "idle" /\ NoCall.pc = "idle"
      /\ \A c \in Caller : call[p][c] = NoCall
  BY <1>1, <1>2 DEF Down, NoWait, NoCall
<1>10. Counts' /\ Down(p)' /\ Sleeps(p)' /\ Elsewhere(p)
  BY <1>1, <1>2, <1>7, <1>8, <1>9 DEF Counts, Down, Sleeps, Elsewhere
<1>11. ASSUME NEW b \in Agent
       PROVE  Wakeful(p, b)'
  <2>1. driver[p][b] = "none"
    BY <1>1, <1>2 DEF Fine, DownIsIdle
  <2>2. driver'[p][b] = "none" /\ ~Live(p, b)'
    BY <1>4, <1>7, <2>1, NoAgentType DEF Live
  <2>3. Known(p, b)' => runs'[b] > 0
    BY <1>1, <1>2, <1>4, <1>7, <1>8 DEF Known, Counts
  <2>4. ~Closed(p, b)' /\ \A c \in Caller : ~Removing(call'[p][c], b)
    BY <1>2, <1>9 DEF Closed, Closing, Removing
  <2> QED
    BY <2>2, <2>3, <2>4
       DEF Wakeful, Counted, HasMemory, RunHasDriver, CloseIsMarked, CloseCancels, CloseHolds,
           RemoveIsOver, Executing
<1> QED
  BY <1>2, <1>10, <1>11, StepKeeps

-----------------------------------------------------------------------------
(* The theorem.                                                            *)

LEMMA WaitInvInit == Init => WaitInv
<1>1. SUFFICES ASSUME Init PROVE WaitInv
  OBVIOUS
<1>2. NoWait \in Waits /\ NoWait.pc = "idle" /\ NoCall.pc = "idle"
  BY DEF NoWait, Waits, NoCall
<1>3. Counts
  BY <1>1, <1>2 DEF Init, Counts
<1>4. ASSUME NEW p \in Proc
      PROVE  Down(p) /\ Sleeps(p)
  BY <1>1, <1>2 DEF Init, Down, Sleeps
<1>5. ASSUME NEW p \in Proc, NEW a \in Agent
      PROVE  Wakeful(p, a)
  <2>1. /\ mem[p][a] = NoAgent /\ records[p][a] = NoRecord /\ driver[p][a] = "none"
        /\ \A c \in Caller : call[p][c] = NoCall
    BY <1>1 DEF Init
  <2> QED
    BY <1>2, <2>1, NoAgentType
       DEF Wakeful, Counted, HasMemory, RunHasDriver, CloseIsMarked, CloseCancels, CloseHolds,
           RemoveIsOver, Known, Closed, Closing, Removing, Executing, Live
<1> QED
  BY <1>1, <1>3, <1>4, <1>5, AgentInvInit DEF WaitInv

LEMMA WaitInvStep == WaitInv /\ [Next]_vars => WaitInv'
<1>1. SUFFICES ASSUME WaitInv, [Next]_vars PROVE WaitInv'
  OBVIOUS
<1>2. AgentInv'
  BY <1>1, AgentInvStep DEF WaitInv, Counts, RunsTyped
<1>3. CASE UNCHANGED vars
  BY <1>1, <1>2, <1>3, ApartKeeps DEF vars
<1>4. ASSUME NEW p \in Proc, NEW a \in Agent,
             Spawn(p, a) \/ Resume(p, a) \/ Drive(p, a) \/ Looks(p, a)
      PROVE  WaitInv'
  BY <1>1, <1>2, <1>4, StartRunWakes, DriveWakes, LooksWakes
<1>5. ASSUME NEW p \in Proc, NEW c \in Caller, Request(p, c)
      PROVE  WaitInv'
  BY <1>1, <1>2, <1>5, BeginsWakes, CallerGoesOnWakes, CloseRemovesWakes DEF Request
<1>6. ASSUME NEW p \in Proc, Stop(p)
      PROVE  WaitInv'
  BY <1>1, <1>2, <1>6, ShutdownBeginsWakes, ShutdownJoinsWakes, ShutdownEndsWakes, GoneWakes
     DEF Stop, Crash, Exit
<1>7. ASSUME NEW p \in Proc, Drains(p)
      PROVE  WaitInv'
  BY <1>1, <1>2, <1>7, ApartKeeps DEF Drains
<1> QED
  BY <1>1, <1>2, <1>3, <1>4, <1>5, <1>6, <1>7, WaitWakesUp, StartWakes DEF Next

\* The invariant of SubAgents.tla that the absence of a lost wakeup needs is kept by
\* every step of the manager, its drivers, its callers and the processes' crashes.
THEOREM WaitInvHolds == Spec => []WaitInv
BY WaitInvInit, WaitInvStep, PTL DEF Spec

\* A wait() never sleeps on when what it waits for has come: not past a driver
\* that returns, a cancel or a shutdown that finalizes a run, an eviction, or a
\* close that forgets the agent.
THEOREM NothingIsSleptThrough == Spec => []NoLostWakeup
<1>1. WaitInv => NoLostWakeup
  BY DEF WaitInv, Sleeps, NoLostWakeup
<1> QED
  BY <1>1, WaitInvHolds, PTL
=============================================================================
