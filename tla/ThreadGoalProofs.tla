-------------------------- MODULE ThreadGoalProofs --------------------------
(***************************************************************************)
(* Goals, queue items and the types of a thread: proofs for any clients,   *)
(* bounds, faults, commands, items and budgets.                            *)
(*                                                                         *)
(* What a step does to the goal is said three times: by the operator of    *)
(* the goal service (EndStep, SameStep, ClearedStep, CreatedStep and       *)
(* RevivedStep: the goal's turn ends, the goal stays, goes, is new, or is  *)
(* made active again); by what it leaves of the engine's notes and of the  *)
(* bounds (Elsewhere); and by who takes it.  The invariant GoalInv adds to *)
(* the types that goals are numbered in the order in which they are made,  *)
(* so that a number noted by the engine is not that of a later goal        *)
(* (Numbered), that an item is in one place only (Sorted), and what the    *)
(* history says of the goal and the engine (IdleRests, FreshIsOthers).     *)
(***************************************************************************)
EXTENDS ThreadTurnProofs

-----------------------------------------------------------------------------
(* Sequences without repetition: the operators that change the queue.      *)

LEMMA ItemRemoved ==
  ASSUME NEW S, NEW q \in Seq(S), IsInjective(q), NEW n \in DOMAIN q
  PROVE  /\ RemoveAt(q, n) \in Seq(S) /\ IsInjective(RemoveAt(q, n))
         /\ Range(RemoveAt(q, n)) \subseteq Range(q) \ {q[n]}
         /\ Len(RemoveAt(q, n)) = Len(q) - 1
<1> DEFINE r == RemoveAt(q, n)
           a == SubSeq(q, 1, n - 1)
           b == SubSeq(q, n + 1, Len(q))
<1>0. n \in 1..Len(q) /\ Len(q) \in Nat
  OBVIOUS
<1>1. /\ r \in Seq(S) /\ Len(r) = Len(q) - 1 /\ DOMAIN r = 1..Len(q) - 1
      /\ \A i \in 1..Len(r) : r[i] = IF i < n THEN q[i] ELSE q[i + 1]
  <2>1. a \in Seq(S) /\ Len(a) = n - 1 /\ \A i \in 1..n - 1 : a[i] = q[i]
    BY <1>0
  <2>2. b \in Seq(S) /\ Len(b) = Len(q) - n /\ \A i \in 1..Len(q) - n : b[i] = q[n + i]
    BY <1>0
  <2>3. r = a \o b
    BY DEF RemoveAt
  <2> HIDE DEF r, a, b
  <2>4. r \in Seq(S) /\ Len(r) = Len(q) - 1
    BY <1>0, <2>1, <2>2, <2>3
  <2>5. ASSUME NEW i \in 1..Len(r)
        PROVE  r[i] = IF i < n THEN q[i] ELSE q[i + 1]
    <3>1. CASE i < n
      BY <1>0, <2>1, <2>2, <2>3, <2>4, <3>1
    <3>2. CASE ~(i < n)
      <4>1. r[i] = b[i - (n - 1)] /\ i - (n - 1) \in 1..Len(q) - n
        BY <1>0, <2>1, <2>2, <2>3, <2>4, <3>2
      <4>2. b[i - (n - 1)] = q[n + (i - (n - 1))] /\ n + (i - (n - 1)) = i + 1
        BY <1>0, <2>2, <2>4, <4>1
      <4> QED
        BY <3>2, <4>1, <4>2
    <3> QED
      BY <3>1, <3>2
  <2> QED
    BY <2>4, <2>5
<1> HIDE DEF r, a, b
<1>2. IsInjective(r)
  <2> SUFFICES ASSUME NEW i \in DOMAIN r, NEW j \in DOMAIN r, r[i] = r[j]
               PROVE  i = j
    BY DEF IsInjective
  <2>1. PICK k \in DOMAIN q : r[i] = q[k] /\ k = IF i < n THEN i ELSE i + 1
    BY <1>0, <1>1
  <2>2. PICK l \in DOMAIN q : r[j] = q[l] /\ l = IF j < n THEN j ELSE j + 1
    BY <1>0, <1>1
  <2>3. k = l
    BY <2>1, <2>2 DEF IsInjective
  <2> QED
    BY <1>0, <1>1, <2>1, <2>2, <2>3
<1>3. Range(r) \subseteq Range(q) \ {q[n]}
  BY <1>1, SMTT(40) DEF IsInjective, Range
<1> QED
  BY <1>1, <1>2, <1>3 DEF r

LEMMA JoinedIs ==
  ASSUME NEW S, NEW x \in Seq(S), NEW y \in Seq(S)
  PROVE  x \o y \in Seq(S) /\ Len(x \o y) = Len(x) + Len(y)
OBVIOUS

LEMMA ItemInserted ==
  ASSUME NEW S, NEW q \in Seq(S), IsInjective(q), NEW n \in 1..Len(q) + 1,
         NEW e \in S \ Range(q)
  PROVE  /\ InsertAt(q, n, e) \in Seq(S) /\ IsInjective(InsertAt(q, n, e))
         /\ Range(InsertAt(q, n, e)) \subseteq Range(q) \cup {e}
<1> DEFINE r == InsertAt(q, n, e)
           a == SubSeq(q, 1, n - 1)
           b == SubSeq(q, n, Len(q))
<1>0. n \in 1..Len(q) + 1 /\ Len(q) \in Nat
  OBVIOUS
<1>1. /\ r \in Seq(S) /\ Len(r) = Len(q) + 1 /\ DOMAIN r = 1..Len(q) + 1
      /\ \A i \in 1..Len(r) : r[i] = IF i < n THEN q[i] ELSE IF i = n THEN e ELSE q[i - 1]
  <2>1. a \in Seq(S) /\ Len(a) = n - 1 /\ \A i \in 1..n - 1 : a[i] = q[i]
    BY <1>0
  <2>2. /\ b \in Seq(S) /\ Len(b) = Len(q) - n + 1
        /\ \A i \in 1..Len(q) - n + 1 : b[i] = q[n - 1 + i]
    BY <1>0
  <2>3. r = (a \o <<e>>) \o b
    BY DEF InsertAt
  <2> HIDE DEF r, a, b
  <2>4. /\ a \o <<e>> \in Seq(S) /\ Len(a \o <<e>>) = n /\ (a \o <<e>>)[n] = e
        /\ \A i \in 1..n - 1 : (a \o <<e>>)[i] = q[i]
    BY <1>0, <2>1
  <2>5. r \in Seq(S) /\ Len(r) = Len(q) + 1
    <3>1. r \in Seq(S) /\ Len(r) = Len(a \o <<e>>) + Len(b)
      BY <2>2, <2>3, <2>4, JoinedIs, Zenon
    <3>2. Len(r) = n + (Len(q) - n + 1)
      BY <2>2, <2>4, <3>1, Zenon
    <3> QED
      BY <1>0, <3>1, <3>2
  <2>6. ASSUME NEW i \in 1..Len(r)
        PROVE  r[i] = IF i < n THEN q[i] ELSE IF i = n THEN e ELSE q[i - 1]
    <3>1. CASE i <= n
      <4>1. r[i] = (a \o <<e>>)[i]
        BY <1>0, <2>2, <2>3, <2>4, <2>5, <3>1
      <4> QED
        BY <1>0, <2>4, <2>5, <3>1, <4>1
    <3>2. CASE ~(i <= n)
      <4>1. r[i] = b[i - n] /\ i - n \in 1..Len(q) - n + 1
        BY <1>0, <2>2, <2>3, <2>4, <2>5, <3>2
      <4> QED
        BY <1>0, <2>2, <2>5, <3>2, <4>1
    <3> QED
      BY <3>1, <3>2
  <2> QED
    BY <2>5, <2>6
<1> HIDE DEF r, a, b
<1>2. IsInjective(r)
  <2> SUFFICES ASSUME NEW i \in DOMAIN r, NEW j \in DOMAIN r, r[i] = r[j]
               PROVE  i = j
    BY DEF IsInjective
  <2>1. ASSUME NEW k \in DOMAIN r, k # n
        PROVE  /\ r[k] # e
               /\ \E l \in DOMAIN q : r[k] = q[l] /\ l = IF k < n THEN k ELSE k - 1
    <3>1. PICK l \in DOMAIN q : r[k] = q[l] /\ l = IF k < n THEN k ELSE k - 1
      BY <1>0, <1>1, <2>1
    <3> QED
      BY <3>1 DEF Range
  <2>2. n \in DOMAIN r /\ r[n] = e
    BY <1>0, <1>1
  <2>3. CASE i = n \/ j = n
    BY <2>1, <2>2, <2>3
  <2>4. CASE i # n /\ j # n
    <3>1. PICK k \in DOMAIN q : r[i] = q[k] /\ k = IF i < n THEN i ELSE i - 1
      BY <2>1, <2>4
    <3>2. PICK l \in DOMAIN q : r[j] = q[l] /\ l = IF j < n THEN j ELSE j - 1
      BY <2>1, <2>4
    <3>3. k = l
      BY <3>1, <3>2 DEF IsInjective
    <3> QED
      BY <1>0, <1>1, <2>4, <3>1, <3>2, <3>3
  <2> QED
    BY <2>3, <2>4
<1>3. Range(r) \subseteq Range(q) \cup {e}
  <2>1. ASSUME NEW i \in DOMAIN r
        PROVE  r[i] \in Range(q) \cup {e}
    <3>1. i < n => i \in DOMAIN q /\ r[i] = q[i]
      BY <1>0, <1>1
    <3>2. i > n => i - 1 \in DOMAIN q /\ r[i] = q[i - 1]
      BY <1>0, <1>1
    <3>3. i = n => r[i] = e
      BY <1>0, <1>1
    <3> QED
      BY <1>0, <1>1, <3>1, <3>2, <3>3 DEF Range
  <2> QED
    BY <2>1 DEF Range
<1> QED
  BY <1>1, <1>2, <1>3 DEF r

LEMMA ItemMoved ==
  ASSUME NEW S, NEW q \in Seq(S), IsInjective(q), NEW n \in DOMAIN q, NEW dest \in DOMAIN q
  PROVE  /\ Moved(q, n, dest) \in Seq(S) /\ IsInjective(Moved(q, n, dest))
         /\ Range(Moved(q, n, dest)) \subseteq Range(q)
<1> DEFINE r == RemoveAt(q, n)
<1>1. /\ r \in Seq(S) /\ IsInjective(r) /\ Range(r) \subseteq Range(q) \ {q[n]}
      /\ Len(r) = Len(q) - 1
  BY ItemRemoved
<1> HIDE DEF r
<1>2. q[n] \in S \ Range(r) /\ dest \in 1..Len(r) + 1 /\ q[n] \in Range(q)
  BY <1>1 DEF Range
<1> QED
  BY <1>1, <1>2, ItemInserted DEF Moved, r

LEMMA ItemTaken ==
  ASSUME NEW S, NEW q \in Seq(S), IsInjective(q), q # <<>>
  PROVE  /\ Tail(q) \in Seq(S) /\ IsInjective(Tail(q)) /\ Head(q) \in Range(q)
         /\ Range(Tail(q)) \subseteq Range(q) \ {Head(q)}
<1>1. /\ Tail(q) \in Seq(S) /\ Len(Tail(q)) = Len(q) - 1 /\ Head(q) = q[1]
      /\ \A i \in 1..Len(Tail(q)) : Tail(q)[i] = q[i + 1]
  OBVIOUS
<1>2. IsInjective(Tail(q))
  BY <1>1 DEF IsInjective
<1>3. Head(q) \in Range(q) /\ Range(Tail(q)) \subseteq Range(q) \ {Head(q)}
  BY <1>1 DEF IsInjective, Range
<1> QED
  BY <1>1, <1>2, <1>3

LEMMA ItemAppended ==
  ASSUME NEW S, NEW q \in Seq(S), IsInjective(q), NEW e \in S \ Range(q)
  PROVE  /\ Append(q, e) \in Seq(S) /\ IsInjective(Append(q, e))
         /\ Range(Append(q, e)) = Range(q) \cup {e}
<1>1. /\ Append(q, e) \in Seq(S) /\ Len(Append(q, e)) = Len(q) + 1
      /\ \A i \in 1..Len(q) : Append(q, e)[i] = q[i]
      /\ Append(q, e)[Len(q) + 1] = e
  OBVIOUS
<1>2. IsInjective(Append(q, e))
  BY <1>1 DEF IsInjective, Range
<1>3. Range(Append(q, e)) = Range(q) \cup {e}
  <2>1. Range(Append(q, e)) \subseteq Range(q) \cup {e}
    BY <1>1 DEF Range
  <2>2. \A i \in 1..Len(q) : q[i] \in Range(Append(q, e))
    BY <1>1 DEF Range
  <2>3. e \in Range(Append(q, e))
    BY <1>1 DEF Range
  <2> QED
    BY <2>1, <2>2, <2>3 DEF Range
<1> QED
  BY <1>1, <1>2, <1>3

LEMMA ItemDropped ==
  ASSUME NEW S, NEW q \in Seq(S), IsInjective(q), NEW item
  PROVE  /\ WithoutItem(q, item) \in Seq(S) /\ IsInjective(WithoutItem(q, item))
         /\ Range(WithoutItem(q, item)) \subseteq Range(q) \ {item}
<1>1. CASE item \in Range(q)
  <2> DEFINE n == CHOOSE n \in DOMAIN q : q[n] = item
  <2>1. n \in DOMAIN q /\ q[n] = item /\ WithoutItem(q, item) = RemoveAt(q, n)
    BY <1>1 DEF Range, WithoutItem
  <2> HIDE DEF n
  <2> QED
    BY <2>1, ItemRemoved
<1>2. CASE item \notin Range(q)
  BY <1>2 DEF WithoutItem
<1> QED
  BY <1>1, <1>2

-----------------------------------------------------------------------------
(* The goal service: what its operators keep of a goal and of the queue.   *)

Goal == [id : GoalIds, status : Status, turns : Nat, limit : Limits \cup {None},
         spent : BOOLEAN, item : ItemIds]
Services == [goal : Goal, queue : Seq(Range(Items)), promoted : ItemIds,
             counted : BOOLEAN, touched : BOOLEAN]
\* An item is in the queue once.
Orderly(s) == s \in Services /\ IsInjective(s.queue)

\* From s to r the goal stays what it is, the queue only gets shorter, the user's
\* word is not forgotten.
Same(s, r) ==
  /\ Orderly(r) /\ Range(r.queue) \subseteq Range(s.queue)
  /\ r.goal.id = s.goal.id /\ r.goal.item \in {s.goal.item, None}
  /\ r.goal.status = "none" <=> s.goal.status = "none"
  /\ r.goal.status = "complete" <=> s.goal.status = "complete"
  /\ r.promoted \in {s.promoted, None}
  /\ s.touched => r.touched

LEMMA SameIsTransitive ==
  ASSUME NEW s, NEW q, NEW r, Same(s, q), Same(q, r)
  PROVE  Same(s, r)
BY DEF Same

LEMMA NoGoalIsGoal == NoGoal \in Goal /\ None \in ItemIds /\ None \in GoalIds
BY Assumptions DEF NoGoal, Goal, None, ItemIds, GoalIds, Status

LEMMA SameAsBefore ==
  ASSUME NEW s, Orderly(s)
  PROVE  Same(s, s)
BY DEF Same

LEMMA FieldsKept ==
  ASSUME NEW s, Orderly(s), NEW p \in {s.promoted, None}, NEW b \in BOOLEAN
  PROVE  /\ Same(s, [s EXCEPT !.promoted = p])
         /\ Same(s, [s EXCEPT !.counted = b])
         /\ [s EXCEPT !.promoted = p].goal = s.goal
         /\ [s EXCEPT !.counted = b].goal = s.goal
         /\ [s EXCEPT !.promoted = p].touched = s.touched
         /\ [s EXCEPT !.counted = b].touched = s.touched
         /\ [s EXCEPT !.promoted = p].queue = s.queue
         /\ [s EXCEPT !.counted = b].queue = s.queue
         /\ [s EXCEPT !.promoted = p].promoted = p
         /\ [s EXCEPT !.counted = b].promoted = s.promoted
BY NoGoalIsGoal DEF Same, Orderly, Services

LEMMA StatusKept ==
  ASSUME NEW s, Orderly(s), NEW status \in Status \ {"none", "complete"},
         NEW byUser \in BOOLEAN, s.goal.status \notin {"none", "complete"}
  PROVE  LET r == SetStatus(s, status, byUser) IN
         /\ Same(s, r) /\ r.goal.status = status
         /\ IF byUser THEN r.touched ELSE r.touched = s.touched
         /\ r.goal.item = s.goal.item /\ r.queue = s.queue /\ r.promoted = s.promoted
BY DEF Same, Orderly, Services, Goal, SetStatus

LEMMA ClearedKept ==
  ASSUME NEW s, Orderly(s)
  PROVE  LET r == Cleared(s) IN
         /\ Orderly(r) /\ r.goal = NoGoal /\ r.promoted = None
         /\ r.touched = s.touched /\ r.queue = s.queue
BY NoGoalIsGoal DEF Cleared, Orderly, Services

LEMMA CreatedKept ==
  ASSUME NEW s, Orderly(s), NEW id \in GoalIds, NEW item \in ItemIds
  PROVE  LET r == Created(s, id, item) IN
         /\ Orderly(r) /\ r.goal.id = id /\ r.goal.status = "active" /\ r.goal.item = item
         /\ r.promoted = None /\ r.touched = s.touched /\ r.queue = s.queue
BY NoGoalIsGoal DEF Created, Orderly, Services, Goal, Status

LEMMA BudgetCheckedKept ==
  ASSUME NEW s, Orderly(s), NEW withTurns \in BOOLEAN
  PROVE  LET r == BudgetChecked(s, withTurns) IN
         /\ Same(s, r) /\ r.touched = s.touched /\ r.queue = s.queue
         /\ r.goal.item = s.goal.item /\ r.promoted = s.promoted
         /\ r = s \/ (s.goal.status = "active" /\ r.goal.status = "budget_limited")
<1>1. CASE Active(s) /\ BudgetChecked(s, withTurns) = SetStatus(s, "budget_limited", FALSE)
  <2>1. /\ "budget_limited" \in Status \ {"none", "complete"} /\ FALSE \in BOOLEAN
        /\ s.goal.status \notin {"none", "complete"}
    BY <1>1 DEF Active, Status
  <2>2. LET r == SetStatus(s, "budget_limited", FALSE) IN
        /\ Same(s, r) /\ r.goal.status = "budget_limited" /\ r.touched = s.touched
        /\ r.goal.item = s.goal.item /\ r.queue = s.queue /\ r.promoted = s.promoted
    BY <2>1, StatusKept, ZenonT(40)
  <2> QED
    BY <1>1, <2>2 DEF Active
<1>2. CASE BudgetChecked(s, withTurns) = s
  BY <1>2, SameAsBefore
<1> QED
  BY <1>1, <1>2 DEF BudgetChecked

LEMMA HeadItemKept ==
  ASSUME NEW s, Orderly(s)
  PROVE  HeadItem(s) \in Range(s.queue) \cup {None} /\ HeadItem(s) \in ItemIds
<1>1. CASE s.queue = <<>>
  BY <1>1, NoGoalIsGoal DEF HeadItem
<1>2. CASE s.queue # <<>>
  <2>1. Head(s.queue) \in Range(s.queue) /\ Head(s.queue) \in Range(Items)
    BY <1>2, ItemTaken DEF Orderly, Services
  <2> QED
    BY <1>2, <2>1 DEF HeadItem, ItemIds
<1> QED
  BY <1>1, <1>2

LEMMA BudgetSetKept ==
  ASSUME NEW s, Orderly(s), NEW limit \in Limits
  PROVE  LET r == BudgetSet(s, limit) IN
         /\ Same(s, r) /\ r.touched = s.touched /\ r.queue = s.queue
         /\ r.goal.item = s.goal.item /\ r.promoted = s.promoted
         /\ \/ r.goal.status = s.goal.status
            \/ s.goal.status = "active" /\ r.goal.status = "budget_limited"
<1> DEFINE q == [s EXCEPT !.goal.limit = limit, !.goal.spent = FALSE]
           r == BudgetChecked(q, ~s.counted)
<1>1. /\ Same(s, q) /\ q.touched = s.touched /\ q.queue = s.queue /\ q.promoted = s.promoted
      /\ q.goal.item = s.goal.item /\ q.goal.status = s.goal.status
  BY DEF Same, Orderly, Services, Goal
<1>2. Orderly(q) /\ (~s.counted) \in BOOLEAN
  BY <1>1 DEF Same
<1> HIDE DEF q
<1>3. /\ Same(q, r) /\ r.touched = q.touched /\ r.queue = q.queue
      /\ r.goal.item = q.goal.item /\ r.promoted = q.promoted
      /\ r = q \/ (q.goal.status = "active" /\ r.goal.status = "budget_limited")
  BY <1>2, BudgetCheckedKept
<1>4. r = BudgetSet(s, limit)
  BY DEF BudgetSet, q
<1> HIDE DEF r
<1>5. Same(s, r)
  BY <1>1, <1>3, SameIsTransitive
<1> QED
  BY <1>1, <1>3, <1>4, <1>5

LEMMA RevivedKept ==
  ASSUME NEW s, Orderly(s), s.goal.status \notin {"none", "complete", "active"}, NEW id
  PROVE  LET r == Resumed(s, id) IN
         /\ Same(s, r) /\ r.touched /\ r.queue = s.queue
         /\ r.goal.item = s.goal.item /\ r.promoted = s.promoted
<1> DEFINE q == SetStatus(s, "active", TRUE)
           r == BudgetChecked(q, TRUE)
<1>1. "active" \in Status \ {"none", "complete"} /\ TRUE \in BOOLEAN
  BY DEF Status
<1>2. /\ Same(s, q) /\ q.touched /\ q.queue = s.queue
      /\ q.goal.item = s.goal.item /\ q.promoted = s.promoted
  BY <1>1, StatusKept
<1>3. Orderly(q) /\ r = Resumed(s, id)
  BY <1>2 DEF Same, Resumed, Active
<1> HIDE DEF q
<1>4. /\ Same(q, r) /\ r.touched = q.touched /\ r.queue = q.queue
      /\ r.goal.item = q.goal.item /\ r.promoted = q.promoted
  BY <1>1, <1>3, BudgetCheckedKept
<1> HIDE DEF r
<1>5. Same(s, r)
  BY <1>2, <1>4, SameIsTransitive
<1> QED
  BY <1>2, <1>3, <1>4, <1>5

LEMMA ResumedKept ==
  ASSUME NEW s, Orderly(s), MayResume(s), NEW id
  PROVE  LET r == Resumed(s, id) IN
         IF s.goal.status = "complete"
         THEN s.queue # <<>> /\ r = Created(s, id, Head(s.queue))
         ELSE /\ Same(s, r) /\ r.queue = s.queue /\ r.promoted = s.promoted
              /\ r.goal.item = s.goal.item /\ s.goal.status # "none"
              /\ s.goal.status # "active" => r.touched
<1>1. CASE s.goal.status = "complete"
  BY <1>1 DEF MayResume, Unfinished, Resumed
<1>2. CASE s.goal.status = "active"
  BY <1>2, SameAsBefore DEF Resumed, Active
<1>3. CASE s.goal.status \notin {"complete", "active"}
  BY <1>3, RevivedKept DEF MayResume, Unfinished
<1> QED
  BY <1>1, <1>2, <1>3

LEMMA ReopenedKept ==
  ASSUME NEW s, Orderly(s), s.goal.status = "complete", NEW id
  PROVE  LET r == Reopened(s, id) IN
         /\ Orderly(r) /\ r.goal.id = s.goal.id /\ r.goal.item = s.goal.item
         /\ r.goal.status \notin {"none", "complete"}
         /\ r.promoted = None /\ r.queue = s.queue /\ r.touched
<1> DEFINE q == SetStatus([s EXCEPT !.promoted = None], "paused", TRUE)
<1>1. /\ Orderly(q) /\ q.goal.id = s.goal.id /\ q.goal.item = s.goal.item
      /\ q.goal.status = "paused" /\ q.promoted = None /\ q.queue = s.queue
  BY NoGoalIsGoal DEF Orderly, Services, Goal, SetStatus, Status
<1>2. Reopened(s, id) = Resumed(q, id)
  BY DEF Reopened
<1> HIDE DEF q
<1> QED
  BY <1>1, <1>2, RevivedKept DEF Same

LEMMA CompletedKept ==
  ASSUME NEW s, Orderly(s)
  PROVE  LET r == Completed(s) IN
         /\ Orderly(r) /\ r.goal.id = s.goal.id /\ r.goal.item = s.goal.item
         /\ r.goal.status = "complete" /\ r.queue = s.queue /\ r.touched = s.touched
         /\ r.promoted \in Range(s.queue) \cup {None}
<1>1. HeadItem(s) \in Range(s.queue) \cup {None} /\ HeadItem(s) \in ItemIds
  BY HeadItemKept
<1> QED
  BY <1>1 DEF Orderly, Services, Goal, Completed, SetStatus, Status

LEMMA AcknowledgedKept ==
  ASSUME NEW s, Orderly(s), NEW item, item # None
  PROVE  LET r == Acknowledged(s, item) IN
         /\ Same(s, r) /\ r.goal.status = s.goal.status /\ r.touched = s.touched
         /\ r.promoted = s.promoted
         /\ s.goal.item = item => r.goal.item = None /\ item \notin Range(r.queue)
<1>1. CASE s.goal.item = item
  <2> DEFINE q == WithoutItem(s.queue, item)
             r == [s EXCEPT !.queue = q, !.goal.item = None]
  <2>1. q \in Seq(Range(Items)) /\ IsInjective(q) /\ Range(q) \subseteq Range(s.queue) \ {item}
    BY ItemDropped DEF Orderly, Services
  <2>2. Acknowledged(s, item) = r
    BY <1>1 DEF Acknowledged
  <2> HIDE DEF q
  <2>3. /\ Orderly(r) /\ r.queue = q /\ r.goal.item = None /\ r.goal.status = s.goal.status
        /\ r.goal.id = s.goal.id /\ r.touched = s.touched /\ r.promoted = s.promoted
    BY <2>1, NoGoalIsGoal DEF Orderly, Services, Goal
  <2> QED
    BY <2>1, <2>2, <2>3 DEF Same
<1>2. CASE s.goal.item # item /\ HeadItem(s) = item
  <2> DEFINE q == Tail(s.queue)
             r == [s EXCEPT !.queue = q]
  <2>1. q \in Seq(Range(Items)) /\ IsInjective(q) /\ Range(q) \subseteq Range(s.queue)
    BY <1>2, ItemTaken DEF Orderly, Services, HeadItem
  <2>2. Acknowledged(s, item) = r
    BY <1>2 DEF Acknowledged
  <2> HIDE DEF q
  <2>3. /\ Orderly(r) /\ r.queue = q /\ r.goal = s.goal
        /\ r.touched = s.touched /\ r.promoted = s.promoted
    BY <2>1 DEF Orderly, Services
  <2> QED
    BY <1>2, <2>1, <2>2, <2>3 DEF Same
<1>3. CASE s.goal.item # item /\ HeadItem(s) # item
  BY <1>3, SameAsBefore DEF Acknowledged
<1> QED
  BY <1>1, <1>2, <1>3

LEMMA AdoptedKept ==
  ASSUME NEW s, Orderly(s)
  PROVE  LET r == Adopted(s) IN
         /\ Same(s, r) /\ r.goal.status = s.goal.status /\ r.touched = s.touched
         /\ r.promoted = s.promoted /\ r.queue = s.queue /\ r.goal.item = s.goal.item
<1> DEFINE r == [s EXCEPT !.goal.turns = @ + 1, !.counted = TRUE]
<1>1. r \in Services /\ r.goal.status = s.goal.status /\ r.touched = s.touched
  <2> DEFINE g == [s.goal EXCEPT !.turns = @ + 1]
  <2>1. s.goal \in Goal /\ s.goal.turns + 1 \in Nat
    BY DEF Orderly, Services, Goal
  <2>2. g \in Goal /\ g.status = s.goal.status
    BY <2>1 DEF Goal
  <2>3. r = [s EXCEPT !.goal = g, !.counted = TRUE]
    BY DEF Orderly, Services
  <2> HIDE DEF g, r
  <2> QED
    BY <2>2, <2>3 DEF Orderly, Services
<1>2. r.promoted = s.promoted /\ r.queue = s.queue /\ r.goal.item = s.goal.item
  BY DEF Orderly, Services, Goal
<1>3. r.goal.id = s.goal.id
  BY DEF Orderly, Services, Goal
<1>4. Adopted(s) \in {s, r}
  BY DEF Adopted
<1> HIDE DEF r
<1>5. Same(s, r)
  BY <1>1, <1>2, <1>3 DEF Same, Orderly
<1> QED
  BY <1>1, <1>2, <1>3, <1>4, <1>5, SameAsBefore

LEMMA TurnStartedKept ==
  ASSUME NEW s, Orderly(s)
  PROVE  LET r == TurnStarted(s) IN
         /\ Same(s, r) /\ r.touched = s.touched /\ r.promoted = s.promoted
         /\ r.goal.status # "paused" \/ ~Active(s)
         /\ Active(r) => /\ Active(s)
                         /\ s.goal.item # None =>
                              r.goal.item = None /\ s.goal.item \notin Range(r.queue)
<1> DEFINE r == TurnStarted(s)
           checked == BudgetChecked(s, TRUE)
<1>0. TRUE \in BOOLEAN /\ FALSE \in BOOLEAN
  OBVIOUS
<1>1. CASE ~Active(s)
  <2>1. r = [s EXCEPT !.counted = FALSE]
    BY <1>1 DEF TurnStarted
  <2>2. /\ Same(s, [s EXCEPT !.counted = FALSE])
        /\ [s EXCEPT !.counted = FALSE].touched = s.touched
        /\ [s EXCEPT !.counted = FALSE].goal = s.goal
        /\ [s EXCEPT !.counted = FALSE].promoted = s.promoted
    BY <1>0, FieldsKept
  <2> QED
    BY <1>1, <2>1, <2>2 DEF Active
<1>2. CASE Active(s) /\ ~Active(checked)
  <2>1. r = checked
    BY <1>2 DEF TurnStarted
  <2>2. /\ Same(s, checked) /\ checked.touched = s.touched /\ checked.promoted = s.promoted
        /\ checked = s \/ checked.goal.status = "budget_limited"
    BY <1>0, BudgetCheckedKept
  <2> QED
    BY <1>2, <2>1, <2>2 DEF Active
<1>3. CASE Active(s) /\ Active(checked)
  <2> DEFINE q == IF s.goal.item = None THEN s ELSE Acknowledged(s, s.goal.item)
  <2>1. r = Adopted(q)
    BY <1>3 DEF TurnStarted
  <2>2. /\ Same(s, q) /\ q.goal.status = s.goal.status /\ q.touched = s.touched
        /\ q.promoted = s.promoted
        /\ s.goal.item # None => q.goal.item = None /\ s.goal.item \notin Range(q.queue)
    BY AcknowledgedKept, SameAsBefore
  <2> HIDE DEF q
  <2>3. /\ Same(q, r) /\ r.goal.status = q.goal.status /\ r.touched = q.touched
        /\ r.promoted = q.promoted /\ r.queue = q.queue /\ r.goal.item = q.goal.item
    BY <2>1, <2>2, AdoptedKept DEF Same
  <2> HIDE DEF r
  <2>4. Same(s, r)
    BY <2>2, <2>3, SameIsTransitive
  <2> QED
    BY <1>3, <2>2, <2>3, <2>4 DEF Active, r
<1> QED
  BY <1>1, <1>2, <1>3

LEMMA TurnEndedKept ==
  ASSUME NEW s, Orderly(s), NEW outcome, NEW automatic \in BOOLEAN, NEW worked \in BOOLEAN,
         NEW stalled
  PROVE  LET r == TurnEnded(s, outcome, automatic, worked, stalled) IN
         /\ Same(s, r) /\ r.promoted = s.promoted /\ r.queue = s.queue
         /\ Active(r) => Active(s) /\ outcome = "completed"
         /\ outcome = "completed" /\ automatic /\ ~worked => ~Active(r)
<1> DEFINE q == [s EXCEPT !.counted = FALSE]
           over == BudgetChecked(q, TRUE)
           r == TurnEnded(s, outcome, automatic, worked, stalled)
<1>0. TRUE \in BOOLEAN /\ FALSE \in BOOLEAN
  OBVIOUS
<1>1. Same(s, q) /\ q.goal = s.goal /\ q.promoted = s.promoted /\ q.queue = s.queue
  BY <1>0, FieldsKept
<1>2. Orderly(q)
  BY <1>1 DEF Same
<1>3. CASE ~Active(s)
  <2>1. r = q
    BY <1>3 DEF TurnEnded
  <2> HIDE DEF r, q
  <2> QED
    BY <1>1, <1>3, <2>1 DEF Active, r
<1>4. CASE Active(s) /\ outcome # "completed"
  <2> PICK b \in BOOLEAN : b <=> outcome = "cancelled"
    BY <1>0
  <2> DEFINE p == SetStatus(s, "paused", b)
  <2>1. "paused" \in Status \ {"none", "complete"} /\ s.goal.status \notin {"none", "complete"}
    BY <1>4 DEF Status, Active
  <2>2. /\ Same(s, p) /\ p.goal.status = "paused" /\ p.promoted = s.promoted
        /\ p.queue = s.queue
    BY <2>1, StatusKept
  <2>3. r = [p EXCEPT !.counted = FALSE]
    BY <1>4 DEF TurnEnded
  <2>4. Orderly(p)
    BY <2>2 DEF Same
  <2> HIDE DEF p
  <2>5. Same(p, r) /\ r.goal = p.goal /\ r.promoted = p.promoted /\ r.queue = p.queue
    BY <1>0, <2>3, <2>4, FieldsKept
  <2> HIDE DEF r
  <2>6. Same(s, r)
    BY <2>2, <2>5, SameIsTransitive
  <2> QED
    BY <1>4, <2>2, <2>5, <2>6 DEF Active, r
<1>5. CASE Active(s) /\ outcome = "completed"
  <2> HIDE DEF q
  <2>1. /\ Same(q, over) /\ over.promoted = q.promoted /\ over.queue = q.queue
    BY <1>0, <1>2, BudgetCheckedKept
  <2>2. r = IF Active(over) /\ Unproductive(automatic, worked, stalled)
            THEN SetStatus(over, "paused", FALSE) ELSE over
    BY <1>5 DEF TurnEnded, q
  <2>3. Same(s, over) /\ Orderly(over)
    BY <1>1, <2>1, SameIsTransitive DEF Same
  <2> HIDE DEF over, r
  <2>4. CASE Active(over) /\ Unproductive(automatic, worked, stalled)
    <3>1. "paused" \in Status \ {"none", "complete"} /\ over.goal.status \notin {"none", "complete"}
      BY <2>4 DEF Status, Active
    <3>2. LET p == SetStatus(over, "paused", FALSE) IN
          /\ Same(over, p) /\ p.goal.status = "paused" /\ p.promoted = over.promoted
          /\ p.queue = over.queue
      BY <1>0, <2>3, <3>1, StatusKept, ZenonT(40)
    <3>3. /\ Same(over, r) /\ r.goal.status = "paused" /\ r.promoted = over.promoted
          /\ r.queue = over.queue
      BY <2>2, <2>4, <3>2
    <3>4. Same(s, r)
      BY <2>3, <3>3, SameIsTransitive
    <3> QED
      BY <1>1, <1>5, <2>1, <3>3, <3>4 DEF Active, r
  <2>5. CASE ~(Active(over) /\ Unproductive(automatic, worked, stalled))
    <3>1. r = over
      BY <2>2, <2>5
    <3>2. automatic /\ ~worked => ~Active(r)
      BY <2>5, <3>1 DEF Unproductive
    <3> QED
      BY <1>1, <1>5, <2>1, <2>3, <3>1, <3>2 DEF r
  <2> QED
    BY <2>4, <2>5
<1> QED
  BY <1>3, <1>4, <1>5

LEMMA ConsumedKept ==
  ASSUME NEW s, Orderly(s)
  PROVE  /\ Consumed(s) \in Range(s.queue) \cup {None} /\ Consumed(s) \in ItemIds
         /\ Consumed(s) # None => s.promoted # None
BY HeadItemKept, NoGoalIsGoal DEF Consumed

LEMMA UndoneKept ==
  ASSUME NEW st, NEW busy, NEW conflict
  PROVE  LET r == Undone(st, busy, conflict) IN
         \/ r = svc \/ r = Cleared(svc)
         \/ Active(svc) /\ r = SetStatus(svc, "paused", FALSE)
BY DEF Undone

LEMMA ItemsSplit ==
  ASSUME NEW n \in 0..Len(Items)
  PROVE  /\ SubSeq(Items, 1, n) \in Seq(Range(Items))
         /\ SubSeq(Items, n + 1, Len(Items)) \in Seq(Range(Items))
         /\ IsInjective(SubSeq(Items, 1, n)) /\ IsInjective(SubSeq(Items, n + 1, Len(Items)))
         /\ Range(SubSeq(Items, 1, n)) \cap Range(SubSeq(Items, n + 1, Len(Items))) = {}
<1> DEFINE a == SubSeq(Items, 1, n)
           b == SubSeq(Items, n + 1, Len(Items))
<1>0. Items \in Seq(Nat) /\ Len(Items) \in Nat /\ n \in Nat /\ n <= Len(Items)
  BY Assumptions
<1>1. Items \in Seq(Range(Items))
  BY <1>0 DEF Range
<1>2. a \in Seq(Range(Items)) /\ Len(a) = n /\ \A i \in 1..n : a[i] = Items[i] /\ i \in DOMAIN Items
  BY <1>0, <1>1
<1>3. b \in Seq(Range(Items)) /\ Len(b) = Len(Items) - n
  BY <1>0, <1>1
<1>4. \A i \in 1..Len(Items) - n : b[i] = Items[n + i] /\ n + i \in DOMAIN Items
  BY <1>0, <1>1
<1> HIDE DEF a, b
<1>5. DOMAIN a = 1..n /\ DOMAIN b = 1..Len(Items) - n
  BY <1>0, <1>2, <1>3
<1>6. IsInjective(a)
  BY <1>2, <1>5, Assumptions DEF IsInjective
<1>7. IsInjective(b)
  <2> SUFFICES ASSUME NEW i \in DOMAIN b, NEW j \in DOMAIN b, b[i] = b[j]
               PROVE  i = j
    BY DEF IsInjective
  <2>1. n + i = n + j
    BY <1>4, <1>5, Assumptions DEF IsInjective
  <2> QED
    BY <1>0, <1>5, <2>1
<1>8. ASSUME NEW i \in DOMAIN a, NEW j \in DOMAIN b
      PROVE  a[i] # b[j]
  <2>1. i # n + j
    BY <1>0, <1>5
  <2> QED
    BY <1>2, <1>4, <1>5, <2>1, Assumptions DEF IsInjective
<1> QED
  BY <1>2, <1>3, <1>6, <1>7, <1>8 DEF a, b, Range

-----------------------------------------------------------------------------
(* The invariant of the goal, and the ways in which a step changes the goal. *)

Lefts == [goals : 0..MaxGoals, items : Seq(Range(Items)), commands : 0..MaxCommands,
          faults : 0..MaxFaults]
Promotions == {p \in [item : ItemIds, goal : GoalIds] : p.goal # None => p.item # None}
Metas == [id : 0..Unset, continue : BOOLEAN, promote : Promotions]
Histories == [fresh : BOOLEAN, idle : BOOLEAN, begun : SUBSET Range(Items)]

Used == 0..(MaxGoals - left.goals)
\* Goals are numbered as they are made, and the engine notes the one of the turn.
Numbered ==
  /\ svc.goal.id \in Used /\ meta.id \in Used \cup {Unset}
  /\ svc.goal.status # "none" => svc.goal.id # None
  /\ svc.promoted # None => svc.goal.status = "complete"
  /\ eng.pc = "run" => meta.id # Unset
  /\ svc.goal.status = "complete" => meta.id = svc.goal.id
\* An item is yet to be added, or in the queue or that of a goal, or begun.
Sorted ==
  /\ IsInjective(left.items)
  /\ Range(svc.queue) \cap Range(left.items) = {}
  /\ svc.goal.item \notin Range(left.items)
  /\ seen.begun \cap Range(svc.queue) = {} /\ seen.begun \cap Range(left.items) = {}
  /\ svc.goal.item \notin seen.begun /\ None \notin seen.begun
\* After a continuation without work nothing is active, running or about to.
IdleRests ==
  seen.idle => /\ ~Active(svc) /\ svc.promoted = None /\ eng.pc # "run"
               /\ ~(eng.auto /\ eng.pc = "prep")
\* A goal the user has resumed is not the goal of the turn before.
FreshIsOthers ==
  seen.fresh /\ meta.id # Unset => svc.touched \/ meta.id \notin {svc.goal.id, None}

GoalInv ==
  /\ Orderly(svc) /\ left \in Lefts /\ meta \in Metas /\ seen \in Histories
  /\ Numbered /\ Sorted /\ IdleRests /\ FreshIsOthers

LEMMA Numbers ==
  /\ MaxGoals \in Nat /\ MaxTurns \in Nat /\ MaxCommands \in Nat /\ MaxFaults \in Nat
  /\ None = 0 /\ None \notin Range(Items)
  /\ Items \in Seq(Nat) /\ IsInjective(Items) /\ Restored \subseteq 0..Len(Items)
<1>1. Items \in Seq(Nat \ {None})
  BY Assumptions
<1>2. \A i \in DOMAIN Items : Items[i] \in Nat \ {None}
  BY <1>1
<1> QED
  BY <1>2, Assumptions DEF None, Range

LEMMA NoneIsNoItem ==
  ASSUME NEW q \in Seq(Range(Items))
  PROVE  Range(q) \subseteq Range(Items) /\ None \notin Range(q) /\ Range(q) \subseteq ItemIds
<1>1. \A i \in DOMAIN q : q[i] \in Range(Items)
  OBVIOUS
<1>2. Range(q) \subseteq Range(Items)
  BY <1>1 DEF Range
<1> QED
  BY <1>2, Numbers DEF ItemIds

LEMMA ItemsAreNone ==
  ASSUME GoalInv
  PROVE  /\ None \notin Range(left.items) /\ None \notin Range(svc.queue)
         /\ Range(svc.queue) \subseteq ItemIds
<1>1. left.items \in Seq(Range(Items)) /\ svc.queue \in Seq(Range(Items))
  BY DEF GoalInv, Lefts, Orderly, Services
<1> QED
  BY <1>1, NoneIsNoItem

\* What the engine may do while the history says that the goal is at rest.
Rests == seen'.idle => eng'.pc # "run" /\ ~(eng'.auto /\ eng'.pc = "prep")
Elsewhere ==
  /\ meta' \in Metas /\ meta'.id = meta.id
  /\ left' \in Lefts /\ left'.items = left.items
  /\ seen' \in Histories /\ seen'.begun = seen.begun
  /\ eng'.pc = "run" => eng.pc = "run"
  /\ Rests

LEMMA EndStep ==
  ASSUME GoalInv, Elsewhere, left'.goals = left.goals, Same(svc, svc'),
         seen'.fresh => seen.fresh, seen'.idle => ~Active(svc') /\ svc'.promoted = None
  PROVE  GoalInv'
<1>1. Numbered'
  BY DEF GoalInv, Numbered, Used, Same, Elsewhere
<1>2. Sorted'
  BY ItemsAreNone DEF GoalInv, Sorted, Same, Elsewhere
<1>3. IdleRests'
  BY DEF IdleRests, Elsewhere, Rests, Active
<1>4. FreshIsOthers'
  BY DEF GoalInv, FreshIsOthers, Same, Elsewhere
<1> QED
  BY <1>1, <1>2, <1>3, <1>4 DEF GoalInv, Same, Elsewhere

LEMMA SameStep ==
  ASSUME GoalInv, Elsewhere, left'.goals = left.goals, Same(svc, svc'),
         seen'.fresh => seen.fresh,
         seen'.idle => seen.idle /\ (Active(svc') => Active(svc))
  PROVE  GoalInv'
<1>1. seen'.idle => ~Active(svc') /\ svc'.promoted = None
  BY DEF GoalInv, IdleRests, Same
<1> QED
  BY <1>1, EndStep

LEMMA ClearedStep ==
  ASSUME GoalInv, Elsewhere, left'.goals = left.goals, svc' = Cleared(svc),
         seen'.fresh => seen.fresh, seen'.idle => seen.idle
  PROVE  GoalInv'
<1>0. /\ Orderly(svc') /\ svc'.goal.id = None /\ svc'.goal.status = "none"
      /\ svc'.goal.item = None /\ svc'.promoted = None
      /\ svc'.touched = svc.touched /\ svc'.queue = svc.queue
  BY ClearedKept DEF GoalInv, NoGoal
<1>1. Numbered'
  BY <1>0, Numbers DEF GoalInv, Numbered, Used, Elsewhere, Lefts
<1>2. Sorted'
  BY <1>0, ItemsAreNone DEF GoalInv, Sorted, Elsewhere
<1>3. IdleRests'
  BY <1>0 DEF IdleRests, Elsewhere, Rests, Active
<1>4. FreshIsOthers'
  BY <1>0 DEF GoalInv, FreshIsOthers, Elsewhere
<1> QED
  BY <1>0, <1>1, <1>2, <1>3, <1>4 DEF GoalInv, Elsewhere

LEMMA NextGoalIsNew ==
  ASSUME GoalInv, left.goals > 0
  PROVE  /\ NextGoal \in GoalIds \ {None} /\ NextGoal \notin Used
         /\ NextGoal # meta.id /\ NextGoal # Unset
         /\ Used \subseteq 0..(MaxGoals - (left.goals - 1))
         /\ NextGoal \in 0..(MaxGoals - (left.goals - 1))
         /\ left.goals - 1 \in 0..MaxGoals
<1>1. left.goals \in 0..MaxGoals /\ left.goals \in Nat \ {0} /\ MaxGoals \in Nat /\ None = 0
  BY Numbers DEF GoalInv, Lefts
<1>2. NextGoal = MaxGoals - left.goals + 1 /\ Unset = MaxGoals + 1
  BY DEF NextGoal, Unset
<1>3. meta.id \in 0..(MaxGoals - left.goals) \cup {Unset}
  BY DEF GoalInv, Numbered, Used
<1> QED
  BY <1>1, <1>2, <1>3 DEF Used, GoalIds

\* A goal is made, for an item of the queue or for none.
LEMMA CreatedStep ==
  ASSUME GoalInv, Elsewhere, left.goals > 0, left'.goals = left.goals - 1,
         NEW s, Same(svc, s),
         NEW item \in Range(svc.queue) \cup {None}, Same(Created(s, NextGoal, item), svc'),
         seen'.fresh => seen.fresh \/ meta.id # None, ~seen'.idle
  PROVE  GoalInv'
<1> DEFINE r == Created(s, NextGoal, item)
<1>0. item \in ItemIds /\ NextGoal \in GoalIds /\ Orderly(s) /\ item \notin Range(left.items)
      /\ item \notin seen.begun
  BY NextGoalIsNew, NoGoalIsGoal, ItemsAreNone DEF GoalInv, Same, Sorted
<1>1. /\ Orderly(r) /\ r.goal.id = NextGoal /\ r.goal.status = "active"
      /\ r.goal.item = item /\ r.promoted = None
      /\ r.touched = s.touched /\ r.queue = s.queue
  BY <1>0, CreatedKept
<1> HIDE DEF r
<1>2. /\ Orderly(svc') /\ svc'.goal.id = NextGoal /\ svc'.goal.status \notin {"none", "complete"}
      /\ svc'.goal.item \in {item, None} /\ svc'.promoted = None
      /\ svc.touched => svc'.touched
      /\ Range(svc'.queue) \subseteq Range(svc.queue)
  BY <1>1 DEF Same, r
<1>3. Numbered'
  BY <1>2, NextGoalIsNew DEF GoalInv, Numbered, Used, Elsewhere
<1>4. Sorted'
  BY <1>0, <1>2, ItemsAreNone DEF GoalInv, Sorted, Elsewhere
<1>5. IdleRests' /\ FreshIsOthers'
  BY <1>2, NextGoalIsNew DEF GoalInv, IdleRests, FreshIsOthers, Elsewhere
<1> QED
  BY <1>2, <1>3, <1>4, <1>5 DEF GoalInv, Elsewhere

\* A goal goes on that was there.
Revived(s, r) ==
  /\ Orderly(r) /\ r.goal.id = s.goal.id /\ r.goal.item \in {s.goal.item, None}
  /\ Range(r.queue) \subseteq Range(s.queue)
  /\ s.goal.status # "none" /\ r.goal.status \notin {"none", "complete"}
  /\ r.promoted = None /\ (s.touched => r.touched)
  /\ s.goal.status # "active" => r.touched

LEMMA RevivedStep ==
  ASSUME GoalInv, Elsewhere, left'.goals = left.goals, Revived(svc, svc'),
         seen'.fresh => seen.fresh \/ svc'.touched, ~seen'.idle
  PROVE  GoalInv'
<1>1. Numbered'
  BY DEF GoalInv, Numbered, Used, Revived, Elsewhere
<1>2. Sorted'
  BY ItemsAreNone DEF GoalInv, Sorted, Revived, Elsewhere
<1>3. IdleRests' /\ FreshIsOthers'
  BY DEF GoalInv, IdleRests, FreshIsOthers, Revived, Elsewhere
<1> QED
  BY <1>1, <1>2, <1>3 DEF GoalInv, Revived, Elsewhere

-----------------------------------------------------------------------------
(* Types.                                                                  *)

MonitorPc == {"none", "setup", "watch", "drain", "close", "free", "free_crashed",
              "release", "release_crashed", "next", "starts", "done"}
Begin == [pc : StartPc, why : Kinds \cup {"none", "promote", "continue"}, goal : GoalIds,
          item : ItemIds, turn : Turn \cup {None}]
\* The start of a promoted goal has its item.
Beginnings == {st \in Begin : st.why = "promote" => st.item # None}
WatchdogPc == {"off", "armed", "fired"}
HostTyped ==
  /\ monitor \in [Turn -> MonitorPc] /\ start \in [Task -> Beginnings]
  /\ watchdog \in [Turn -> WatchdogPc]
QueueTyped == ops \in Seq(Sends \cup {Stop}) /\ pending \in Seq(Sends) /\ cancel \in BOOLEAN
Engines == [pc : {"idle", "prep", "run", "told", "tail", "thrown"},
            turn : Turn \cup {None}, auto : BOOLEAN, hard : BOOLEAN,
            worked : BOOLEAN, outcome : {"completed", "failed", "cancelled"}]
Typed == HostTyped /\ QueueTyped /\ eng \in Engines
AllInv == ThreadInv /\ Typed /\ GoalInv

LEMMA BeginPc ==
  ASSUME NEW st \in Beginnings, NEW pc \in StartPc
  PROVE  [st EXCEPT !.pc = pc] \in Beginnings
BY DEF Beginnings, Begin

LEMMA BeginTurn ==
  ASSUME NEW st \in Beginnings, NEW pc \in StartPc, NEW u \in Turn
  PROVE  [st EXCEPT !.pc = pc, !.turn = u] \in Beginnings
<1>1. st \in Begin /\ (st.why = "promote" => st.item # None)
  BY DEF Beginnings
<1>2. [st EXCEPT !.pc = pc, !.turn = u] \in Begin
  BY <1>1 DEF Begin
<1>3. [st EXCEPT !.pc = pc, !.turn = u].why = st.why
      /\ [st EXCEPT !.pc = pc, !.turn = u].item = st.item
  BY <1>1 DEF Begin
<1> QED
  BY <1>1, <1>2, <1>3 DEF Beginnings

LEMMA NoStartBegins == NoStart \in Beginnings
BY NoGoalIsGoal DEF NoStart, Beginnings, Begin, StartPc

LEMMA StartingBegins ==
  ASSUME NEW why \in Kinds, NEW goal \in GoalIds
  PROVE  Starting(why, goal) \in Beginnings
<1>1. NoStart \in Begin /\ why # "promote" /\ NoStart.item = None
  BY NoStartBegins DEF Beginnings, Kinds, NoStart
<1>2. Starting(why, goal) \in Begin /\ Starting(why, goal).why = why
  BY <1>1 DEF Begin, Starting
<1> QED
  BY <1>1, <1>2 DEF Beginnings

LEMMA LaunchBegins ==
  ASSUME start \in [Task -> Beginnings], NEW t \in Task, NEW st \in Beginnings, Launched(t, st)
  PROVE  start' \in [Task -> Beginnings]
<1>1. /\ [st EXCEPT !.pc = "prep"] \in Beginnings /\ [st EXCEPT !.pc = "wait"] \in Beginnings
  BY BeginPc DEF StartPc
<1> QED
  BY <1>1 DEF Launched

LEMMA StartsTyped ==
  ASSUME AllInv, NEW t \in Task, Starts(t)
  PROVE  Typed'
<1>0. /\ monitor \in [Turn -> MonitorPc] /\ start \in [Task -> Beginnings]
      /\ start[t] \in Beginnings
      /\ \A pc \in StartPc : [start[t] EXCEPT !.pc = pc] \in Beginnings
      /\ "done" \in MonitorPc /\ "setup" \in MonitorPc /\ "watch" \in MonitorPc
      /\ watchdog \in [Turn -> WatchdogPc] /\ "armed" \in WatchdogPc
  BY BeginPc DEF AllInv, Typed, HostTyped, MonitorPc, WatchdogPc
<1>1. ASSUME UNCHANGED <<queues, eng>>, HostTyped'
      PROVE  Typed'
  BY <1>1 DEF AllInv, Typed, QueueTyped, queues
<1>2. CASE Refused(t) \/ GoalChanged(t) \/ PreparationFails(t) \/ StartFails(t)
  <2>1. HostTyped'
    BY <1>0, <1>2, NoStartBegins
    DEF Refused, GoalChanged, PreparationFails, StartFails, Unwinds, Returned, HostTyped
  <2> QED
    BY <1>1, <1>2, <2>1 DEF Refused, GoalChanged, PreparationFails, StartFails, Unwinds
<1>3. CASE Claims(t)
  <2>1. HostTyped'
    BY <1>0, <1>3 DEF Claims, HostTyped, StartPc
  <2> QED
    BY <1>1, <1>3, <2>1 DEF Claims
<1>4. CASE Reserves(t) \/ ReservationFails(t)
  <2>1. PICK pc \in {"ready", "raised"} : Booked(t, pc)
    BY <1>4 DEF Reserves, ReservationFails
  <2>2. NextTurn \in Turn /\ pc \in StartPc
    BY <2>1, FreshIsTurn DEF Booked, StartPc
  <2>3. [start[t] EXCEPT !.pc = pc, !.turn = NextTurn] \in Beginnings
    BY <1>0, <2>2, BeginTurn
  <2>4. start' \in [Task -> Beginnings]
    BY <1>0, <2>1, <2>3 DEF Booked
  <2>5. HostTyped'
    BY <1>0, <1>4, <2>2, <2>4 DEF Reserves, ReservationFails, HostTyped
  <2> QED
    BY <1>1, <1>4, <2>5 DEF Reserves, ReservationFails
<1>5. CASE Dispatches(t)
  <2>1. start[t].turn \in Turn
    BY <1>5 DEF Dispatches, AllInv, ThreadInv, Begins, BegunHolds, Begun
  <2>2. [turn |-> start[t].turn, auto |-> Automatic(start[t]), goal |-> Expected(start[t])]
          \in Sends
    <3>1. Automatic(start[t]) \in BOOLEAN /\ Expected(start[t]) \in 0..MaxGoals
      BY <1>0, NoGoalIsGoal DEF Automatic, Expected, Beginnings, Begin, GoalIds
    <3> QED
      BY <2>1, <3>1 DEF Sends
  <2>3. ops' \in Seq(Sends \cup {Stop})
    BY <1>5, <2>2 DEF Dispatches, AllInv, Typed, QueueTyped
  <2>4. HostTyped'
    BY <1>0, <1>5, <2>1, NoStartBegins DEF Dispatches, HostTyped
  <2> QED
    BY <1>5, <2>3, <2>4 DEF Dispatches, AllInv, Typed, QueueTyped
<1>6. CASE SetupFails(t)
  <2>1. HostTyped'
    BY <1>0, <1>6 DEF SetupFails, HostTyped, StartPc
  <2> QED
    BY <1>1, <1>6, <2>1 DEF SetupFails
<1> QED
  BY <1>2, <1>3, <1>4, <1>5, <1>6 DEF Starts

LEMMA CancelsTyped ==
  ASSUME QueueTyped, Cancels
  PROVE  cancel' \in BOOLEAN /\ ops' \in Seq(Sends \cup {Stop})
BY DEF QueueTyped, Cancels

LEMMA FollowingBegins ==
  ASSUME AllInv
  PROVE  Following \in Beginnings
<1>1. /\ NoStart \in Begin /\ NoStart \in Beginnings /\ svc.goal.id \in GoalIds
      /\ meta.promote \in Promotions
  BY NoStartBegins DEF AllInv, GoalInv, Orderly, Services, Goal, Beginnings, Metas
<1>2. CASE Following = [NoStart EXCEPT !.why = "promote", !.goal = svc.goal.id,
                                       !.item = meta.promote.item] /\ Promotes
  <2>1. meta.promote.item \in ItemIds \ {None}
    BY <1>1, <1>2 DEF Promotes, Promotions
  <2>2. Following \in Begin /\ Following.item = meta.promote.item
    BY <1>1, <1>2, <2>1 DEF Begin
  <2> QED
    BY <2>1, <2>2 DEF Beginnings
<1>3. CASE Following = [NoStart EXCEPT !.why = "continue", !.goal = svc.goal.id]
  <2>1. Following \in Begin /\ Following.why = "continue"
    BY <1>1, <1>3 DEF Begin
  <2> QED
    BY <2>1 DEF Beginnings
<1> QED
  BY <1>1, <1>2, <1>3 DEF Following

LEMMA MonitorsTyped ==
  ASSUME AllInv, NEW u \in Turn, Monitors(u)
  PROVE  Typed'
<1>0. /\ monitor \in [Turn -> MonitorPc] /\ start \in [Task -> Beginnings] /\ QueueTyped
      /\ u \in Task /\ eng \in Engines /\ watchdog \in [Turn -> WatchdogPc]
  BY Apart DEF AllInv, Typed, HostTyped
<1>1. CASE \/ MonitorTakes(u) \/ IsAnswered(u) \/ MonitorDrains(u)
  BY <1>0, <1>1
  DEF MonitorTakes, IsAnswered, MonitorDrains, Typed, HostTyped, QueueTyped, MonitorPc,
      WatchdogPc
<1>2. CASE \/ MonitorCrashes(u) \/ MonitorCrashesLate(u) \/ MonitorCloses(u)
           \/ MonitorFrees(u) \/ MonitorReleases(u)
  BY <1>0, <1>2
  DEF MonitorCrashes, MonitorCrashesLate, MonitorCloses, MonitorFrees, MonitorReleases, Typed,
      HostTyped, QueueTyped, MonitorPc, WatchdogPc, queues
<1>3. CASE TimesOut(u)
  <2>1. cancel' \in BOOLEAN /\ ops' \in Seq(Sends \cup {Stop})
    BY <1>0, <1>3, CancelsTyped DEF TimesOut
  <2> QED
    BY <1>0, <1>3, <2>1 DEF TimesOut, Typed, HostTyped, QueueTyped, MonitorPc, WatchdogPc
<1>4. CASE Continues(u)
  <2>1. monitor' \in [Turn -> MonitorPc]
    BY <1>0, <1>4 DEF Continues, MonitorPc
  <2>2. start' \in [Task -> Beginnings]
    BY <1>0, <1>4, FollowingBegins, LaunchBegins DEF Continues
  <2> QED
    BY <1>0, <1>4, <2>1, <2>2 DEF Continues, Typed, HostTyped, QueueTyped, queues
<1> QED
  BY <1>1, <1>2, <1>3, <1>4 DEF Monitors, Tends

LEMMA EngineTyped ==
  ASSUME AllInv, Engine
  PROVE  Typed'
<1>0. /\ HostTyped /\ eng \in Engines /\ Rest \in Engines
      /\ ops \in Seq(Sends \cup {Stop}) /\ pending \in Seq(Sends) /\ cancel \in BOOLEAN
  BY DEF AllInv, Typed, QueueTyped, Rest, Engines
<1>1. ASSUME UNCHANGED host
      PROVE  HostTyped'
  BY <1>0, <1>1 DEF HostTyped, host
<1>2. ASSUME ops # <<>>
      PROVE  /\ Head(ops) \in Sends \cup {Stop} /\ Tail(ops) \in Seq(Sends \cup {Stop})
  BY <1>0, <1>2
<1>3. ASSUME pending # <<>>
      PROVE  Head(pending) \in Sends /\ Tail(pending) \in Seq(Sends)
  BY <1>0, <1>3
<1>4. CASE EngineTakes
  <2>1. ops' \in Seq(Sends \cup {Stop}) /\ pending' \in Seq(Sends) /\ NextOp \in Sends
    BY <1>0, <1>2, <1>3, <1>4 DEF EngineTakes, PopsOp, NextOp, Inbox
  <2>2. eng' \in Engines
    <3>1. NextOp.turn \in Turn /\ NextOp.auto \in BOOLEAN
      BY <2>1 DEF Sends
    <3>2. [Rest EXCEPT !.pc = "prep", !.turn = NextOp.turn, !.auto = NextOp.auto] \in Engines
      BY <1>0, <3>1 DEF Engines
    <3> QED
      BY <1>0, <1>4, <3>2 DEF EngineTakes
  <2> QED
    BY <1>1, <1>4, <2>1, <2>2 DEF EngineTakes, Typed, QueueTyped
<1>5. CASE EngineIgnoresStop \/ EngineStops
  <2>1. ops' \in Seq(Sends \cup {Stop}) /\ cancel' \in BOOLEAN /\ pending' = pending
    BY <1>2, <1>5 DEF EngineIgnoresStop, EngineStops
  <2>2. eng' \in Engines
    BY <1>0, <1>5 DEF EngineIgnoresStop, EngineStops, Engines
  <2> QED
    BY <1>0, <1>1, <1>5, <2>1, <2>2 DEF EngineIgnoresStop, EngineStops, Typed, QueueTyped
<1>6. CASE EngineDefers
  <2>1. Head(ops) \in Sends /\ ops' \in Seq(Sends \cup {Stop})
    BY <1>2, <1>6 DEF EngineDefers
  <2>2. pending' \in Seq(Sends)
    BY <1>0, <1>6, <2>1 DEF EngineDefers
  <2> QED
    BY <1>0, <1>1, <1>6, <2>1, <2>2 DEF EngineDefers, Typed, QueueTyped
<1>7. CASE PromptBlocked \/ EngineReturns \/ ThrownFinishes \/ EngineFails
  BY <1>0, <1>1, <1>7
  DEF PromptBlocked, EngineReturns, ThrownFinishes, EngineFails, Typed, QueueTyped, queues
<1>8. CASE ModelStarts \/ ModelWorks \/ ModelUpdatesGoal \/ ModelCreatesGoal
  <2>1. eng' \in Engines /\ UNCHANGED <<host, queues>>
    BY <1>0, <1>8 DEF ModelStarts, ModelWorks, ModelUpdatesGoal, ModelCreatesGoal, Engines
  <2> QED
    BY <1>0, <1>1, <2>1 DEF Typed, QueueTyped, queues
<1>9. CASE GoalSpends
  <2>1. ops' \in Seq(Sends \cup {Stop}) /\ cancel' \in BOOLEAN
    <3>1. CASE cancel' = TRUE /\ ops' = Append(ops, Stop)
      BY <1>0, <3>1
    <3>2. CASE UNCHANGED <<cancel, ops>>
      BY <1>0, <3>2
    <3> QED
      BY <1>9, <3>1, <3>2 DEF GoalSpends
  <2>2. HostTyped' /\ pending' = pending /\ eng' = eng
    BY <1>1, <1>9 DEF GoalSpends
  <2> QED
    BY <1>0, <2>1, <2>2 DEF Typed, QueueTyped
<1>10. CASE ModelEnds
  <2>1. eng' \in Engines
    BY <1>0, <1>10, ZenonT(40) DEF ModelEnds, Engines
  <2> QED
    BY <1>0, <1>1, <1>10, <2>1 DEF ModelEnds, Typed, QueueTyped
<1>11. CASE TurnFinishes \/ Thrown
  <2>1. [Rest EXCEPT !.pc = "tail"] \in Engines /\ [Rest EXCEPT !.pc = "thrown"] \in Engines
    BY <1>0 DEF Engines
  <2> QED
    BY <1>0, <1>1, <1>11, <2>1 DEF TurnFinishes, Thrown, Typed, QueueTyped, queues
<1> QED
  BY <1>4, <1>5, <1>6, <1>7, <1>8, <1>9, <1>10, <1>11 DEF Engine

-----------------------------------------------------------------------------
(* Resumes and reopenings, the goal of the turn before or another.         *)

LEMMA CreatedId ==
  ASSUME NEW s, Orderly(s), NEW id, NEW item
  PROVE  Created(s, id, item).goal.id = id /\ Created(s, id, item).goal.status = "active"
BY DEF Created, Orderly, Services, NoGoal

\* What a resume or a reopening, after a change of the budget or not, comes to.
LEMMA AfterResume ==
  ASSUME GoalInv, NEW s, Same(svc, s),
         \/ s.goal.status = svc.goal.status
         \/ svc.goal.status = "active" /\ s.goal.status = "budget_limited",
         NEW after,
         \/ MayResume(s) /\ after = Resumed(s, NextGoal)
         \/ s = svc /\ svc.goal.status = "complete" /\ after = Reopened(s, NextGoal)
  PROVE  \/ /\ Revived(s, after)
            /\ after.goal.id = svc.goal.id
            /\ Orderly(after) /\ after.goal.status \notin {"none", "complete"}
         \/ /\ svc.goal.status = "complete" /\ s.queue # <<>>
            /\ after = Created(s, NextGoal, Head(s.queue)) /\ after.goal.id = NextGoal
<1>0. Orderly(s) /\ Orderly(svc) /\ s.goal.id = svc.goal.id
  BY DEF Same, GoalInv
<1>1. CASE after = Reopened(s, NextGoal) /\ s = svc /\ svc.goal.status = "complete"
  <2>1. LET r == Reopened(s, NextGoal) IN
         /\ Orderly(r) /\ r.goal.id = s.goal.id /\ r.goal.item = s.goal.item
         /\ r.goal.status \notin {"none", "complete"}
         /\ r.promoted = None /\ r.queue = s.queue /\ r.touched
    BY <1>0, <1>1, ReopenedKept
  <2> QED
    BY <1>0, <1>1, <2>1 DEF Revived
<1>2. CASE MayResume(s) /\ after = Resumed(s, NextGoal)
  <2>1. LET r == Resumed(s, NextGoal) IN
         IF s.goal.status = "complete"
         THEN s.queue # <<>> /\ r = Created(s, NextGoal, Head(s.queue))
         ELSE /\ Same(s, r) /\ r.queue = s.queue /\ r.promoted = s.promoted
              /\ r.goal.item = s.goal.item /\ s.goal.status # "none"
              /\ s.goal.status # "active" => r.touched
    BY <1>0, <1>2, ResumedKept
  <2>2. CASE s.goal.status = "complete"
    BY <1>0, <1>2, <2>1, <2>2, CreatedId DEF Same
  <2>3. CASE s.goal.status # "complete"
    <3>1. s.promoted = None
      BY <2>3 DEF GoalInv, Numbered, Same
    <3> QED
      BY <1>0, <1>2, <2>1, <2>3, <3>1 DEF Same, Revived
  <2> QED
    BY <2>2, <2>3
<1> QED
  BY <1>1, <1>2

LEMMA UserElsewhere ==
  ASSUME AllInv, UNCHANGED <<meta, eng>>, left' \in Lefts, left'.items = left.items,
         NEW fresh \in BOOLEAN, seen' = [seen EXCEPT !.idle = FALSE, !.fresh = fresh]
  PROVE  Elsewhere /\ ~seen'.idle /\ seen'.fresh = fresh
<1>1. seen' \in Histories /\ ~seen'.idle /\ seen'.fresh = fresh /\ seen'.begun = seen.begun
  BY DEF AllInv, GoalInv, Histories
<1> QED
  BY <1>1 DEF AllInv, GoalInv, Elsewhere, Rests

LEMMA LeftAfter ==
  ASSUME GoalInv, left.commands > 0, NEW n \in 0..MaxGoals,
         left' = [left EXCEPT !.commands = @ - 1, !.goals = n]
  PROVE  left' \in Lefts /\ left'.items = left.items /\ left'.goals = n
<1>1. left \in Lefts /\ left.commands - 1 \in 0..MaxCommands
  BY Numbers DEF GoalInv, Lefts
<1> QED
  BY <1>1 DEF Lefts

LEMMA RelaunchStep ==
  ASSUME AllInv, NEW c \in Client, NEW after, Relaunches(c, after), left.commands > 0,
         NEW s, Same(svc, s),
         \/ s.goal.status = svc.goal.status
         \/ svc.goal.status = "active" /\ s.goal.status = "budget_limited",
         UNCHANGED eng,
         \/ MayResume(s) /\ after = Resumed(s, NextGoal)
         \/ s = svc /\ svc.goal.status = "complete" /\ after = Reopened(s, NextGoal)
  PROVE  GoalInv'
<1>0. GoalInv /\ Orderly(s) /\ UNCHANGED meta
  BY DEF AllInv, Same, Relaunches
<1>1. svc' = after \/ svc' = SetStatus(after, "paused", FALSE)
  BY DEF Relaunches
<1>2. PICK fresh \in BOOLEAN : /\ fresh <=> seen.fresh \/ (~Active(svc) /\ Active(svc'))
                               /\ seen' = [seen EXCEPT !.idle = FALSE, !.fresh = fresh]
  BY DEF Relaunches
<1>3. "paused" \in Status \ {"none", "complete"} /\ FALSE \in BOOLEAN
  BY DEF Status
<1>4. CASE /\ Revived(s, after) /\ after.goal.id = svc.goal.id
           /\ Orderly(after) /\ after.goal.status \notin {"none", "complete"}
  <2>1. left' = [left EXCEPT !.commands = @ - 1, !.goals = left.goals]
    BY <1>4 DEF Relaunches
  <2>2. left' \in Lefts /\ left'.items = left.items /\ left'.goals = left.goals
    <3>1. left.goals \in 0..MaxGoals
      BY <1>0 DEF GoalInv, Lefts
    <3> QED
      BY <1>0, <2>1, <3>1, LeftAfter
  <2>3. Elsewhere /\ ~seen'.idle /\ seen'.fresh = fresh
    BY <1>0, <1>2, <2>2, UserElsewhere
  <2>4. Revived(s, svc')
    <3>1. LET r == SetStatus(after, "paused", FALSE) IN
          /\ Same(after, r) /\ r.touched = after.touched
          /\ r.goal.item = after.goal.item /\ r.queue = after.queue /\ r.promoted = after.promoted
      BY <1>3, <1>4, StatusKept, ZenonT(40)
    <3> QED
      BY <1>1, <1>4, <3>1 DEF Revived, Same
  <2>5. Revived(svc, svc')
    BY <2>4 DEF Revived, Same
  <2>6. seen'.fresh => seen.fresh \/ svc'.touched
    BY <1>2, <2>3, <2>5 DEF Revived, Active
  <2> QED
    BY <1>0, <2>2, <2>3, <2>5, <2>6, RevivedStep
<1>5. CASE /\ svc.goal.status = "complete" /\ s.queue # <<>>
           /\ after = Created(s, NextGoal, Head(s.queue)) /\ after.goal.id = NextGoal
  <2>1. left.goals > 0 /\ NextGoal # svc.goal.id
    <3>1. CASE left.goals > 0
      BY <1>0, <3>1, NextGoalIsNew DEF GoalInv, Numbered
    <3>2. CASE ~(left.goals > 0)
      <4>1. left.goals = 0 /\ NextGoal = MaxGoals + 1 /\ svc.goal.id \in 0..MaxGoals
        BY <1>0, <3>2, Numbers DEF GoalInv, Lefts, Numbered, Used, NextGoal
      <4> QED
        BY <1>5, <3>2, <4>1, Numbers DEF Relaunches
    <3> QED
      BY <3>1, <3>2
  <2>2. left' \in Lefts /\ left'.items = left.items /\ left'.goals = left.goals - 1
    <3>1. left' = [left EXCEPT !.commands = @ - 1, !.goals = left.goals - 1]
      BY <1>5, <2>1 DEF Relaunches
    <3> QED
      BY <1>0, <2>1, <3>1, LeftAfter, NextGoalIsNew
  <2>3. Elsewhere /\ ~seen'.idle /\ seen'.fresh = fresh
    BY <1>0, <1>2, <2>2, UserElsewhere
  <2>4. Head(s.queue) \in Range(svc.queue) \cup {None} /\ Head(s.queue) \in ItemIds
    BY <1>0, <1>5, ItemTaken, ItemsAreNone DEF Orderly, Services, Same
  <2>5. Orderly(after) /\ after.goal.status = "active"
    BY <1>0, <1>5, <2>1, <2>4, NextGoalIsNew, CreatedKept
  <2>6. Same(after, svc')
    <3>1. Same(after, SetStatus(after, "paused", FALSE))
      BY <1>3, <2>5, StatusKept
    <3> QED
      BY <1>1, <2>5, <3>1, SameAsBefore
  <2>7. meta.id # None
    BY <1>0, <1>5 DEF GoalInv, Numbered
  <2> QED
    BY <1>0, <1>5, <2>1, <2>2, <2>3, <2>4, <2>6, <2>7, CreatedStep
<1> QED
  BY <1>0, <1>4, <1>5, AfterResume

-----------------------------------------------------------------------------
(* Starts, monitors, the clock and the queue.                              *)

\* A fault or a command takes one away.
LEMMA FaultLeft ==
  ASSUME GoalInv, NEW kind, Fault(kind)
  PROVE  left' \in Lefts /\ left'.items = left.items /\ left'.goals = left.goals
<1>1. left \in Lefts /\ left.faults - 1 \in 0..MaxFaults
  BY Numbers DEF GoalInv, Lefts, Fault
<1>2. left' = [left EXCEPT !.faults = left.faults - 1]
  BY DEF Fault
<1> QED
  BY <1>1, <1>2 DEF Lefts

LEMMA NothingElse ==
  ASSUME AllInv, UNCHANGED <<meta, seen, eng>>, left' \in Lefts, left'.items = left.items
  PROVE  Elsewhere
BY DEF AllInv, GoalInv, Elsewhere, Rests, IdleRests

\* The parts that do not move the goal.
LEMMA GoalUnmoved ==
  ASSUME AllInv, UNCHANGED svc, Elsewhere, left'.goals = left.goals,
         seen'.fresh => seen.fresh, seen'.idle => seen.idle
  PROVE  GoalInv'
<1>1. Same(svc, svc')
  BY SameAsBefore DEF AllInv, GoalInv
<1> QED
  BY <1>1, SameStep DEF AllInv

LEMMA UndoneStep ==
  ASSUME AllInv, NEW st, NEW busy, NEW conflict, svc' = Undone(st, busy, conflict),
         UNCHANGED <<meta, seen, eng, left>>
  PROVE  GoalInv'
<1>0. Elsewhere /\ GoalInv /\ Orderly(svc)
  BY NothingElse DEF AllInv, GoalInv
<1>1. CASE svc' = svc
  BY <1>0, <1>1, GoalUnmoved
<1>2. CASE svc' = Cleared(svc)
  BY <1>0, <1>2, ClearedStep
<1>3. CASE Active(svc) /\ svc' = SetStatus(svc, "paused", FALSE)
  <2>1. /\ "paused" \in Status \ {"none", "complete"} /\ FALSE \in BOOLEAN
        /\ svc.goal.status \notin {"none", "complete"}
    BY <1>3 DEF Status, Active
  <2>2. LET r == SetStatus(svc, "paused", FALSE) IN Same(svc, r) /\ r.goal.status = "paused"
    BY <1>0, <2>1, StatusKept
  <2>3. Same(svc, svc') /\ ~Active(svc')
    BY <1>3, <2>2 DEF Active
  <2> QED
    BY <1>0, <2>3, SameStep
<1> QED
  BY <1>1, <1>2, <1>3, UndoneKept

LEMMA StartsMoveGoals ==
  ASSUME AllInv, NEW t \in Task, Starts(t)
  PROVE  GoalInv'
<1>1. CASE Refused(t) \/ GoalChanged(t) \/ PreparationFails(t) \/ StartFails(t)
  BY <1>1, UndoneStep DEF Refused, GoalChanged, PreparationFails, StartFails, Unwinds
<1>2. CASE Claims(t) \/ Reserves(t)
  <2>1. UNCHANGED <<svc, meta, seen, eng, left>>
    BY <1>2 DEF Claims, Reserves
  <2>2. Elsewhere
    BY <2>1, NothingElse DEF AllInv, GoalInv
  <2> QED
    BY <2>1, <2>2, GoalUnmoved
<1>3. CASE SetupFails(t) \/ ReservationFails(t)
  <2>1. /\ UNCHANGED <<svc, meta, seen, eng>> /\ GoalInv
        /\ \E kind \in {"crash", "start"} : Fault(kind)
    BY <1>3 DEF SetupFails, ReservationFails, AllInv
  <2>2. left' \in Lefts /\ left'.items = left.items /\ left'.goals = left.goals
    BY <2>1, FaultLeft
  <2>3. Elsewhere
    BY <2>1, <2>2, NothingElse
  <2> QED
    BY <2>1, <2>2, <2>3, GoalUnmoved
<1>4. CASE Dispatches(t)
  <2>1. UNCHANGED <<meta, seen, eng, left>> /\ svc' = Started(start[t])
    BY <1>4 DEF Dispatches
  <2>2. Elsewhere /\ GoalInv /\ Orderly(svc)
    BY <2>1, NothingElse DEF AllInv, GoalInv
  <2>3. start[t].why = "promote" => start[t].item # None
    BY DEF AllInv, Typed, HostTyped, Beginnings
  <2>4. Same(svc, svc') /\ svc'.goal.status = svc.goal.status
    BY <2>1, <2>2, <2>3, AcknowledgedKept, SameAsBefore DEF Started
  <2> QED
    BY <2>1, <2>2, <2>4, SameStep DEF Active
<1> QED
  BY <1>1, <1>2, <1>3, <1>4 DEF Starts

LEMMA MonitorsMoveGoals ==
  ASSUME AllInv, NEW u \in Turn, Monitors(u)
  PROVE  GoalInv'
<1>0. UNCHANGED <<svc, seen, eng>> /\ GoalInv
  BY DEF Monitors, Tends, MonitorTakes, TimesOut, IsAnswered, MonitorCrashes, MonitorDrains,
     MonitorCrashesLate, MonitorCloses, MonitorFrees, MonitorReleases, Continues, AllInv
<1>1. CASE Continues(u)
  <2>1. meta' \in Metas /\ meta'.id = meta.id /\ UNCHANGED left
    <3>1. NoPromotion \in Promotions /\ meta \in Metas
      BY <1>0, NoGoalIsGoal DEF GoalInv, NoPromotion, Promotions
    <3>2. [meta EXCEPT !.continue = FALSE, !.promote = NoPromotion] \in Metas
      BY <3>1 DEF Metas
    <3>3. [meta EXCEPT !.continue = FALSE, !.promote = NoPromotion].id = meta.id
      BY <3>1 DEF Metas
    <3> QED
      BY <1>1, <3>1, <3>2, <3>3 DEF Continues
  <2>2. Elsewhere
    BY <1>0, <2>1 DEF GoalInv, Elsewhere, Rests, IdleRests
  <2> QED
    BY <1>0, <2>1, <2>2, GoalUnmoved
<1>2. CASE TimesOut(u) \/ MonitorCrashes(u) \/ MonitorCrashesLate(u)
  <2>1. left' \in Lefts /\ left'.items = left.items /\ left'.goals = left.goals
        /\ UNCHANGED meta
    BY <1>0, <1>2, FaultLeft DEF TimesOut, MonitorCrashes, MonitorCrashesLate
  <2> QED
    BY <1>0, <2>1, NothingElse, GoalUnmoved
<1>3. CASE UNCHANGED <<meta, left>>
  <2>1. Elsewhere
    BY <1>0, <1>3, NothingElse DEF GoalInv
  <2> QED
    BY <1>0, <1>3, <2>1, GoalUnmoved
<1> QED
  BY <1>1, <1>2, <1>3
  DEF Monitors, Tends, MonitorTakes, IsAnswered, MonitorDrains, MonitorCloses, MonitorFrees,
      MonitorReleases

LEMMA SpentKept ==
  ASSUME NEW s, Orderly(s)
  PROVE  LET r == [s EXCEPT !.goal.spent = TRUE] IN
         /\ Same(s, r) /\ r.goal.status = s.goal.status /\ r.queue = s.queue
         /\ r.touched = s.touched /\ r.promoted = s.promoted
BY DEF Same, Orderly, Services, Goal

LEMMA TimeMovesGoals ==
  ASSUME AllInv, TimeRunsOut
  PROVE  GoalInv'
<1>1. UNCHANGED <<meta, seen, eng, left>> /\ GoalInv /\ Orderly(svc)
      /\ svc' = [svc EXCEPT !.goal.spent = TRUE]
  BY DEF TimeRunsOut, AllInv, GoalInv
<1>2. Same(svc, svc') /\ svc'.goal.status = svc.goal.status
  BY <1>1, SpentKept
<1>3. Elsewhere
  BY <1>1, NothingElse DEF GoalInv
<1> QED
  BY <1>1, <1>2, <1>3, SameStep DEF Active

LEMMA SpentCommand ==
  ASSUME AllInv, left.commands > 0, UNCHANGED <<meta, eng>>, NEW goals \in {0, 1},
         left.goals >= goals, Spent(goals, 0)
  PROVE  /\ Elsewhere /\ ~seen'.idle /\ seen'.fresh = seen.fresh
         /\ left'.goals = left.goals - goals
<1>1. left.goals - goals \in 0..MaxGoals /\ GoalInv /\ left \in Lefts
  BY Numbers DEF AllInv, GoalInv, Lefts
<1>2. left' = [left EXCEPT !.commands = @ - 1, !.goals = left.goals - goals]
  <2>1. left' = [left EXCEPT !.commands = left.commands - 1, !.goals = left.goals - goals,
                             !.items = left.items]
    BY DEF Spent
  <2> QED
    BY <1>1, <2>1 DEF Lefts
<1>3. left' \in Lefts /\ left'.items = left.items /\ left'.goals = left.goals - goals
  BY <1>1, <1>2, LeftAfter DEF AllInv
<1>4. seen.fresh \in BOOLEAN /\ seen' = [seen EXCEPT !.idle = FALSE, !.fresh = seen.fresh]
  BY <1>1 DEF GoalInv, Histories, Spent
<1> QED
  BY <1>3, <1>4, UserElsewhere

LEMMA FoundedStep ==
  ASSUME AllInv, NEW c \in Client, NEW why, Founded(c, why), left.commands > 0
  PROVE  GoalInv'
<1>0. left.goals > 0 /\ GoalInv /\ Orderly(svc) /\ svc' = Created(svc, NextGoal, None)
      /\ UNCHANGED <<meta, eng>> /\ left.goals >= 1 /\ 1 \in {0, 1}
  BY Numbers DEF Founded, AllInv, GoalInv, Lefts
<1>1. Elsewhere /\ ~seen'.idle /\ seen'.fresh = seen.fresh /\ left'.goals = left.goals - 1
  BY <1>0, SpentCommand DEF Founded
<1>2. Orderly(svc')
  BY <1>0, NextGoalIsNew, NoGoalIsGoal, CreatedKept
<1>3. Same(svc, svc) /\ Same(Created(svc, NextGoal, None), svc')
      /\ None \in Range(svc.queue) \cup {None}
  BY <1>0, <1>2, SameAsBefore
<1> QED
  BY <1>0, <1>1, <1>3, CreatedStep

\* The first of the items that are left goes to the end of the queue.
LEMMA QueuedStep ==
  ASSUME AllInv, left.items # <<>>, svc' = [svc EXCEPT !.queue = Append(@, Head(left.items))],
         Spent(0, 1), left.commands > 0, UNCHANGED <<meta, eng>>
  PROVE  GoalInv'
<1> DEFINE e == Head(left.items)
<1>0. /\ GoalInv /\ Orderly(svc) /\ IsInjective(left.items) /\ IsInjective(svc.queue)
      /\ left.items \in Seq(Range(Items)) /\ svc.queue \in Seq(Range(Items))
      /\ left \in Lefts /\ left.commands - 1 \in 0..MaxCommands
  BY Numbers DEF AllInv, GoalInv, Orderly, Services, Lefts, Sorted
<1>1. /\ Tail(left.items) \in Seq(Range(Items)) /\ IsInjective(Tail(left.items))
      /\ e \in Range(left.items) /\ Range(Tail(left.items)) \subseteq Range(left.items) \ {e}
  BY <1>0, ItemTaken
<1>2. e \in Range(Items) \ Range(svc.queue) /\ e # None /\ e \notin seen.begun
  BY <1>0, <1>1, NoneIsNoItem, Numbers DEF GoalInv, Sorted
<1>3. /\ left' \in Lefts /\ left'.items = Tail(left.items) /\ left'.goals = left.goals
  <2>1. left' = [left EXCEPT !.commands = left.commands - 1, !.goals = left.goals - 0,
                             !.items = Tail(left.items)]
    BY DEF Spent
  <2>2. left.goals - 0 = left.goals /\ left.goals \in 0..MaxGoals
    BY <1>0, Numbers DEF Lefts
  <2> QED
    BY <1>0, <1>1, <2>1, <2>2 DEF Lefts
<1>4. seen' \in Histories /\ ~seen'.idle /\ seen'.fresh = seen.fresh /\ seen'.begun = seen.begun
  BY <1>0 DEF GoalInv, Histories, Spent
<1>5. /\ Append(svc.queue, e) \in Seq(Range(Items)) /\ IsInjective(Append(svc.queue, e))
      /\ Range(Append(svc.queue, e)) = Range(svc.queue) \cup {e}
  BY <1>0, <1>2, ItemAppended
<1>6. svc' = [svc EXCEPT !.queue = Append(svc.queue, e)]
  OBVIOUS
<1> HIDE DEF e
<1>7. /\ svc'.queue = Append(svc.queue, e) /\ svc'.goal = svc.goal
      /\ svc'.touched = svc.touched /\ svc'.promoted = svc.promoted /\ Orderly(svc')
  BY <1>0, <1>5, <1>6 DEF Orderly, Services
<1>8. Sorted'
  BY <1>1, <1>2, <1>3, <1>4, <1>5, <1>7 DEF GoalInv, Sorted, AllInv
<1>9. Numbered' /\ IdleRests' /\ FreshIsOthers'
  BY <1>0, <1>3, <1>4, <1>7 DEF GoalInv, Numbered, Used, IdleRests, FreshIsOthers
<1> QED
  BY <1>0, <1>3, <1>4, <1>7, <1>8, <1>9 DEF GoalInv

-----------------------------------------------------------------------------
(* The user.                                                               *)

LEMMA CommandStep ==
  ASSUME AllInv, left.commands > 0, UNCHANGED <<meta, eng>>, Spent(0, 0),
         Same(svc, svc') \/ svc' = Cleared(svc)
  PROVE  GoalInv'
<1>0. left.goals \in Nat /\ 0 \in {0, 1}
  BY Numbers DEF AllInv, GoalInv, Lefts
<1>1. Elsewhere /\ ~seen'.idle /\ seen'.fresh = seen.fresh /\ left'.goals = left.goals - 0
  BY <1>0, SpentCommand
<1>2. left'.goals = left.goals /\ GoalInv
  BY <1>0, <1>1 DEF AllInv
<1> QED
  BY <1>1, <1>2, SameStep, ClearedStep

LEMMA UserMovesGoals ==
  ASSUME AllInv, User
  PROVE  GoalInv'
<1>0. GoalInv /\ Orderly(svc) /\ Same(svc, svc)
  BY SameAsBefore DEF AllInv, GoalInv
<1>1. ASSUME NEW c \in Client, Message(c) \/ Compact(c)
      PROVE  GoalInv'
  BY <1>0, <1>1, CommandStep DEF Message, Compact, Commanded, queues
<1>2. ASSUME NEW c \in Client, GoalCreate(c)
      PROVE  GoalInv'
  BY <1>2, FoundedStep DEF GoalCreate, Commanded
<1>3. ASSUME NEW c \in Client, GoalNext(c)
      PROVE  GoalInv'
  BY <1>3, FoundedStep, QueuedStep DEF GoalNext, Commanded
<1>4. ASSUME NEW c \in Client, GoalResume(c) \/ GoalReopen(c)
      PROVE  GoalInv'
  <2>1. left.commands > 0 /\ UNCHANGED eng
    BY <1>4 DEF GoalResume, GoalReopen, Relaunches, Commanded
  <2>2. CASE GoalResume(c)
    BY <1>0, <2>1, <2>2, RelaunchStep DEF GoalResume
  <2>3. CASE GoalReopen(c)
    BY <1>0, <2>1, <2>3, RelaunchStep DEF GoalReopen
  <2> QED
    BY <1>4, <2>2, <2>3
<1>5. ASSUME NEW c \in Client, GoalBudget(c)
      PROVE  GoalInv'
  <2>1. PICK limit \in Limits :
          \/ /\ svc' = BudgetSet(svc, limit) /\ Spent(0, 0)
             /\ UNCHANGED <<meta, host, queues, eng>>
          \/ /\ start[c].pc = "idle" /\ MayResume(BudgetSet(svc, limit))
             /\ Relaunches(c, Resumed(BudgetSet(svc, limit), NextGoal))
    BY <1>5 DEF GoalBudget
  <2>2. left.commands > 0
    BY <1>5 DEF GoalBudget, Commanded
  <2> DEFINE s == BudgetSet(svc, limit)
  <2>3. /\ Same(svc, s)
        /\ \/ s.goal.status = svc.goal.status
           \/ svc.goal.status = "active" /\ s.goal.status = "budget_limited"
    BY <1>0, BudgetSetKept
  <2> HIDE DEF s
  <2>4. CASE svc' = s /\ Spent(0, 0) /\ UNCHANGED <<meta, host, queues, eng>>
    BY <2>2, <2>3, <2>4, CommandStep
  <2>5. CASE MayResume(s) /\ Relaunches(c, Resumed(s, NextGoal))
    <3>1. UNCHANGED eng
      BY <2>5 DEF Relaunches
    <3> QED
      BY <2>2, <2>3, <2>5, <3>1, RelaunchStep
  <2> QED
    BY <2>1, <2>4, <2>5 DEF s
<1>6. CASE Interrupt
  BY <1>0, <1>6, CommandStep DEF Interrupt, Commanded
<1>7. CASE GoalPause
  <2>1. Same(svc, svc')
    <3>1. CASE svc.goal.status = "active" /\ svc' = SetStatus(svc, "paused", TRUE)
      <4>1. "paused" \in Status \ {"none", "complete"} /\ TRUE \in BOOLEAN
        BY DEF Status
      <4>2. Same(svc, SetStatus(svc, "paused", TRUE))
        BY <1>0, <3>1, <4>1, StatusKept
      <4> QED
        BY <3>1, <4>2
    <3>2. CASE svc' = svc
      BY <1>0, <3>2
    <3> QED
      BY <1>7, <3>1, <3>2 DEF GoalPause, Active
  <2> QED
    BY <1>7, <2>1, CommandStep DEF GoalPause, Commanded
<1>8. CASE GoalCancel
  BY <1>8, CommandStep DEF GoalCancel, Commanded
<1>9. CASE QueueChange
  <2>1. PICK n \in DOMAIN svc.queue :
          \/ svc' = [svc EXCEPT !.queue = RemoveAt(@, n)]
          \/ \E dest \in DOMAIN svc.queue : svc' = [svc EXCEPT !.queue = Moved(@, n, dest)]
    BY <1>9 DEF QueueChange
  <2>2. svc.queue \in Seq(Range(Items)) /\ IsInjective(svc.queue)
    BY <1>0 DEF Orderly, Services
  <2>3. \E q \in Seq(Range(Items)) : /\ IsInjective(q) /\ Range(q) \subseteq Range(svc.queue)
                                     /\ svc' = [svc EXCEPT !.queue = q]
    <3>1. CASE svc' = [svc EXCEPT !.queue = RemoveAt(@, n)]
      BY <2>2, <3>1, ItemRemoved
    <3>2. ASSUME NEW dest \in DOMAIN svc.queue, svc' = [svc EXCEPT !.queue = Moved(@, n, dest)]
          PROVE  \E q \in Seq(Range(Items)) : /\ IsInjective(q)
                                              /\ Range(q) \subseteq Range(svc.queue)
                                              /\ svc' = [svc EXCEPT !.queue = q]
      BY <2>2, <3>2, ItemMoved
    <3> QED
      BY <2>1, <3>1, <3>2
  <2>4. Same(svc, svc')
    BY <1>0, <2>3 DEF Same, Orderly, Services
  <2> QED
    BY <1>9, <2>4, CommandStep DEF QueueChange, Commanded
<1> QED
  BY <1>1, <1>2, <1>3, <1>4, <1>5, <1>6, <1>7, <1>8, <1>9 DEF User

LEMMA UserTyped ==
  ASSUME AllInv, User
  PROVE  Typed'
<1>0. /\ monitor \in [Turn -> MonitorPc] /\ start \in [Task -> Beginnings] /\ QueueTyped
      /\ UNCHANGED <<eng, monitor, watchdog, pending>> /\ GoalInv /\ Typed
  BY DEF AllInv, Typed, HostTyped, User, Message, Compact, GoalCreate, GoalNext, Founded,
     GoalResume, GoalReopen, GoalBudget, Relaunches, Interrupt, GoalPause, GoalCancel,
     QueueChange, host, queues
<1>1. start' \in [Task -> Beginnings]
  <2>0. Client \subseteq Task
    BY Apart
  <2>1. ASSUME NEW c \in Client, NEW why \in Kinds, NEW goal \in GoalIds,
               Launched(c, Starting(why, goal))
        PROVE  start' \in [Task -> Beginnings]
    BY <1>0, <2>0, <2>1, StartingBegins, LaunchBegins
  <2>2. ASSUME NEW c \in Client, Message(c)
        PROVE  start' \in [Task -> Beginnings]
    BY <2>1, <2>2, NoGoalIsGoal DEF Message, Kinds
  <2>3. ASSUME NEW c \in Client, GoalCreate(c) \/ GoalNext(c)
        PROVE  start' \in [Task -> Beginnings]
    <3>1. ASSUME NEW why \in {"create", "next"}, Founded(c, why)
          PROVE  start' \in [Task -> Beginnings]
      BY <1>0, <2>1, <3>1, NextGoalIsNew DEF Founded, Kinds
    <3> QED
      BY <1>0, <2>3, <3>1 DEF GoalCreate, GoalNext, host
  <2>4. ASSUME NEW c \in Client, NEW after, Relaunches(c, after),
               after.goal.id \in {svc.goal.id, NextGoal}
        PROVE  start' \in [Task -> Beginnings]
    <3>1. svc.goal.id \in GoalIds
      BY <1>0 DEF GoalInv, Orderly, Services, Goal
    <3>2. after.goal.id \in GoalIds
      BY <1>0, <2>4, <3>1, NextGoalIsNew DEF Relaunches
    <3> QED
      BY <1>0, <2>1, <2>4, <3>2 DEF Relaunches, Kinds
  <2>5. ASSUME NEW c \in Client, GoalResume(c) \/ GoalReopen(c) \/ GoalBudget(c)
        PROVE  start' \in [Task -> Beginnings]
    <3>0. Orderly(svc) /\ Same(svc, svc)
      BY <1>0, SameAsBefore DEF GoalInv
    <3>1. CASE GoalResume(c)
      <4>1. Resumed(svc, NextGoal).goal.id \in {svc.goal.id, NextGoal}
        BY <1>0, <3>0, <3>1, AfterResume DEF GoalResume
      <4> QED
        BY <2>4, <3>1, <4>1 DEF GoalResume
    <3>2. CASE GoalReopen(c)
      <4>1. Reopened(svc, NextGoal).goal.id \in {svc.goal.id, NextGoal}
        BY <1>0, <3>0, <3>2, AfterResume DEF GoalReopen
      <4> QED
        BY <2>4, <3>2, <4>1 DEF GoalReopen
    <3>3. CASE GoalBudget(c)
      <4>1. CASE UNCHANGED host
        BY <1>0, <4>1 DEF host
      <4>2. CASE ~UNCHANGED host
        <5>1. PICK limit \in Limits : MayResume(BudgetSet(svc, limit))
                        /\ Relaunches(c, Resumed(BudgetSet(svc, limit), NextGoal))
          BY <3>3, <4>2 DEF GoalBudget, host
        <5> DEFINE s == BudgetSet(svc, limit)
        <5>2. /\ Same(svc, s)
              /\ \/ s.goal.status = svc.goal.status
                 \/ svc.goal.status = "active" /\ s.goal.status = "budget_limited"
          BY <3>0, BudgetSetKept
        <5> HIDE DEF s
        <5>3. Resumed(s, NextGoal).goal.id \in {svc.goal.id, NextGoal}
          BY <1>0, <5>1, <5>2, AfterResume DEF s
        <5> QED
          BY <2>4, <5>1, <5>3 DEF s
      <4> QED
        BY <4>1, <4>2
    <3> QED
      BY <2>5, <3>1, <3>2, <3>3
  <2>6. ASSUME NEW c \in Client, Compact(c)
        PROVE  start' \in [Task -> Beginnings]
    <3>1. NextTurn \in Turn
      BY <2>6, FreshIsTurn DEF Compact
    <3>2. [NoStart EXCEPT !.pc = "compact", !.turn = NextTurn] \in Beginnings
      <4>1. NoStart \in Begin /\ NoStart.why # "promote"
        BY NoStartBegins DEF Beginnings, NoStart
      <4> DEFINE st == [NoStart EXCEPT !.pc = "compact", !.turn = NextTurn]
      <4>2. st \in Begin /\ st.why = NoStart.why
        BY <3>1, <4>1 DEF Begin, StartPc
      <4> QED
        BY <4>1, <4>2 DEF Beginnings
    <3> QED
      BY <1>0, <2>6, <3>2 DEF Compact
  <2>7. CASE Interrupt \/ GoalPause \/ GoalCancel \/ QueueChange
    BY <1>0, <2>7 DEF Interrupt, GoalPause, GoalCancel, QueueChange, host
  <2> QED
    BY <2>2, <2>3, <2>5, <2>6, <2>7 DEF User
<1>2. cancel' \in BOOLEAN /\ ops' \in Seq(Sends \cup {Stop})
  <2>1. CASE Interrupt \/ GoalPause \/ GoalCancel
    BY <1>0, <2>1, CancelsTyped
    DEF Interrupt, GoalPause, GoalCancel, Interrupted, QueueTyped
  <2>2. CASE UNCHANGED <<cancel, ops>>
    BY <1>0, <2>2 DEF QueueTyped
  <2> QED
    BY <2>1, <2>2 DEF User, Message, Compact, GoalCreate, GoalNext, Founded,
     GoalResume, GoalReopen, GoalBudget, Relaunches, QueueChange, host, queues
<1> QED
  BY <1>0, <1>1, <1>2 DEF Typed, HostTyped, QueueTyped

LEMMA CompactedTyped ==
  ASSUME AllInv, NEW c \in Client, Compacted(c) \/ CompactionFails(c)
  PROVE  Typed' /\ GoalInv'
<1>1. UNCHANGED <<svc, meta, monitor, watchdog, queues, eng, seen>>
      /\ start' = [start EXCEPT ![c] = NoStart] /\ c \in Task
  BY Apart DEF Compacted, CompactionFails
<1>2. Typed'
  BY <1>1, NoStartBegins DEF AllInv, Typed, HostTyped, QueueTyped, queues
<1>3. GoalInv /\ left' \in Lefts /\ left'.items = left.items /\ left'.goals = left.goals
  BY FaultLeft DEF AllInv, GoalInv, Compacted, CompactionFails
<1>4. Elsewhere
  BY <1>1, <1>3, NothingElse
<1> QED
  BY <1>1, <1>2, <1>3, <1>4, GoalUnmoved

-----------------------------------------------------------------------------
(* The engine.                                                             *)

\* Steps of the engine that leave the goal, its notes and the history alone.
LEMMA EngineElsewhere ==
  ASSUME AllInv, UNCHANGED <<svc, meta, left, seen>>,
         eng'.pc = "run" => eng.pc = "run", Rests
  PROVE  GoalInv'
<1>1. Elsewhere
  BY DEF AllInv, GoalInv, Elsewhere
<1> QED
  BY <1>1, GoalUnmoved

LEMMA RestRests == Rest.pc = "idle" /\ [Rest EXCEPT !.pc = "tail"].pc = "tail"
                   /\ [Rest EXCEPT !.pc = "thrown"].pc = "thrown"
                   /\ ~[Rest EXCEPT !.pc = "tail"].auto /\ ~[Rest EXCEPT !.pc = "thrown"].auto
BY DEF Rest

LEMMA ModelStartsMoves ==
  ASSUME AllInv, ModelStarts
  PROVE  GoalInv'
<1> DEFINE begun == TurnStarted(svc)
<1>0. /\ GoalInv /\ Orderly(svc) /\ eng.pc = "prep" /\ eng \in Engines
      /\ svc' = [begun EXCEPT !.touched = FALSE] /\ UNCHANGED left
      /\ meta' = [meta EXCEPT !.id = begun.goal.id]
      /\ eng' = [eng EXCEPT !.pc = "run"]
  BY DEF ModelStarts, Live, AllInv, GoalInv, Typed
<1>1. /\ Same(svc, begun) /\ begun.promoted = svc.promoted
      /\ Active(begun) => /\ Active(svc)
                          /\ svc.goal.item # None =>
                               begun.goal.item = None /\ svc.goal.item \notin Range(begun.queue)
  BY <1>0, TurnStartedKept
<1>2. PICK items : /\ items = IF Active(begun) THEN (seen.begun \cup {svc.goal.item}) \ {None}
                              ELSE seen.begun
                   /\ seen' = [seen EXCEPT !.fresh = FALSE, !.idle = @ /\ eng.auto,
                                           !.begun = items]
  BY DEF ModelStarts
<1> HIDE DEF begun
<1>3. /\ svc'.goal = begun.goal /\ svc'.queue = begun.queue /\ svc'.promoted = begun.promoted
      /\ Orderly(svc')
  BY <1>0, <1>1 DEF Same, Orderly, Services
<1>4. meta' \in Metas /\ meta'.id = svc'.goal.id /\ meta'.id \in GoalIds
  <2>1. begun.goal.id \in GoalIds /\ meta \in Metas
    BY <1>0, <1>1 DEF Same, Orderly, Services, Goal, GoalInv
  <2>2. begun.goal.id \in 0..Unset
    BY <2>1, Numbers DEF GoalIds, Unset
  <2> QED
    BY <1>0, <1>3, <2>1, <2>2 DEF Metas
<1>5. ~(seen.idle /\ eng.auto)
  BY <1>0 DEF GoalInv, IdleRests
<1>6. /\ items \subseteq Range(Items) /\ items \subseteq seen.begun \cup {svc.goal.item}
      /\ None \notin items
      /\ Active(begun) \/ items = seen.begun
  BY <1>0, <1>2 DEF GoalInv, Histories, Sorted, Orderly, Services, Goal, ItemIds
<1>7. seen' \in Histories /\ ~seen'.idle /\ ~seen'.fresh /\ seen'.begun = items
  BY <1>0, <1>2, <1>5, <1>6 DEF GoalInv, Histories
<1>8. Numbered'
  <2>1. meta'.id # Unset /\ svc'.goal.id = svc.goal.id
    BY <1>1, <1>3, <1>4, Numbers DEF GoalIds, Unset, Same
  <2> QED
    BY <1>0, <1>1, <1>3, <1>4, <2>1 DEF GoalInv, Numbered, Used, Same
<1>9. Sorted'
  BY <1>0, <1>1, <1>3, <1>6, <1>7, ItemsAreNone DEF GoalInv, Sorted, Same
<1>10. IdleRests' /\ FreshIsOthers'
  BY <1>7 DEF IdleRests, FreshIsOthers
<1> QED
  BY <1>0, <1>3, <1>4, <1>7, <1>8, <1>9, <1>10 DEF GoalInv

LEMMA ModelUpdatesMoves ==
  ASSUME AllInv, ModelUpdatesGoal
  PROVE  GoalInv'
<1>0. /\ GoalInv /\ Orderly(svc) /\ eng.pc = "run" /\ ~Superseded /\ Active(svc)
      /\ UNCHANGED <<meta, eng, left, seen>>
  BY DEF ModelUpdatesGoal, Live, AllInv, GoalInv
<1>1. ~seen.idle /\ meta.id = svc.goal.id
  BY <1>0 DEF GoalInv, IdleRests, Numbered, Superseded
<1>2. CASE svc' = SetStatus(svc, "blocked", FALSE)
  <2>1. /\ "blocked" \in Status \ {"none", "complete"} /\ FALSE \in BOOLEAN
        /\ svc.goal.status \notin {"none", "complete"}
    BY <1>0 DEF Status, Active
  <2>2. Same(svc, SetStatus(svc, "blocked", FALSE))
    BY <1>0, <2>1, StatusKept
  <2>3. Elsewhere
    BY <1>0, NothingElse DEF GoalInv
  <2> QED
    BY <1>0, <1>1, <1>2, <2>2, <2>3, SameStep
<1>3. CASE svc' = Completed(svc)
  <2>1. /\ Orderly(svc') /\ svc'.goal.id = svc.goal.id /\ svc'.goal.item = svc.goal.item
        /\ svc'.goal.status = "complete" /\ svc'.queue = svc.queue
        /\ svc'.touched = svc.touched
    BY <1>0, <1>3, CompletedKept
  <2>2. Numbered'
    BY <1>0, <1>1, <2>1 DEF GoalInv, Numbered, Used, Active
  <2>3. Sorted' /\ IdleRests' /\ FreshIsOthers'
    BY <1>0, <1>1, <2>1 DEF GoalInv, Sorted, IdleRests, FreshIsOthers
  <2> QED
    BY <1>0, <2>1, <2>2, <2>3 DEF GoalInv
<1> QED
  BY <1>2, <1>3 DEF ModelUpdatesGoal

LEMMA GoalMadeLeft ==
  ASSUME GoalInv, left.goals > 0, left' = [left EXCEPT !.goals = @ - 1]
  PROVE  left' \in Lefts /\ left'.goals = left.goals - 1 /\ left'.items = left.items
BY NextGoalIsNew DEF GoalInv, Lefts

LEMMA ModelCreatesMoves ==
  ASSUME AllInv, ModelCreatesGoal
  PROVE  GoalInv'
<1> DEFINE r == Created(svc, NextGoal, None)
           q == [r EXCEPT !.touched = FALSE]
<1>0. /\ GoalInv /\ Orderly(svc) /\ eng.pc = "run" /\ ~Superseded /\ left.goals > 0
      /\ svc' = Adopted(q) /\ meta' = [meta EXCEPT !.id = NextGoal]
      /\ left' = [left EXCEPT !.goals = @ - 1]
      /\ UNCHANGED <<eng, seen>>
  BY DEF ModelCreatesGoal, Live, AllInv, GoalInv, NextGoal
<1>1. ~seen.idle /\ ~seen.fresh
  BY <1>0 DEF GoalInv, IdleRests, FreshIsOthers, Numbered, Superseded
<1>2. /\ Orderly(r) /\ r.goal.id = NextGoal /\ r.goal.status = "active"
      /\ r.goal.item = None /\ r.promoted = None /\ r.queue = svc.queue
  BY <1>0, NextGoalIsNew, NoGoalIsGoal, CreatedKept
<1> HIDE DEF r
<1>3. /\ Orderly(q) /\ q.goal.id = NextGoal /\ q.goal.status = "active"
      /\ q.goal.item = None /\ q.promoted = None /\ q.queue = svc.queue
  BY <1>2 DEF Orderly, Services
<1> HIDE DEF q
<1>4. /\ Orderly(svc') /\ svc'.goal.id = NextGoal /\ svc'.goal.status = "active"
      /\ svc'.goal.item = None /\ svc'.promoted = None /\ svc'.queue = svc.queue
  BY <1>0, <1>3, AdoptedKept DEF Same
<1>5. left' \in Lefts /\ left'.goals = left.goals - 1 /\ left'.items = left.items
  BY <1>0, GoalMadeLeft
<1>6. meta' \in Metas /\ meta'.id = NextGoal
  <2>1. NextGoal \in 0..Unset
    BY <1>0, NextGoalIsNew, Numbers DEF GoalIds, Unset
  <2> QED
    BY <1>0, <2>1 DEF GoalInv, Metas
<1>7. Numbered'
  BY <1>0, <1>4, <1>5, <1>6, NextGoalIsNew DEF GoalInv, Numbered, Used
<1>8. Sorted'
  BY <1>0, <1>4, <1>5, ItemsAreNone DEF GoalInv, Sorted
<1>9. IdleRests' /\ FreshIsOthers'
  BY <1>0, <1>1 DEF IdleRests, FreshIsOthers
<1> QED
  BY <1>0, <1>4, <1>5, <1>6, <1>7, <1>8, <1>9 DEF GoalInv

LEMMA ContinueNoted ==
  ASSUME GoalInv, NEW b \in BOOLEAN, meta' = [meta EXCEPT !.continue = b]
  PROVE  meta' \in Metas /\ meta'.id = meta.id
BY DEF GoalInv, Metas

LEMMA FinishesMoves ==
  ASSUME AllInv, NEW outcome, Finishes(outcome), eng'.pc # "run",
         ~(eng'.auto /\ eng'.pc = "prep")
  PROVE  GoalInv'
<1>0. GoalInv /\ Orderly(svc) /\ eng \in Engines /\ eng.auto \in BOOLEAN /\ eng.worked \in BOOLEAN
      /\ left \in Lefts /\ seen \in Histories /\ meta \in Metas
  BY DEF AllInv, GoalInv, Typed, Engines
<1>1. CASE Superseded
  <2>1. PICK b \in BOOLEAN : meta' = [meta EXCEPT !.continue = b]
    BY <1>0, <1>1 DEF Finishes, Metas
  <2>2. UNCHANGED <<svc, left, seen>>
    BY <1>1 DEF Finishes
  <2>3. Elsewhere
    BY <1>0, <2>1, <2>2, ContinueNoted DEF Elsewhere, Rests
  <2> QED
    BY <2>2, <2>3, GoalUnmoved
<1>2. CASE ~Superseded
  <2> DEFINE Ended(x) == TurnEnded(svc, outcome, eng.auto, eng.worked, x)
             Settled(x) == [Ended(x) EXCEPT !.promoted = None]
             idle == Active(svc) /\ eng.auto /\ ~eng.worked
             Fails(x) == /\ svc' = Settled(x) /\ outcome # "completed"
                         /\ UNCHANGED <<meta, left, seen>>
             Promoting(x) ==
               /\ outcome = "completed" /\ Consumed(Ended(x)) # None /\ left.goals > 0
               /\ seen' = [seen EXCEPT !.idle = idle]
               /\ svc' = Created(Settled(x), NextGoal, Consumed(Ended(x)))
               /\ meta' = [meta EXCEPT !.promote = [item |-> Consumed(Ended(x)),
                                                    goal |-> NextGoal]]
               /\ left' = [left EXCEPT !.goals = @ - 1]
             Ends(x) ==
               /\ outcome = "completed" /\ seen' = [seen EXCEPT !.idle = idle]
               /\ svc' = Settled(x) /\ UNCHANGED left
               /\ meta' = [meta EXCEPT !.continue = @ \/ Continuable(Ended(x))]
  <2>1. \E x : Fails(x) \/ Promoting(x) \/ Ends(x)
    <3>1. PICK x \in IF eng.auto THEN BOOLEAN ELSE {FALSE} :
            Fails(x) \/ Promoting(x) \/ Ends(x)
      BY <1>2, Zenon DEF Finishes, NextGoal
    <3> QED
      BY <3>1, Zenon
  <2>2. PICK x : Fails(x) \/ Promoting(x) \/ Ends(x)
    BY <2>1
  <2> DEFINE ended == Ended(x)
             settled == [ended EXCEPT !.promoted = None]
             item == Consumed(ended)
  <2>3. /\ Same(svc, ended) /\ ended.promoted = svc.promoted /\ ended.queue = svc.queue
        /\ Active(ended) => Active(svc) /\ outcome = "completed"
        /\ outcome = "completed" /\ eng.auto /\ ~eng.worked => ~Active(ended)
    BY <1>0, TurnEndedKept
  <2>4. /\ settled = Settled(x) /\ item = Consumed(Ended(x))
        /\ Continuable(Ended(x)) = Continuable(ended)
    OBVIOUS
  <2> HIDE DEF ended
  <2>5. Same(svc, settled) /\ settled.goal = ended.goal /\ settled.promoted = None
    <3>1. Orderly(ended)
      BY <2>3 DEF Same
    <3>2. Same(ended, settled) /\ settled.goal = ended.goal /\ settled.promoted = None
      BY <3>1, FieldsKept
    <3> QED
      BY <2>3, <3>2, SameIsTransitive
  <2>6. item \in Range(svc.queue) \cup {None} /\ item \in ItemIds
        /\ (item # None => ~Active(svc))
    <3>1. item # None => svc.promoted # None
      BY <2>3, ConsumedKept DEF Same
    <3> QED
      BY <1>0, <2>3, <3>1, ConsumedKept DEF Same, GoalInv, Numbered, Active
  <2>7. CASE Fails(x)
    <3>1. svc' = settled /\ ~Active(svc') /\ svc'.promoted = None
      BY <2>3, <2>4, <2>5, <2>7 DEF Active
    <3>2. Elsewhere
      BY <1>0, <2>7 DEF Elsewhere, Rests
    <3> QED
      BY <1>0, <2>5, <2>7, <3>1, <3>2, EndStep
  <2> HIDE DEF settled, item
  <2>8. CASE Ends(x)
    <3>1. svc' = settled /\ svc'.promoted = None /\ UNCHANGED left
      BY <2>4, <2>5, <2>8
    <3>2. idle => ~Active(svc')
      BY <2>3, <2>5, <2>8, <3>1 DEF Active
    <3>3. PICK b \in BOOLEAN : meta' = [meta EXCEPT !.continue = b]
      BY <1>0, <2>8 DEF Metas
    <3>4. seen' \in Histories /\ seen'.begun = seen.begun /\ seen'.fresh = seen.fresh
          /\ seen'.idle = idle
      BY <1>0, <2>8 DEF Histories
    <3>5. Elsewhere
      BY <1>0, <3>1, <3>3, <3>4, ContinueNoted DEF Elsewhere, Rests
    <3> QED
      BY <1>0, <2>5, <3>1, <3>2, <3>4, <3>5, EndStep
  <2>9. CASE Promoting(x)
    <3>1. /\ item # None /\ left.goals > 0 /\ svc' = Created(settled, NextGoal, item)
          /\ meta' = [meta EXCEPT !.promote = [item |-> item, goal |-> NextGoal]]
          /\ seen' = [seen EXCEPT !.idle = idle] /\ left' = [left EXCEPT !.goals = @ - 1]
      BY <2>4, <2>9
    <3>2. left' \in Lefts /\ left'.goals = left.goals - 1 /\ left'.items = left.items
      BY <1>0, <3>1, GoalMadeLeft
    <3>3. seen' \in Histories /\ seen'.begun = seen.begun /\ seen'.fresh = seen.fresh
          /\ ~seen'.idle
      BY <1>0, <2>6, <3>1 DEF Histories
    <3>4. meta' \in Metas /\ meta'.id = meta.id
      <4>1. [item |-> item, goal |-> NextGoal] \in Promotions
        BY <1>0, <2>6, <3>1, NextGoalIsNew DEF Promotions
      <4> QED
        BY <1>0, <3>1, <4>1 DEF Metas
    <3>5. Elsewhere
      BY <3>2, <3>3, <3>4 DEF Elsewhere, Rests
    <3>6. Same(Created(settled, NextGoal, item), svc')
      <4>1. Orderly(svc')
        BY <1>0, <2>5, <2>6, <3>1, NextGoalIsNew, CreatedKept DEF Same
      <4> QED
        BY <3>1, <4>1, SameAsBefore
    <3> QED
      BY <1>0, <2>5, <2>6, <3>1, <3>2, <3>3, <3>5, <3>6, CreatedStep
  <2> QED
    BY <2>2, <2>7, <2>8, <2>9
<1> QED
  BY <1>1, <1>2

LEMMA TakesMoves ==
  ASSUME AllInv, EngineTakes
  PROVE  GoalInv'
<1>0. UNCHANGED <<svc, meta, left, seen>> /\ GoalInv
  BY DEF EngineTakes, AllInv
<1>1. CASE OutOfDate(NextOp)
  <2>1. eng' = eng /\ Rests
    BY <1>0, <1>1 DEF EngineTakes, Rests, GoalInv, IdleRests
  <2> QED
    BY <1>0, <2>1, EngineElsewhere
<1>2. CASE ~OutOfDate(NextOp)
  <2>1. eng' = [Rest EXCEPT !.pc = "prep", !.turn = NextOp.turn, !.auto = NextOp.auto]
    BY <1>2 DEF EngineTakes
  <2>2. eng'.pc = "prep" /\ eng'.auto = NextOp.auto
    BY <2>1 DEF Rest
  <2>3. NextOp.auto => Active(svc)
    BY <1>2 DEF OutOfDate, Continuable
  <2>4. Rests
    BY <1>0, <2>2, <2>3 DEF Rests, GoalInv, IdleRests
  <2> QED
    BY <1>0, <2>2, <2>4, EngineElsewhere
<1> QED
  BY <1>1, <1>2

LEMMA EngineMovesGoals ==
  ASSUME AllInv, Engine
  PROVE  GoalInv'
<1>0. /\ GoalInv /\ Orderly(svc) /\ eng \in Engines /\ FALSE \in BOOLEAN
      /\ seen.idle => ~Active(svc) /\ eng.pc # "run" /\ ~(eng.auto /\ eng.pc = "prep")
  BY DEF AllInv, GoalInv, Typed, IdleRests
<1>1. CASE EngineTakes
  BY <1>1, TakesMoves
<1>2. CASE \/ EngineIgnoresStop \/ EngineDefers \/ EngineStops \/ ModelWorks
           \/ EngineReturns \/ Thrown \/ ModelEnds
  <2>1. UNCHANGED <<svc, meta, left, seen>>
    BY <1>2 DEF EngineIgnoresStop, EngineDefers, EngineStops, ModelWorks, EngineReturns, Thrown,
       ModelEnds
  <2>2. eng'.pc = "run" => eng.pc = "run"
    <3>1. CASE EngineIgnoresStop \/ EngineDefers \/ EngineStops \/ ModelWorks
      BY <1>0, <3>1 DEF EngineIgnoresStop, EngineDefers, EngineStops, ModelWorks, Engines
    <3>2. CASE EngineReturns \/ Thrown
      BY <3>2, RestRests DEF EngineReturns, Thrown
    <3>3. CASE ModelEnds
      BY <1>0, <3>3 DEF ModelEnds, Engines
    <3> QED
      BY <1>2, <3>1, <3>2, <3>3
  <2>3. eng'.pc = "prep" => eng'.auto = eng.auto /\ eng.pc = "prep"
    <3>1. CASE EngineIgnoresStop \/ EngineDefers \/ EngineStops \/ ModelWorks
      BY <1>0, <3>1 DEF EngineIgnoresStop, EngineDefers, EngineStops, ModelWorks, Engines
    <3>2. CASE EngineReturns \/ Thrown
      BY <3>2, RestRests DEF EngineReturns, Thrown
    <3>3. CASE ModelEnds
      BY <1>0, <3>3 DEF ModelEnds, Engines
    <3> QED
      BY <1>2, <3>1, <3>2, <3>3
  <2>4. Rests
    BY <1>0, <2>1, <2>2, <2>3 DEF Rests
  <2> QED
    BY <2>1, <2>2, <2>4, EngineElsewhere
<1>3. CASE PromptBlocked
  <2>1. UNCHANGED <<meta, left, seen>> /\ eng' = Rest
    BY <1>3 DEF PromptBlocked
  <2>2. Same(svc, svc') /\ (Active(svc') => Active(svc))
    <3>1. CASE Active(svc) /\ svc' = SetStatus(svc, "blocked", FALSE)
      <4>1. /\ "blocked" \in Status \ {"none", "complete"}
            /\ svc.goal.status \notin {"none", "complete"}
        BY <3>1 DEF Status, Active
      <4>2. Same(svc, SetStatus(svc, "blocked", FALSE))
        BY <1>0, <4>1, StatusKept
      <4> QED
        BY <3>1, <4>2
    <3>2. CASE svc' = svc
      BY <1>0, <3>2, SameAsBefore
    <3> QED
      BY <1>3, <3>1, <3>2 DEF PromptBlocked
  <2>3. Elsewhere
    BY <1>0, <2>1, RestRests DEF GoalInv, Elsewhere, Rests
  <2> QED
    BY <1>0, <2>1, <2>2, <2>3, SameStep
<1>4. CASE ModelStarts
  BY <1>4, ModelStartsMoves
<1>5. CASE GoalSpends
  <2> DEFINE q == [svc EXCEPT !.goal.spent = TRUE]
  <2>1. UNCHANGED <<meta, eng, left, seen>> /\ svc' = BudgetChecked(q, FALSE) /\ Active(svc)
    BY <1>5 DEF GoalSpends
  <2>2. Same(svc, q)
    BY <1>0, SpentKept
  <2> HIDE DEF q
  <2>3. Same(svc, svc')
    <3>1. Orderly(q)
      BY <2>2 DEF Same
    <3>2. Same(q, svc')
      BY <1>0, <2>1, <3>1, BudgetCheckedKept
    <3> QED
      BY <2>2, <3>2, SameIsTransitive
  <2>4. Elsewhere
    BY <1>0, <2>1, NothingElse DEF GoalInv
  <2> QED
    BY <1>0, <2>1, <2>3, <2>4, SameStep
<1>6. CASE ModelUpdatesGoal
  BY <1>6, ModelUpdatesMoves
<1>7. CASE ModelCreatesGoal
  BY <1>7, ModelCreatesMoves
<1>8. CASE TurnFinishes \/ ThrownFinishes
  <2>1. eng'.pc # "run" /\ ~(eng'.auto /\ eng'.pc = "prep")
    BY <1>8, RestRests DEF TurnFinishes, ThrownFinishes
  <2> QED
    BY <1>8, <2>1, FinishesMoves DEF TurnFinishes, ThrownFinishes
<1>9. CASE EngineFails
  <2> DEFINE ended == TurnEnded(svc, "failed", eng.auto, eng.worked, FALSE)
             settled == [ended EXCEPT !.promoted = None]
  <2>1. /\ eng' = Rest /\ UNCHANGED seen /\ Fault("error")
        /\ svc' = svc \/ svc' = settled
    BY <1>9 DEF EngineFails
  <2>2. PICK b \in BOOLEAN : meta' = [meta EXCEPT !.continue = b]
    BY <1>0, <1>9 DEF EngineFails, GoalInv, Metas
  <2>3. Same(svc, ended) /\ ~Active(ended)
    <3>1. eng.auto \in BOOLEAN /\ eng.worked \in BOOLEAN
      BY <1>0 DEF Engines
    <3>2. Same(svc, ended) /\ (Active(ended) => Active(svc) /\ "failed" = "completed")
      BY <1>0, <3>1, TurnEndedKept
    <3> QED
      BY <3>2
  <2> HIDE DEF ended
  <2>4. Same(svc, settled) /\ ~Active(settled)
    <3>1. Orderly(ended)
      BY <2>3 DEF Same
    <3>2. Same(ended, settled) /\ settled.goal = ended.goal
      BY <3>1, FieldsKept
    <3> QED
      BY <2>3, <3>2, SameIsTransitive DEF Active
  <2> HIDE DEF settled
  <2>5. Same(svc, svc') /\ (Active(svc') => Active(svc))
    BY <1>0, <2>1, <2>4, SameAsBefore
  <2>6. left' \in Lefts /\ left'.items = left.items /\ left'.goals = left.goals
    BY <1>0, <2>1, FaultLeft
  <2>7. Elsewhere
    BY <1>0, <2>1, <2>2, <2>6, ContinueNoted, RestRests DEF GoalInv, Elsewhere, Rests
  <2> QED
    BY <1>0, <2>1, <2>5, <2>6, <2>7, SameStep
<1> QED
  BY <1>1, <1>2, <1>3, <1>4, <1>5, <1>6, <1>7, <1>8, <1>9 DEF Engine

LEMMA InitTyped ==
  ASSUME Init
  PROVE  Typed /\ GoalInv
<1>1. HostTyped
  BY NoStartBegins DEF Init, HostTyped, MonitorPc, WatchdogPc
<1>2. QueueTyped /\ eng \in Engines
  <2>1. ops = <<>> /\ pending = <<>> /\ cancel = FALSE /\ eng = Rest
    BY DEF Init
  <2>2. Rest \in Engines
    BY DEF Rest, Engines
  <2>3. <<>> \in Seq(Sends \cup {Stop}) /\ <<>> \in Seq(Sends)
    OBVIOUS
  <2> QED
    BY <2>1, <2>2, <2>3 DEF QueueTyped
<1>3. PICK n \in Restored :
        /\ svc = [Service EXCEPT !.queue = SubSeq(Items, 1, n)]
        /\ left = [goals |-> MaxGoals, items |-> SubSeq(Items, n + 1, Len(Items)),
                   commands |-> MaxCommands, faults |-> MaxFaults]
  BY DEF Init
<1> DEFINE a == SubSeq(Items, 1, n)
           b == SubSeq(Items, n + 1, Len(Items))
<1>4. /\ a \in Seq(Range(Items)) /\ b \in Seq(Range(Items)) /\ IsInjective(a) /\ IsInjective(b)
      /\ Range(a) \cap Range(b) = {} /\ None \notin Range(b)
  BY Numbers, ItemsSplit, NoneIsNoItem
<1>5. svc = [Service EXCEPT !.queue = a] /\ left.items = b
  BY <1>3
<1> HIDE DEF a, b
<1>6. /\ Orderly(svc) /\ svc.goal = NoGoal /\ svc.promoted = None /\ svc.queue = a
  BY <1>4, <1>5, NoGoalIsGoal DEF Service, Orderly, Services
<1>7. left \in Lefts /\ left.goals = MaxGoals
  <2>1. left = [goals |-> MaxGoals, items |-> b, commands |-> MaxCommands,
                faults |-> MaxFaults]
    BY <1>3, <1>5
  <2>2. /\ MaxGoals \in 0..MaxGoals /\ MaxCommands \in 0..MaxCommands
        /\ MaxFaults \in 0..MaxFaults
    BY Numbers
  <2> QED
    BY <2>1, <2>2, <1>4 DEF Lefts
<1>8. /\ meta \in Metas /\ meta.id = Unset /\ seen \in Histories
      /\ ~seen.idle /\ ~seen.fresh /\ seen.begun = {} /\ eng.pc = "idle"
  BY NoGoalIsGoal, Numbers DEF Init, NoPromotion, Metas, Promotions, Unset, Histories, Rest
<1>9. Numbered
  BY <1>6, <1>7, <1>8, Numbers DEF Numbered, Used, NoGoal
<1>10. Sorted /\ IdleRests /\ FreshIsOthers
  BY <1>4, <1>5, <1>6, <1>8 DEF Sorted, IdleRests, FreshIsOthers, NoGoal
<1> QED
  BY <1>1, <1>2, <1>6, <1>7, <1>8, <1>9, <1>10 DEF Typed, GoalInv

LEMMA StutterKeeps ==
  ASSUME AllInv, UNCHANGED vars
  PROVE  Typed' /\ GoalInv'
<1>1. UNCHANGED <<svc, meta, monitor, watchdog, start, ops, pending, cancel, eng, left, seen>>
  BY DEF vars
<1>2. Elsewhere
  BY <1>1, NothingElse DEF AllInv, GoalInv
<1>3. Typed'
  BY <1>1 DEF AllInv, Typed, HostTyped, QueueTyped
<1> QED
  BY <1>1, <1>2, <1>3, GoalUnmoved

LEMMA AllInvStep ==
  ASSUME AllInv, [Next]_vars
  PROVE  Typed' /\ GoalInv'
<1>1. CASE TimeRunsOut
  <2>1. Typed'
    BY <1>1 DEF TimeRunsOut, AllInv, Typed, HostTyped, QueueTyped, host, queues
  <2> QED
    BY <1>1, <2>1, TimeMovesGoals
<1> QED
  BY <1>1, StutterKeeps, CompactedTyped, StartsTyped, StartsMoveGoals, MonitorsTyped,
     MonitorsMoveGoals, EngineTyped, EngineMovesGoals, UserTyped, UserMovesGoals DEF Next

\* The invariants of the thread and of its goal hold together.
THEOREM AllInvHolds == Spec => []AllInv
<1>1. Init => Typed /\ GoalInv
  BY InitTyped
<1>2. (Typed /\ GoalInv) /\ ThreadInv /\ [Next]_vars => (Typed /\ GoalInv)'
  BY AllInvStep DEF AllInv
<1>3. Typed /\ GoalInv /\ ThreadInv => AllInv
  BY DEF AllInv
<1> QED
  BY <1>1, <1>2, <1>3, ThreadInvHolds, PTL DEF Spec

\* The variables have their types: no operation reaches the engine without its turn, no
\* event is left untranslated, no goal or item comes from nowhere.
THEOREM TurnsTyped == Spec => []TypeOK
<1>1. AllInv => TypeOK
  <2> SUFFICES ASSUME AllInv PROVE TypeOK
    OBVIOUS
  <2>1. svc \in Services /\ left \in Lefts /\ seen \in Histories /\ eng \in Engines /\ QueueTyped
    BY DEF AllInv, GoalInv, Orderly, Typed
  <2>2. meta \in [id : 0..Unset, continue : BOOLEAN, promote : [item : ItemIds, goal : GoalIds]]
    BY DEF AllInv, GoalInv, Metas, Promotions
  <2>3. /\ monitor \in [Turn -> MonitorPc] /\ start \in [Task -> Begin]
        /\ watchdog \in [Turn -> WatchdogPc]
    BY DEF AllInv, Typed, HostTyped, Beginnings
  <2>4. /\ slot \in [turn : Turn \cup {None}, asked : BOOLEAN] /\ lease \in Task \cup {None}
        /\ record \in [Turn -> End \cup {"none", "in_progress"}] /\ result \in [Turn -> End]
        /\ events \in Seq(Kind)
    BY DEF AllInv, ThreadInv, Shape
  <2>5. /\ DOMAIN Outcome = Kind
        /\ End \cup {"none", "in_progress"}
             = {"none", "in_progress", "completed", "failed", "interrupted"}
        /\ End = {"completed", "failed", "interrupted"}
    BY DEF Outcome, Kind, End
  <2>6. events \in Seq(DOMAIN Outcome)
        /\ record \in [Turn -> {"none", "in_progress", "completed", "failed", "interrupted"}]
        /\ result \in [Turn -> {"completed", "failed", "interrupted"}]
    BY <2>4, <2>5
  <2> QED
    BY <2>1, <2>2, <2>3, <2>4, <2>6
    DEF TypeOK, Services, Goal, Lefts, Histories, Engines, QueueTyped, MonitorPc, WatchdogPc,
        Begin, StartPc
<1> QED
  BY <1>1, AllInvHolds, PTL

\* A continuation that did no work is not followed by another before the user has spoken.
THEOREM IdleLoopsEnd == Spec => []NoIdleLoop
<1>1. AllInv => NoIdleLoop
  BY DEF AllInv, GoalInv, IdleRests, NoIdleLoop
<1> QED
  BY <1>1, AllInvHolds, PTL

\* An item whose goal has begun a turn is off the queue and is not begun again, whether it
\* was promoted or resumed and however the queue was changed since.
THEOREM ItemsBeginOnce == Spec => []PromotedOnce
<1>1. AllInv => PromotedOnce
  BY DEF AllInv, GoalInv, Sorted, PromotedOnce
<1> QED
  BY <1>1, AllInvHolds, PTL

Sticks == seen.fresh /\ meta.id # Unset /\ Active(svc) /\ eng' # eng
            => svc'.goal.status # "paused"

LEMMA EngineSticks ==
  ASSUME AllInv, seen.fresh, meta.id # Unset, Active(svc), Engine
  PROVE  svc'.goal.status # "paused"
<1>0. Superseded /\ svc.goal.status = "active" /\ Orderly(svc) /\ eng \in Engines
  BY DEF AllInv, GoalInv, FreshIsOthers, Superseded, Active, Typed
<1>1. CASE TurnFinishes \/ ThrownFinishes \/ EngineFails
  BY <1>0, <1>1 DEF TurnFinishes, ThrownFinishes, Finishes, EngineFails
<1>2. CASE ModelStarts
  <2> DEFINE begun == TurnStarted(svc)
  <2>1. svc' = [begun EXCEPT !.touched = FALSE]
    BY <1>2 DEF ModelStarts
  <2>2. Same(svc, begun) /\ (begun.goal.status # "paused" \/ ~Active(svc))
    BY <1>0, TurnStartedKept
  <2> HIDE DEF begun
  <2>3. svc'.goal = begun.goal
    BY <2>1, <2>2 DEF Same, Orderly, Services
  <2> QED
    BY <2>2, <2>3
<1>3. CASE PromptBlocked \/ ModelUpdatesGoal
  <2>1. SetStatus(svc, "blocked", FALSE).goal.status = "blocked"
    BY <1>0 DEF SetStatus, Orderly, Services, Goal
  <2>2. Completed(svc).goal.status = "complete"
    BY <1>0, CompletedKept
  <2> QED
    BY <1>0, <1>3, <2>1, <2>2 DEF PromptBlocked, ModelUpdatesGoal
<1>4. CASE ModelCreatesGoal
  BY <1>0, <1>4 DEF ModelCreatesGoal
<1>5. CASE GoalSpends
  <2> DEFINE q == [svc EXCEPT !.goal.spent = TRUE]
  <2>1. Same(svc, q) /\ q.goal.status = "active" /\ svc' = BudgetChecked(q, FALSE)
    BY <1>0, <1>5, SpentKept DEF GoalSpends
  <2> HIDE DEF q
  <2>2. svc' = q \/ svc'.goal.status = "budget_limited"
    BY <2>1, BudgetCheckedKept DEF Same
  <2> QED
    BY <2>1, <2>2
<1>6. CASE \/ EngineTakes \/ EngineIgnoresStop \/ EngineDefers \/ EngineStops \/ ModelWorks
           \/ ModelEnds \/ EngineReturns \/ Thrown
  BY <1>0, <1>6 DEF EngineTakes, EngineIgnoresStop, EngineDefers, EngineStops, ModelWorks,
     ModelEnds, EngineReturns, Thrown
<1> QED
  BY <1>1, <1>2, <1>3, <1>4, <1>5, <1>6 DEF Engine

LEMMA OthersLeaveEngine ==
  ASSUME [Next]_vars, eng' # eng
  PROVE  Engine
<1>1. ASSUME NEW t \in Task, Starts(t)
      PROVE  eng' = eng
  BY <1>1 DEF Starts, Claims, Refused, Reserves, ReservationFails, GoalChanged,
     PreparationFails, StartFails, Unwinds, Dispatches, SetupFails
<1>2. ASSUME NEW u \in Turn, Monitors(u)
      PROVE  eng' = eng
  BY <1>2 DEF Monitors, Tends, MonitorTakes, TimesOut, IsAnswered, MonitorCrashes,
     MonitorDrains, MonitorCrashesLate, MonitorCloses, MonitorFrees, MonitorReleases, Continues
<1>3. CASE User
  BY <1>3 DEF User, Message, Compact, GoalCreate, GoalNext, Founded, GoalResume, GoalReopen,
     GoalBudget, Relaunches, Interrupt, GoalPause, GoalCancel, QueueChange
<1>4. CASE \/ TimeRunsOut \/ UNCHANGED vars
           \/ \E c \in Client : Compacted(c) \/ CompactionFails(c)
  BY <1>4 DEF TimeRunsOut, Compacted, CompactionFails, vars
<1> QED
  BY <1>1, <1>2, <1>3, <1>4 DEF Next

\* The end of a turn that began before the user resumed the goal does not pause it, unless
\* the thread has not had a turn yet.
THEOREM ResumesStick == Spec => UserResumeSticks
<1>1. AllInv /\ [Next]_vars => [Sticks]_vars
  BY EngineSticks, OthersLeaveEngine DEF Sticks
<1> QED
  BY <1>1, AllInvHolds, PTL DEF Spec, UserResumeSticks, Sticks
=============================================================================
