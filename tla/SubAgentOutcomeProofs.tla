------------------------ MODULE SubAgentOutcomeProofs ------------------------
(***************************************************************************)
(* What becomes of a run: a proof for any processes, agents and bounds.    *)
(*                                                                         *)
(* The end of a run passes through four places: the memory of the process, *)
(* its record, the mailbox and the view of the consumer.  Each may be      *)
(* behind, and any may be dropped.  The invariant says what the pairs of   *)
(* them still agree on: Agrees, of memory and record, which a failed write *)
(* leaves apart; Saved, that an outcome which is not on record will be     *)
(* written again, or a write has failed; Heard, of what is told and what   *)
(* is so, once the mailbox has not dropped what it needs; RunIsLatest,     *)
(* that a run that goes on is the latest, of this session, and has not     *)
(* ended.  That a run goes on in one process only (Lone) is shown first:   *)
(* that process holds its claim, or a shutdown has freed it while a caller *)
(* is about to finalize the run, and who starts one then has overtaken it. *)
(*                                                                         *)
(* The mailbox needs the last of its events about an agent, a maximum of   *)
(* indices.  That a finite set of numbers has one is shown from the well-  *)
(* foundedness of strict inclusion between its subsets.                    *)
(***************************************************************************)
EXTENDS SubAgentProofs, FiniteSetTheorems, SequenceTheorems, WellFoundedInduction

-----------------------------------------------------------------------------
(* Finite sets of numbers.                                                 *)

\* A minimal one of the sets of what lies beyond a member is empty.
LEMMA SomeLargest ==
  ASSUME NEW S \in SUBSET Nat, IsFiniteSet(S), S # {}
  PROVE  \E k \in S : \A j \in S : j <= k
<1> DEFINE Beyond(k) == {j \in S : j > k}
           T == {Beyond(k) : k \in S}
<1>1. IsWellFoundedOn(StrictSubsetOrdering(S), SUBSET S)
  BY FS_StrictSubsetOrderingWellFounded, FS_FiniteSubsetsOfFinite
<1>2. PICK U \in T : \A V \in T : <<V, U>> \notin StrictSubsetOrdering(S)
  <2>1. T \subseteq SUBSET S /\ T # {}
    OBVIOUS
  <2> HIDE DEF T
  <2> QED
    BY <1>1, <2>1, WFMin
<1>3. PICK k \in S : \A j \in S : <<Beyond(j), Beyond(k)>> \notin StrictSubsetOrdering(S)
  <2>1. PICK k \in S : U = Beyond(k)
    BY <1>2
  <2>2. \A j \in S : Beyond(j) \in T
    OBVIOUS
  <2> HIDE DEF T, Beyond
  <2> QED
    BY <1>2, <2>1, <2>2
<1>4. SUFFICES ASSUME NEW j \in S, j > k PROVE FALSE
  OBVIOUS
<1> HIDE DEF T
<1>5. Beyond(j) \subseteq Beyond(k) /\ j \in Beyond(k) /\ j \notin Beyond(j)
  <2>1. j \in Nat /\ k \in Nat /\ \A i \in S : i \in Nat
    OBVIOUS
  <2>2. ASSUME NEW i \in S, i > j
        PROVE  i > k
    BY <1>4, <2>1, <2>2
  <2>3. Beyond(j) \subseteq Beyond(k)
    BY <2>2
  <2>4. j \in Beyond(k) /\ j \notin Beyond(j)
    BY <1>4, <2>1
  <2> QED
    BY <2>3, <2>4
<1>6. <<Beyond(j), Beyond(k)>> \in StrictSubsetOrdering(S)
  <2>1. Beyond(j) \in SUBSET S /\ Beyond(k) \in SUBSET S /\ Beyond(j) # Beyond(k)
    BY <1>5
  <2> HIDE DEF Beyond
  <2> QED
    BY <1>5, <2>1 DEF StrictSubsetOrdering
<1> QED
  BY <1>3, <1>6

LEMMA SomeSmallest ==
  ASSUME NEW S \in SUBSET Nat, IsFiniteSet(S), S # {}
  PROVE  \E k \in S : \A j \in S : k <= j
<1> DEFINE Below(k) == {j \in S : j < k}
           T == {Below(k) : k \in S}
<1>1. IsWellFoundedOn(StrictSubsetOrdering(S), SUBSET S)
  BY FS_StrictSubsetOrderingWellFounded, FS_FiniteSubsetsOfFinite
<1>2. PICK U \in T : \A V \in T : <<V, U>> \notin StrictSubsetOrdering(S)
  <2>1. T \subseteq SUBSET S /\ T # {}
    OBVIOUS
  <2> HIDE DEF T
  <2> QED
    BY <1>1, <2>1, WFMin
<1>3. PICK k \in S : \A j \in S : <<Below(j), Below(k)>> \notin StrictSubsetOrdering(S)
  <2>1. PICK k \in S : U = Below(k)
    BY <1>2
  <2>2. \A j \in S : Below(j) \in T
    OBVIOUS
  <2> HIDE DEF T, Below
  <2> QED
    BY <1>2, <2>1, <2>2
<1>4. SUFFICES ASSUME NEW j \in S, j < k PROVE FALSE
  OBVIOUS
<1> HIDE DEF T
<1>5. Below(j) \subseteq Below(k) /\ j \in Below(k) /\ j \notin Below(j)
  <2>1. j \in Nat /\ k \in Nat /\ \A i \in S : i \in Nat
    OBVIOUS
  <2>2. ASSUME NEW i \in S, i < j
        PROVE  i < k
    BY <1>4, <2>1, <2>2
  <2>3. Below(j) \subseteq Below(k)
    BY <2>2
  <2>4. j \in Below(k) /\ j \notin Below(j)
    BY <1>4, <2>1
  <2> QED
    BY <2>3, <2>4
<1>6. <<Below(j), Below(k)>> \in StrictSubsetOrdering(S)
  <2>1. Below(j) \in SUBSET S /\ Below(k) \in SUBSET S /\ Below(j) # Below(k)
    BY <1>5
  <2> HIDE DEF Below
  <2> QED
    BY <1>5, <2>1 DEF StrictSubsetOrdering
<1> QED
  BY <1>3, <1>6

-----------------------------------------------------------------------------
(* The mailbox.                                                            *)

Message == [agent : Agent, kind : Kind]
About(q, a) == {i \in DOMAIN q : q[i].agent = a /\ q[i].kind \in LifeKind}

LEMMA LatestIs ==
  ASSUME NEW q \in Seq(Message), NEW a, NEW before, NEW k \in About(q, a),
         \A j \in About(q, a) : j <= k
  PROVE  Latest(q, a, before) = q[k].kind
<1>1. About(q, a) \subseteq Nat
  BY DEF About
<1>2. \A i \in About(q, a) : (\A j \in About(q, a) : j <= i) => i = k
  BY <1>1
<1>3. (CHOOSE i \in About(q, a) : \A j \in About(q, a) : j <= i) = k
  BY <1>2
<1> QED
  BY <1>3 DEF Latest, About

LEMMA LatestIsBefore ==
  ASSUME NEW q, NEW a, NEW before, About(q, a) = {}
  PROVE  Latest(q, a, before) = before
BY DEF Latest, About

LEMMA LastAbout ==
  ASSUME NEW q \in Seq(Message), NEW a, About(q, a) # {}
  PROVE  \E k \in About(q, a) : \A j \in About(q, a) : j <= k
<1>1. DOMAIN q = 1..Len(q) /\ Len(q) \in Nat
  OBVIOUS
<1>2. About(q, a) \in SUBSET Nat /\ About(q, a) \subseteq 1..Len(q)
  BY <1>1 DEF About
<1>3. IsFiniteSet(About(q, a))
  <2>1. IsFiniteSet(1..Len(q))
    BY <1>1, FS_Interval
  <2> QED
    BY <1>2, <2>1, FS_Subset
<1> QED
  BY <1>2, <1>3, SomeLargest

LEMMA LatestOfAppend ==
  ASSUME NEW q \in Seq(Message), NEW m \in Message, NEW a, NEW before
  PROVE  Latest(Append(q, m), a, before) =
           IF m.agent = a /\ m.kind \in LifeKind THEN m.kind ELSE Latest(q, a, before)
<1> DEFINE r == Append(q, m)
<1>1. /\ r \in Seq(Message) /\ DOMAIN r = 1..(Len(q) + 1) /\ DOMAIN q = 1..Len(q)
      /\ Len(q) \in Nat /\ r[Len(q) + 1] = m /\ \A i \in 1..Len(q) : r[i] = q[i]
  OBVIOUS
<1> HIDE DEF r
<1>2. CASE m.agent = a /\ m.kind \in LifeKind
  <2>1. Len(q) + 1 \in About(r, a) /\ \A j \in About(r, a) : j <= Len(q) + 1
    BY <1>1, <1>2 DEF About
  <2>2. Latest(r, a, before) = m.kind
    BY <1>1, <2>1, LatestIs
  <2> QED
    BY <1>2, <2>2 DEF r
<1>3. CASE ~(m.agent = a /\ m.kind \in LifeKind)
  <2>1. About(r, a) = About(q, a)
    BY <1>1, <1>3 DEF About
  <2>2. CASE About(q, a) = {}
    BY <1>3, <2>1, <2>2, LatestIsBefore DEF r
  <2>3. CASE About(q, a) # {}
    <3>1. PICK k \in About(q, a) : \A j \in About(q, a) : j <= k
      BY <2>3, LastAbout
    <3>2. Latest(q, a, before) = q[k].kind /\ Latest(r, a, before) = r[k].kind
      BY <1>1, <2>1, <3>1, LatestIs
    <3>3. r[k] = q[k]
      BY <1>1, <3>1 DEF About
    <3> QED
      BY <1>3, <3>2, <3>3 DEF r
  <2> QED
    BY <2>2, <2>3
<1> QED
  BY <1>2, <1>3

LEMMA WithoutIs ==
  ASSUME NEW q \in Seq(Message), NEW i \in 1..Len(q)
  PROVE  /\ Without(q, i) \in Seq(Message) /\ Len(Without(q, i)) = Len(q) - 1
         /\ \A j \in 1..(Len(q) - 1) : Without(q, i)[j] = IF j < i THEN q[j] ELSE q[j + 1]
<1> DEFINE s == SubSeq(q, 1, i - 1)
           t == SubSeq(q, i + 1, Len(q))
<1>1. Len(q) \in Nat /\ i \in Nat /\ i >= 1 /\ i <= Len(q)
  OBVIOUS
<1>2. s \in Seq(Message) /\ Len(s) = i - 1 /\ \A j \in 1..(i - 1) : s[j] = q[j]
  BY <1>1, SubSeqProperties
<1>3. /\ t \in Seq(Message) /\ Len(t) = Len(q) - i
      /\ \A j \in 1..(Len(q) - i) : t[j] = q[i + j]
  BY <1>1, SubSeqProperties
<1> HIDE DEF s, t
<1>4. /\ s \o t \in Seq(Message) /\ Len(s \o t) = Len(s) + Len(t)
      /\ \A j \in 1..(Len(s) + Len(t)) :
           (s \o t)[j] = IF j <= Len(s) THEN s[j] ELSE t[j - Len(s)]
  BY <1>2, <1>3, ConcatProperties
<1>5. Len(s \o t) = Len(q) - 1
  BY <1>1, <1>2, <1>3, <1>4
<1>6. ASSUME NEW j \in 1..(Len(q) - 1)
      PROVE  (s \o t)[j] = IF j < i THEN q[j] ELSE q[j + 1]
  <2>0. j \in Nat /\ j >= 1 /\ j <= Len(q) - 1 /\ j \in 1..(Len(s) + Len(t))
    BY <1>1, <1>2, <1>3
  <2>1. CASE j < i
    BY <1>1, <1>2, <1>4, <2>0, <2>1
  <2>2. CASE j >= i
    <3> DEFINE n == j - (i - 1)
    <3>1. n \in 1..(Len(q) - i) /\ i + n = j + 1 /\ n = j - Len(s) /\ ~(j <= Len(s))
      BY <1>1, <1>2, <2>0, <2>2
    <3> HIDE DEF n
    <3>2. (s \o t)[j] = t[n] /\ t[n] = q[i + n]
      BY <1>3, <1>4, <2>0, <3>1
    <3> QED
      BY <1>1, <2>0, <2>2, <3>1, <3>2
  <2> QED
    BY <1>1, <2>0, <2>1, <2>2
<1> QED
  BY <1>4, <1>5, <1>6 DEF Without, s, t

\* What is dropped from the middle of the queue is no end and no start.
LEMMA LatestOfWithout ==
  ASSUME NEW q \in Seq(Message), NEW i \in 1..Len(q), Disposable(q[i]), NEW a, NEW before
  PROVE  Latest(Without(q, i), a, before) = Latest(q, a, before)
<1> DEFINE r == Without(q, i)
<1>1. /\ r \in Seq(Message) /\ DOMAIN r = 1..(Len(q) - 1) /\ DOMAIN q = 1..Len(q)
      /\ Len(q) \in Nat /\ \A j \in 1..(Len(q) - 1) : r[j] = IF j < i THEN q[j] ELSE q[j + 1]
  BY WithoutIs
<1> HIDE DEF r
<1>2. i \notin About(q, a)
  BY DEF About, Disposable, LifeKind
<1>3. ASSUME NEW j \in About(r, a)
      PROVE  j \in Nat /\ (IF j < i THEN j ELSE j + 1) \in About(q, a)
  BY <1>1, <1>3 DEF About
<1>4. CASE About(q, a) = {}
  <2>1. About(r, a) = {}
    BY <1>3, <1>4
  <2> QED
    BY <1>4, <2>1, LatestIsBefore DEF r
<1>5. CASE About(q, a) # {}
  <2>1. PICK k \in About(q, a) : \A j \in About(q, a) : j <= k
    BY <1>5, LastAbout
  <2> DEFINE n == IF k < i THEN k ELSE k - 1
  <2>2. k \in 1..Len(q) /\ k # i
    BY <1>1, <1>2, <2>1 DEF About
  <2>3. n \in 1..(Len(q) - 1) /\ r[n] = q[k]
    BY <1>1, <2>2
  <2>4. n \in About(r, a)
    BY <1>1, <2>1, <2>3 DEF About
  <2>5. ASSUME NEW j \in About(r, a)
        PROVE  j <= n
    BY <1>3, <2>1, <2>2
  <2> HIDE DEF n
  <2>6. Latest(r, a, before) = r[n].kind
    BY <1>1, <2>4, <2>5, LatestIs
  <2> QED
    BY <2>1, <2>3, <2>6, LatestIs DEF r
<1> QED
  BY <1>4, <1>5

Boxes == [queue : Seq(Message), resync : BOOLEAN]
Fits(bx) == Len(bx.queue) <= Capacity

\* A full queue makes room; unless that costs a snapshot, the last that was said
\* of an agent is still there, or is the new event.
LEMMA SentEffect ==
  ASSUME NEW bx \in Boxes, Fits(bx), NEW m \in Message, NEW r, r = Sent(bx, m)
  PROVE  /\ r \in Boxes /\ Fits(r) /\ (bx.resync => r.resync)
         /\ ~r.resync => \A a, before :
              Latest(r.queue, a, before) =
                IF m.agent = a /\ m.kind \in LifeKind THEN m.kind
                ELSE Latest(bx.queue, a, before)
<1> DEFINE q == bx.queue
           victims == {i \in DOMAIN q : Disposable(q[i])}
<1>1. q \in Seq(Message) /\ bx.resync \in BOOLEAN /\ Len(q) \in Nat /\ DOMAIN q = 1..Len(q)
  BY DEF Boxes
<1>2. Capacity \in Nat /\ Capacity >= 1 /\ Len(q) <= Capacity
  BY CapacityAssumption DEF Fits
<1>3. CASE Len(q) < Capacity
  <2>1. r = [bx EXCEPT !.queue = Append(q, m)]
    BY <1>3 DEF Sent
  <2>2. r \in Boxes /\ r.queue = Append(q, m) /\ r.resync = bx.resync
    <3> DEFINE s == Append(q, m)
    <3>1. s \in Seq(Message) /\ r = [bx EXCEPT !.queue = s]
      BY <1>1, <2>1
    <3> HIDE DEF s
    <3>2. r \in Boxes /\ r.queue = s /\ r.resync = bx.resync
      BY <3>1 DEF Boxes
    <3> QED
      BY <3>2 DEF s
  <2>3. Len(Append(q, m)) = Len(q) + 1
    BY <1>1
  <2>4. Fits(r)
    BY <1>1, <1>2, <1>3, <2>2, <2>3 DEF Fits
  <2> QED
    BY <1>1, <2>2, <2>4, LatestOfAppend
<1>4. CASE Len(q) >= Capacity /\ victims # {}
  <2>1. PICK i \in victims : \A k \in victims : i <= k
    <3>1. victims \in SUBSET Nat /\ victims \subseteq 1..Len(q)
      BY <1>1
    <3>2. IsFiniteSet(victims)
      <4>1. IsFiniteSet(1..Len(q))
        BY <1>1, FS_Interval
      <4> HIDE DEF victims
      <4> QED
        BY <3>1, <4>1, FS_Subset
    <3> HIDE DEF victims
    <3> QED
      BY <1>4, <3>1, <3>2, SomeSmallest
  <2> DEFINE first == CHOOSE j \in victims : \A k \in victims : j <= k
  <2>2. first \in victims
    BY <2>1
  <2>3. r = [bx EXCEPT !.queue = Append(Without(q, first), m)]
    BY <1>1, <1>2, <1>4 DEF Sent
  <2> HIDE DEF first
  <2>4. first \in 1..Len(q) /\ Disposable(q[first])
    BY <1>1, <2>2
  <2>5. Without(q, first) \in Seq(Message) /\ Len(Without(q, first)) = Len(q) - 1
    BY <1>1, <2>4, WithoutIs
  <2>6. /\ r \in Boxes /\ r.queue = Append(Without(q, first), m) /\ r.resync = bx.resync
        /\ Len(r.queue) = Len(q)
    <3> DEFINE s == Append(Without(q, first), m)
    <3>1. s \in Seq(Message) /\ Len(s) = Len(Without(q, first)) + 1
      BY <2>5
    <3>2. r = [bx EXCEPT !.queue = s]
      BY <2>3
    <3> HIDE DEF s
    <3>3. r \in Boxes /\ r.queue = s /\ r.resync = bx.resync
      BY <3>1, <3>2 DEF Boxes
    <3> QED
      BY <1>1, <2>5, <3>1, <3>3 DEF s
  <2>7. \A a, before : Latest(r.queue, a, before) =
          IF m.agent = a /\ m.kind \in LifeKind THEN m.kind ELSE Latest(q, a, before)
    BY <1>1, <2>4, <2>5, <2>6, LatestOfAppend, LatestOfWithout
  <2> QED
    BY <1>2, <2>6, <2>7 DEF Fits
<1>5. CASE Len(q) >= Capacity /\ victims = {} /\ Disposable(m)
  <2>1. r = bx
    BY <1>1, <1>2, <1>5 DEF Sent
  <2>2. m.kind \notin LifeKind
    BY <1>5 DEF Disposable, LifeKind
  <2> QED
    BY <2>1, <2>2
<1>6. CASE Len(q) >= Capacity /\ victims = {} /\ ~Disposable(m)
  <2>1. r = [queue |-> Append(Tail(q), m), resync |-> TRUE]
    BY <1>1, <1>2, <1>6 DEF Sent
  <2>2. q # <<>>
    BY <1>1, <1>2, <1>6
  <2>3. Tail(q) \in Seq(Message) /\ Len(Tail(q)) = Len(q) - 1
    BY <1>1, <2>2, HeadTailProperties
  <2>4. Append(Tail(q), m) \in Seq(Message) /\ Len(Append(Tail(q), m)) = Len(q)
    BY <1>1, <2>3
  <2> QED
    BY <1>2, <2>1, <2>4 DEF Boxes, Fits
<1> QED
  BY <1>1, <1>2, <1>3, <1>4, <1>5, <1>6

-----------------------------------------------------------------------------
(* What is said of an agent in one process.                                *)

Outcome == {"completed", "failed", "cancelled"}
Real == Terminal \cup {"running"}
Memories ==
  {NoAgent} \cup [status : Real, run : Nat, mine : BOOLEAN, token : BOOLEAN, closing : BOOLEAN]
Papers == {NoRecord} \cup [status : Real, run : Nat, mine : BOOLEAN]

\* The agent that memory x and record r make up.
What(x, r) == IF x # NoAgent THEN x ELSE Restored(r)

\* Memory x and record r of an agent that had n runs, the end of whose latest was
\* reported e times.  The record may be behind; of the same run it tells no other
\* outcome, and what can be restored from it has been reported.
Agrees(x, r, n, e, late) ==
  /\ x \in Memories /\ r \in Papers /\ x.run <= n /\ r.run <= n
  /\ ~late =>
       /\ x # NoAgent =>
            /\ r.run <= x.run
            /\ r.run = x.run => /\ r.mine => x.mine
                                /\ r.status \in Outcome => r.status = x.status
       /\ What(x, r).mine /\ What(x, r).run = n /\ What(x, r).status # "running" => e # 0

\* What the consumer has heard, when the mailbox has dropped nothing it needs.
Heard(x, r, n, late, last) ==
  ~late /\ What(x, r).mine /\ What(x, r).run = n /\ What(x, r).status # "interrupted" =>
    last = Told(What(x, r).status)

Fields == [status : Real \cup {"none"}, run : Nat, mine : BOOLEAN, token : BOOLEAN,
           closing : BOOLEAN]

LEMMA NoAgentFields ==
  /\ NoAgent \in Fields /\ NoAgent.status = "none" /\ NoAgent.run = 0
  /\ ~NoAgent.mine /\ ~NoAgent.token /\ ~NoAgent.closing
BY DEF NoAgent, Fields

LEMMA PaperRestored ==
  ASSUME NEW r \in Papers
  PROVE  /\ Restored(r) \in Memories /\ Restored(r).run = r.run /\ Restored(r).mine = r.mine
         /\ Restored(r).status # "running" /\ ~Restored(r).token
         /\ Restored(r) = NoAgent <=> r = NoRecord
         /\ r # NoRecord => Restored(r).status \in Terminal
         /\ Restored(r).status = IF r.status = "running" THEN "interrupted" ELSE r.status
<1> DEFINE y == Restored(r)
           st == IF r.status = "running" THEN "interrupted" ELSE r.status
<1>1. /\ r.status \in Real \cup {"none"} /\ r.run \in Nat /\ r.mine \in BOOLEAN
      /\ r.status = "none" <=> r = NoRecord
      /\ r = NoRecord => r.run = 0 /\ ~r.mine
  <2>1. CASE r = NoRecord
    BY <2>1 DEF NoRecord
  <2>2. CASE r # NoRecord
    BY <2>2 DEF Papers, Real, Terminal
  <2> QED
    BY <2>1, <2>2
<1>2. st \in Terminal \cup {"none"} /\ (st = "none" <=> r = NoRecord)
  BY <1>1 DEF Real, Terminal
<1> HIDE DEF st
<1>3. y = [NoAgent EXCEPT !.status = st, !.run = r.run, !.mine = r.mine]
  BY DEF Restored, st
<1>4. /\ y \in Fields /\ y.status = st /\ y.run = r.run /\ y.mine = r.mine
      /\ ~y.token /\ ~y.closing
  BY <1>1, <1>2, <1>3, NoAgentFields DEF Fields, Real
<1> HIDE DEF y
<1>5. y = NoAgent <=> r = NoRecord
  <2>1. ASSUME r = NoRecord
        PROVE  y = NoAgent
    BY <1>1, <1>2, <1>4, <2>1, NoAgentFields DEF Fields
  <2> QED
    BY <1>2, <1>4, <2>1, NoAgentFields
<1>6. y \in Memories
  <2>1. r # NoRecord => y.status \in Real
    BY <1>2, <1>4 DEF Real
  <2> QED
    BY <1>4, <1>5, <2>1 DEF Memories, Fields
<1>7. st # "running"
  BY <1>2 DEF Terminal
<1> QED
  BY <1>2, <1>4, <1>5, <1>6, <1>7 DEF y, st

LEMMA MemoryRaw ==
  ASSUME NEW x \in Memories, x # NoAgent
  PROVE  /\ x.status \in Real /\ x.run \in Nat /\ x.mine \in BOOLEAN /\ x.token \in BOOLEAN
         /\ Raw(x) \in Papers /\ Raw(x) # NoRecord
         /\ Raw(x).status = x.status /\ Raw(x).run = x.run /\ Raw(x).mine = x.mine
BY DEF Memories, Raw, Papers, Real, Terminal, NoRecord

LEMMA NobodyAgrees ==
  ASSUME NEW n \in Nat, NEW e, NEW late, NEW r \in Papers, r.run <= n,
         ~late /\ r.mine /\ r.run = n => e # 0
  PROVE  Agrees(NoAgent, r, n, e, late)
<1>1. NoAgent \in Memories /\ NoAgent.run = 0
  BY DEF Memories, NoAgent
<1> QED
  BY <1>1, PaperRestored DEF Agrees, What

\* Restored from its record, or marked as cancelled or closing, an agent is what it was.
LEMMA RenewedAgrees ==
  ASSUME NEW x, NEW r, NEW n, NEW e, NEW late, Agrees(x, r, n, e, late),
         NEW y \in Memories, y = x \/ (y # NoAgent /\ Raw(y) = Raw(What(x, r)))
  PROVE  /\ Agrees(y, r, n, e, late)
         /\ \A last : Heard(x, r, n, late, last) => Heard(y, r, n, late, last)
         /\ What(y, r).status = What(x, r).status
<1>1. CASE y = x
  BY <1>1
<1>2. CASE y # NoAgent /\ Raw(y) = Raw(What(x, r))
  <2>1. r \in Papers /\ x \in Memories
    BY DEF Agrees
  <2>2. What(y, r) = y
    BY <1>2 DEF What
  <2>3. /\ y.status = What(x, r).status /\ y.run = What(x, r).run /\ y.mine = What(x, r).mine
    BY <1>2 DEF Raw
  <2>4. CASE x # NoAgent
    <3>1. What(x, r) = x
      BY <2>4 DEF What
    <3> QED
      BY <2>2, <2>3, <2>4, <3>1 DEF Agrees, Heard
  <2>5. CASE x = NoAgent
    <3>1. What(x, r) = Restored(r)
      BY <2>5 DEF What
    <3>2. y.run = r.run /\ y.mine = r.mine /\ (r.status \in Outcome => y.status = r.status)
      BY <2>1, <2>3, <3>1, PaperRestored DEF Outcome
    <3>3. r.run \in Nat
      BY <2>1 DEF Papers, NoRecord
    <3> QED
      BY <2>1, <2>2, <2>3, <3>1, <3>2, <3>3 DEF Agrees, Heard
  <2> QED
    BY <2>4, <2>5
<1> QED
  BY <1>1, <1>2

\* So it is when its record is written, ...
LEMMA WrittenAgrees ==
  ASSUME NEW x, NEW r, NEW n, NEW e, NEW late, Agrees(x, r, n, e, late), x # NoAgent
  PROVE  /\ Agrees(x, Raw(x), n, e, late)
         /\ \A last : Heard(x, r, n, late, last) => Heard(x, Raw(x), n, late, last)
<1>1. x \in Memories /\ x.run <= n /\ What(x, r) = x /\ What(x, Raw(x)) = x
  BY DEF Agrees, What
<1> QED
  BY <1>1, MemoryRaw DEF Agrees, Heard

\* ... and when a terminal agent is evicted.
LEMMA EvictedAgrees ==
  ASSUME NEW x, NEW r, NEW n \in Nat, NEW e, NEW late, Agrees(x, r, n, e, late),
         x.status \in Terminal
  PROVE  /\ Agrees(NoAgent, r, n, e, late)
         /\ \A last : Heard(x, r, n, late, last) => Heard(NoAgent, r, n, late, last)
<1>1. x # NoAgent /\ x.status # "running"
  BY DEF NoAgent, Terminal
<1>2. x \in Memories /\ r \in Papers /\ What(x, r) = x /\ What(NoAgent, r) = Restored(r)
  BY <1>1 DEF Agrees, What
<1>3. r.run \in Nat /\ x.run \in Nat
  BY <1>1, <1>2, MemoryRaw DEF Papers, NoRecord
<1>4. ~late /\ r.mine /\ r.run = n => /\ x.run = n /\ x.mine
                                      /\ r.status \in Outcome => r.status = x.status
  BY <1>1, <1>3 DEF Agrees
<1>5. Agrees(NoAgent, r, n, e, late)
  <2>1. ~late /\ r.mine /\ r.run = n => e # 0
    BY <1>1, <1>2, <1>4 DEF Agrees
  <2>2. r.run <= n
    BY DEF Agrees
  <2> QED
    BY <1>2, <2>1, <2>2, NobodyAgrees
<1>6. ASSUME NEW last, Heard(x, r, n, late, last)
      PROVE  Heard(NoAgent, r, n, late, last)
  <2>1. SUFFICES ASSUME ~late, r.mine, r.run = n, Restored(r).status # "interrupted"
                 PROVE  last = Told(Restored(r).status)
    BY <1>2, PaperRestored DEF Heard
  <2>2. r # NoRecord
    BY <2>1 DEF NoRecord
  <2>3. Restored(r).status = r.status /\ r.status \in Outcome
    BY <1>2, <2>1, <2>2, PaperRestored DEF Outcome, Terminal
  <2>4. x.run = n /\ x.mine /\ x.status = r.status
    BY <1>4, <2>1, <2>3
  <2>5. last = Told(x.status)
    BY <1>1, <1>2, <1>6, <2>1, <2>3, <2>4 DEF Heard, Outcome
  <2> QED
    BY <2>3, <2>4, <2>5
<1> QED
  BY <1>5, <1>6

\* The end of a run that was going on, or one under a cancel of an earlier run.
LEMMA EndedAgrees ==
  ASSUME NEW x, NEW r, NEW n \in Nat, NEW e \in Nat, NEW late, Agrees(x, r, n, e, late),
         late \/ x.status = "running", NEW s \in Outcome
  PROVE  /\ Agrees(Ended(x, s), r, n, e + 1, late)
         /\ Ended(x, s).status = s /\ Ended(x, s) # NoAgent /\ Ended(x, s) \in Memories
         /\ Heard(Ended(x, s), r, n, late, s)
<1> DEFINE y == Ended(x, s)
<1>1. x \in Memories /\ r \in Papers
  BY DEF Agrees
<1>2. /\ y \in Memories /\ y.status = s /\ y.run = x.run /\ y.mine = x.mine /\ y # NoAgent
  <2>1. x \in Fields
    BY <1>1, NoAgentFields DEF Memories, Fields
  <2>2. /\ y \in [status : Real, run : Nat, mine : BOOLEAN, token : BOOLEAN, closing : BOOLEAN]
        /\ y.status = s /\ y.run = x.run /\ y.mine = x.mine
    BY <2>1 DEF Ended, Fields, Real, Terminal, Outcome
  <2>3. s # "none"
    BY DEF Outcome
  <2> QED
    BY <2>2, <2>3 DEF Memories, NoAgent
<1> HIDE DEF y
<1>3. What(y, r) = y /\ e + 1 # 0
  BY <1>2 DEF What
<1>4. ~late => x # NoAgent
  BY DEF NoAgent
<1>5. Agrees(y, r, n, e + 1, late)
  BY <1>2, <1>3, <1>4 DEF Agrees, Outcome
<1>6. Told(s) = s
  BY DEF Told, Outcome
<1> QED
  BY <1>2, <1>3, <1>5, <1>6 DEF y, Heard

LEMMA StartedAgrees ==
  ASSUME NEW x, NEW r, NEW n \in Nat, NEW e, NEW late, Agrees(x, r, n, e, late), NEW late2
  PROVE  /\ Agrees(Started(n + 1), r, n + 1, 0, late2)
         /\ Started(n + 1).status = "running" /\ Started(n + 1) # NoAgent
         /\ Started(n + 1) \in Memories /\ Started(n + 1).mine /\ Started(n + 1).run = n + 1
         /\ Heard(Started(n + 1), r, n + 1, late2, "started")
<1> DEFINE y == Started(n + 1)
<1>1. /\ y \in Fields /\ y.status = "running" /\ y.run = n + 1 /\ y.mine
  <2>1. n + 1 \in Nat
    OBVIOUS
  <2>2. y \in Fields
    BY <2>1 DEF Started, NoAgent, Fields, Real
  <2>3. y.status = "running" /\ y.run = n + 1
    BY DEF Started, NoAgent
  <2>4. y.mine
    BY DEF Started, NoAgent
  <2> QED
    BY <2>2, <2>3, <2>4
<1>2. /\ y.status = "running" /\ y.run = n + 1 /\ y.mine /\ y # NoAgent /\ y \in Memories
  BY <1>1, NoAgentFields DEF Memories, Fields, Real
<1> HIDE DEF y
<1>3. What(y, r) = y
  BY <1>2 DEF What
<1>4. r \in Papers /\ r.run <= n /\ r.run \in Nat
  BY DEF Agrees, Papers, NoRecord
<1>5. Agrees(y, r, n + 1, 0, late2)
  BY <1>2, <1>3, <1>4 DEF Agrees
<1>6. Told("running") = "started"
  BY DEF Told
<1> QED
  BY <1>2, <1>3, <1>5, <1>6 DEF y, Heard

\* Another process starts a run, or the end of a run is reported.
LEMMA ElsewhereAgrees ==
  ASSUME NEW x, NEW r, NEW n \in Nat, NEW e \in Nat, NEW late \in BOOLEAN,
         Agrees(x, r, n, e, late),
         NEW m, NEW f, NEW late2 \in BOOLEAN, late => late2,
         m = n + 1 \/ (m = n /\ (f = e \/ f = e + 1))
  PROVE  /\ Agrees(x, r, m, f, late2)
         /\ \A last : Heard(x, r, n, late, last) => Heard(x, r, m, late2, last)
<1>1. /\ x \in Memories /\ r \in Papers /\ x.run \in Nat /\ r.run \in Nat
      /\ x.run <= n /\ r.run <= n
  BY MemoryRaw DEF Agrees, Papers, NoRecord, NoAgent
<1>2. What(x, r).run \in Nat /\ What(x, r).run <= n
  BY <1>1, PaperRestored DEF What
<1>3. CASE m = n + 1
  BY <1>1, <1>2, <1>3 DEF Agrees, Heard
<1>4. CASE m = n /\ (f = e \/ f = e + 1)
  BY <1>4 DEF Agrees, Heard
<1> QED
  BY <1>3, <1>4

-----------------------------------------------------------------------------
(* A run that goes on is in one process, which holds its claim or has a    *)
(* caller about to finalize the run.                                       *)

Held(p, a) == claim[a] = p \/ \E c \in Caller : Finalizer(call[p][c], a)
Lone(p, a) ==
  Live(p, a) /\ ~overtaken[a] => Held(p, a) /\ \A q \in Proc : Live(q, a) => q = p
LoneInv == \A p \in Proc, a \in Agent : Lone(p, a)

\* What a step of p that begins no run has to leave.
StaysHeld(p, a) ==
  Live(p, a)' /\ ~overtaken[a] => Live(p, a) /\ (Held(p, a) => Held(p, a)')
Untouched(p) ==
  \A q \in Proc \ {p} :
    /\ mem'[q] = mem[q] /\ call'[q] = call[q]
    /\ \A b \in Agent : claim[b] = q => claim'[b] = q

LEMMA LoneKept ==
  ASSUME LoneInv, NEW p \in Proc, overtaken' = overtaken, Untouched(p),
         \A b \in Agent : StaysHeld(p, b)
  PROVE  LoneInv'
<1>1. ASSUME NEW q \in Proc, NEW b \in Agent, Live(q, b)', ~overtaken[b]
      PROVE  Live(q, b) /\ (Held(q, b) => Held(q, b)')
  <2>1. CASE q = p
    BY <1>1, <2>1 DEF StaysHeld
  <2>2. CASE q # p
    <3>1. /\ mem'[q] = mem[q] /\ call'[q] = call[q] /\ (claim[b] = q => claim'[b] = q)
      BY <2>2 DEF Untouched
    <3>2. Live(q, b)
      BY <1>1, <3>1 DEF Live
    <3> QED
      BY <3>1, <3>2 DEF Held
  <2> QED
    BY <2>1, <2>2
<1>2. ASSUME NEW q \in Proc, NEW b \in Agent, Live(q, b)', ~overtaken[b]
      PROVE  Held(q, b)' /\ \A r \in Proc : Live(r, b)' => r = q
  <2>1. Live(q, b) /\ (Held(q, b) => Held(q, b)') /\ Lone(q, b)
    BY <1>1, <1>2 DEF LoneInv
  <2>2. \A r \in Proc : Live(r, b)' => Live(r, b)
    BY <1>1, <1>2
  <2> QED
    BY <1>2, <2>1, <2>2 DEF Lone
<1> QED
  BY <1>2 DEF LoneInv, Lone

\* Steps that leave claims and calls alone and begin no run.
LEMMA LoneIdle ==
  ASSUME LoneInv, NEW p \in Proc, UNCHANGED <<call, claim, overtaken>>,
         \A q \in Proc \ {p} : mem'[q] = mem[q],
         \A b \in Agent : Live(p, b)' => Live(p, b)
  PROVE  LoneInv'
<1>1. Untouched(p)
  BY DEF Untouched
<1>2. \A b \in Agent : StaysHeld(p, b)
  BY DEF StaysHeld, Held
<1> QED
  BY <1>1, <1>2, LoneKept

\* A run that is held elsewhere is not started, except under a cancel.
LEMMA StartRunLone ==
  ASSUME WaitInv, LoneInv, NEW p \in Proc, NEW a \in Agent, StartRun(p, a)
  PROVE  LoneInv'
<1>1. Shape /\ mem \in [Proc -> [Agent -> Agents]]
  BY DEF WaitInv, AgentInv, Shape
<1>2. /\ claim[a] = Nobody /\ claim' = [claim EXCEPT ![a] = p] /\ call' = call
      /\ overtaken' = [overtaken EXCEPT ![a] =
                         @ \/ \E q \in Proc, c \in Caller :
                                call[q][c].pc # "idle" /\ call[q][c].agent = a]
      /\ mem' = [mem EXCEPT ![p] = [mem[p] EXCEPT ![a] = Started(runs[a] + 1)]]
  BY DEF StartRun
<1>3. /\ claim'[a] = p /\ \A b \in Agent \ {a} : claim'[b] = claim[b]
      /\ \A b \in Agent \ {a} : overtaken'[b] = overtaken[b]
      /\ \A q \in Proc, b \in Agent : q # p \/ b # a => mem'[q][b] = mem[q][b]
  BY <1>1, <1>2 DEF Shape
<1>4. ASSUME NEW q \in Proc, ~overtaken'[a]
      PROVE  ~Live(q, a)
  <2>1. /\ ~overtaken[a]
        /\ \A c \in Caller : ~(call[q][c].pc # "idle" /\ call[q][c].agent = a)
    BY <1>1, <1>2, <1>4 DEF Shape
  <2>2. ~Held(q, a)
    BY <1>2, <2>1, ProcAssumption DEF Held, Finalizer
  <2> QED
    BY <2>1, <2>2 DEF LoneInv, Lone
<1>5. ASSUME NEW q \in Proc, Live(q, a)', ~overtaken'[a]
      PROVE  q = p
  BY <1>3, <1>4, <1>5 DEF Live
<1>6. ASSUME NEW q \in Proc
      PROVE  Lone(q, a)'
  <2>1. Held(p, a)'
    BY <1>3 DEF Held
  <2> QED
    BY <1>5, <2>1 DEF Lone
<1>7. ASSUME NEW q \in Proc, NEW b \in Agent \ {a}
      PROVE  Lone(q, b)'
  <2>1. \A r \in Proc : Live(r, b)' <=> Live(r, b)
    BY <1>3 DEF Live
  <2>2. Held(q, b)' <=> Held(q, b)
    BY <1>2, <1>3 DEF Held
  <2>3. Lone(q, b) /\ overtaken'[b] = overtaken[b]
    BY <1>3 DEF LoneInv
  <2> QED
    BY <2>1, <2>2, <2>3 DEF Lone
<1> QED
  BY <1>6, <1>7 DEF LoneInv

\* The claim of a run that ends is released by the step that ends it.
LEMMA EndsLone ==
  ASSUME WaitInv, LoneInv, NEW p \in Proc, NEW a \in Agent, Released(p, a),
         overtaken' = overtaken, ~Live(p, a)',
         \A q \in Proc \ {p} : mem'[q] = mem[q] /\ call'[q] = call[q],
         \A b \in Agent \ {a} :
           /\ Live(p, b)' => Live(p, b)
           /\ \A c \in Caller : Finalizer(call[p][c], b) => Finalizer(call'[p][c], b)
  PROVE  LoneInv'
<1>1. claim' = claim \/ (claim[a] = p /\ claim' = [claim EXCEPT ![a] = Nobody])
  BY ReleasedEffect
<1>2. claim \in [Agent -> Proc \cup {Nobody}]
  BY DEF WaitInv, AgentInv, Shape
<1>3. /\ \A b \in Agent \ {a} : claim'[b] = claim[b]
      /\ \A q \in Proc \ {p}, b \in Agent : claim[b] = q => claim'[b] = q
  BY <1>1, <1>2
<1>4. Untouched(p)
  BY <1>3 DEF Untouched
<1>5. \A b \in Agent : StaysHeld(p, b)
  BY <1>3 DEF StaysHeld, Held
<1> QED
  BY <1>4, <1>5, LoneKept

LEMMA DriverReturnsLone ==
  ASSUME WaitInv, LoneInv, NEW p \in Proc, NEW a \in Agent, NEW s \in Outcome,
         DriverReturns(p, a, s)
  PROVE  LoneInv'
<1> DEFINE m == [mem[p] EXCEPT ![a] = Ended(@, s)]
           d == [driver[p] EXCEPT ![a] = "done"]
<1>1. /\ Shape /\ mem \in [Proc -> [Agent -> Agents]] /\ driver \in [Proc -> [Agent -> Drivers]]
      /\ call \in [Proc -> [Caller -> Calls]]
  BY DEF WaitInv, AgentInv, Shape
<1>2. m \in [Agent -> Agents] /\ m[a].status # "running"
      /\ \A b \in Agent \ {a} : m[b] = mem[p][b]
  BY <1>1, EndedEffect DEF Outcome
<1>3. d \in [Agent -> Drivers]
  BY <1>1 DEF Drivers
<1>4. /\ Trim(p, m, records'[p], d) /\ Released(p, a) /\ Joined(p, a) /\ overtaken' = overtaken
  BY DEF DriverReturns
<1> HIDE DEF m, d
<1>5. /\ \A q \in Proc \ {p} : mem'[q] = mem[q]
      /\ \A b \in Agent : mem'[p][b] = m[b] \/ mem'[p][b] = NoAgent
  BY <1>1, <1>2, <1>3, <1>4, TrimEffect
<1>6. ~Live(p, a)' /\ \A b \in Agent \ {a} : Live(p, b)' => Live(p, b)
  BY <1>2, <1>5, NoAgentType DEF Live
<1>7. /\ \A q \in Proc \ {p} : call'[q] = call[q]
      /\ \A b \in Agent, c \in Caller : Finalizer(call[p][c], b) => Finalizer(call'[p][c], b)
  BY <1>1, <1>4 DEF Joined, Finalizer
<1> QED
  BY <1>4, <1>5, <1>6, <1>7, EndsLone

LEMMA FinalizesLone ==
  ASSUME WaitInv, LoneInv, NEW p \in Proc, NEW a \in Agent, Finalizes(p, a),
         overtaken' = overtaken, \A q \in Proc \ {p} : call'[q] = call[q],
         \A b \in Agent \ {a}, c \in Caller :
           Finalizer(call[p][c], b) => Finalizer(call'[p][c], b)
  PROVE  LoneInv'
<1> DEFINE m == [mem[p] EXCEPT ![a] = Ended(@, "cancelled")]
<1>1. Shape /\ mem \in [Proc -> [Agent -> Agents]]
  BY DEF WaitInv, AgentInv, Shape
<1>2. m \in [Agent -> Agents] /\ m[a].status # "running"
      /\ \A b \in Agent \ {a} : m[b] = mem[p][b]
  BY <1>1, EndedEffect
<1>3. mem' = [mem EXCEPT ![p] = m] /\ Released(p, a)
  BY DEF Finalizes
<1> HIDE DEF m
<1>4. mem'[p] = m /\ \A q \in Proc \ {p} : mem'[q] = mem[q]
  BY <1>1, <1>3
<1>5. ~Live(p, a)' /\ \A b \in Agent \ {a} : Live(p, b)' => Live(p, b)
  BY <1>2, <1>4 DEF Live
<1> QED
  BY <1>3, <1>4, <1>5, EndsLone

LEMMA CallerGoesOnLone ==
  ASSUME WaitInv, LoneInv, NEW p \in Proc, NEW c \in Caller, CallerGoesOn(p, c)
  PROVE  LoneInv'
<1>1. /\ call[p][c].pc = "joined" /\ call[p][c] \in Calls
      /\ call \in [Proc -> [Caller -> Calls]] /\ Shape
  BY DEF CallerGoesOn, WaitInv, AgentInv, Shape
<1> PICK a \in Agent : call[p][c].agent = a
  BY <1>1 DEF Calls
<1>2. /\ overtaken' = overtaken /\ \A q \in Proc \ {p} : call'[q] = call[q]
      /\ \A e \in Caller \ {c} : call'[p][e] = call[p][e]
  BY <1>1 DEF CallerGoesOn
<1>3. \A b \in Agent \ {a}, e \in Caller : Finalizer(call[p][e], b) => Finalizer(call'[p][e], b)
  BY <1>2 DEF Finalizer
<1>4. CASE Unfinished(mem[p][a]) /\ Finalizes(p, a)
  BY <1>2, <1>3, <1>4, FinalizesLone
<1>5. CASE ~Unfinished(mem[p][a]) /\ UNCHANGED <<mem, claim>>
  <2>1. Untouched(p)
    BY <1>2, <1>5 DEF Untouched
  <2>2. ASSUME NEW b \in Agent \ {a}
        PROVE  StaysHeld(p, b)
    BY <1>3, <1>5 DEF StaysHeld, Held, Live
  <2>3. StaysHeld(p, a)
    <3>1. Live(p, a) => Executing(p, a)
      BY <1>5 DEF Live, Unfinished, WaitInv, AgentInv, Fine, UncancelledHasDriver, Executing
    <3>2. Executing(p, a) => overtaken[a]
      BY <1>1 DEF WaitInv, AgentInv, Fine, JoinedIsOver, Past
    <3> QED
      BY <1>5, <3>1, <3>2 DEF StaysHeld, Live
  <2> QED
    BY <1>2, <2>1, <2>2, <2>3, LoneKept
<1> QED
  BY <1>4, <1>5 DEF CallerGoesOn

LEMMA RequestsLone ==
  ASSUME WaitInv, LoneInv, NEW p \in Proc, NEW c \in Caller, NEW a \in Agent, NEW x, NEW close,
         Requests(p, c, a, x, close), x.status = Required(p, a).status, call[p][c] = NoCall,
         claim' = claim \/ (claim[a] \in {p, Nobody} /\ claim' = [claim EXCEPT ![a] = p]),
         overtaken' = overtaken
  PROVE  LoneInv'
<1> DEFINE y == [x EXCEPT !.token = @ \/ Hit(x)]
<1>1. /\ Shape /\ mem \in [Proc -> [Agent -> Agents]] /\ call \in [Proc -> [Caller -> Calls]]
      /\ claim \in [Agent -> Proc \cup {Nobody}]
  BY DEF WaitInv, AgentInv, Shape
<1>2. /\ \A q \in Proc \ {p} : mem'[q] = mem[q] /\ call'[q] = call[q]
      /\ \A e \in Caller \ {c} : call'[p][e] = call[p][e]
      /\ mem'[p][a] = y /\ \A b \in Agent \ {a} : mem'[p][b] = mem[p][b]
  BY <1>1 DEF Requests
<1>3. \A q \in Proc, b \in Agent : claim[b] = q => claim'[b] = q
  BY <1>1, ProcAssumption
<1>4. Live(p, a)' => Live(p, a)
  <2>1. y.status = x.status
    OBVIOUS
  <2>2. Required(p, a).status = "running" => mem[p][a].status = "running"
    BY <1>1, RestoredIsOver
  <2> QED
    BY <1>2, <2>1, <2>2 DEF Live
<1>5. ~\E b \in Agent : Finalizer(call[p][c], b)
  BY DEF Finalizer, NoCall
<1>6. Untouched(p)
  BY <1>2, <1>3 DEF Untouched
<1>7. \A b \in Agent : StaysHeld(p, b)
  <2>1. \A b \in Agent : Live(p, b)' => Live(p, b)
    BY <1>2, <1>4 DEF Live
  <2>2. \A b \in Agent : Held(p, b) => Held(p, b)'
    BY <1>2, <1>3, <1>5 DEF Held
  <2> QED
    BY <2>1, <2>2 DEF StaysHeld, Held
<1> QED
  BY <1>6, <1>7, LoneKept

LEMMA BeginsLone ==
  ASSUME WaitInv, LoneInv, NEW p \in Proc, NEW c \in Caller, NEW a \in Agent,
         CancelBegins(p, c, a) \/ CloseBegins(p, c, a)
  PROVE  LoneInv'
<1>1. overtaken' = overtaken /\ call[p][c] = NoCall
  BY DEF CancelBegins, CloseBegins, requestOthers
<1>2. CASE CancelBegins(p, c, a)
  <2>1. Requests(p, c, a, Required(p, a), FALSE) /\ claim' = claim
    BY <1>2 DEF CancelBegins
  <2> QED
    BY <1>1, <2>1, RequestsLone
<1>3. CASE CloseBegins(p, c, a)
  <2> DEFINE x == [Required(p, a) EXCEPT !.closing = TRUE]
  <2>1. /\ Requests(p, c, a, x, TRUE) /\ claim[a] \in {p, Nobody}
        /\ claim' = [claim EXCEPT ![a] = p]
    BY <1>3 DEF CloseBegins
  <2>2. x.status = Required(p, a).status
    <3>1. Required(p, a) \in Agents
      BY RestoredIsOver DEF WaitInv, AgentInv
    <3> QED
      BY <3>1 DEF Agents
  <2> HIDE DEF x
  <2> QED
    BY <1>1, <2>1, <2>2, RequestsLone
<1> QED
  BY <1>2, <1>3

LEMMA CloseRemovesLone ==
  ASSUME WaitInv, LoneInv, NEW p \in Proc, NEW c \in Caller, CloseRemoves(p, c)
  PROVE  LoneInv'
<1>1. /\ call[p][c] \in Calls /\ call[p][c].pc = "remove" /\ Shape
      /\ mem \in [Proc -> [Agent -> Agents]] /\ call \in [Proc -> [Caller -> Calls]]
      /\ claim \in [Agent -> Proc \cup {Nobody}]
  BY DEF WaitInv, AgentInv, Shape, CloseRemoves
<1> PICK a \in Agent : a = call[p][c].agent
  BY <1>1 DEF Calls
<1>2. ~Live(p, a)
  BY <1>1 DEF WaitInv, Wakeful, RemoveIsOver, Removing
<1> DEFINE y == [Required(p, a) EXCEPT !.closing = FALSE]
<1>3. /\ overtaken' = overtaken
      /\ claim' = IF claim[a] = p THEN [claim EXCEPT ![a] = Nobody] ELSE claim
      /\ \A q \in Proc \ {p} : call'[q] = call[q]
      /\ \A e \in Caller \ {c} : call'[p][e] = call[p][e]
  BY <1>1 DEF CloseRemoves
<1>4. y.status # "running"
  <2>1. Required(p, a) \in Agents /\ Required(p, a).status # "running"
    BY <1>1, <1>2, RestoredIsOver DEF Live
  <2> QED
    BY <2>1 DEF Agents
<1>5. mem' = [mem EXCEPT ![p][a] = NoAgent] \/ mem' = [mem EXCEPT ![p][a] = y]
  BY DEF CloseRemoves
<1> HIDE DEF y
<1>6. /\ \A q \in Proc \ {p} : mem'[q] = mem[q] /\ \A b \in Agent \ {a} : mem'[p][b] = mem[p][b]
      /\ ~Live(p, a)'
  BY <1>1, <1>4, <1>5, NoAgentType DEF Live
<1>7. Untouched(p)
  BY <1>1, <1>3, <1>6 DEF Untouched
<1>8. ASSUME NEW b \in Agent \ {a}
      PROVE  StaysHeld(p, b)
  <2>1. claim'[b] = claim[b] /\ mem'[p][b] = mem[p][b]
    BY <1>1, <1>3, <1>5
  <2>2. \A e \in Caller : Finalizer(call[p][e], b) => Finalizer(call'[p][e], b)
    BY <1>1, <1>3 DEF Finalizer
  <2> QED
    BY <2>1, <2>2 DEF StaysHeld, Held, Live
<1> QED
  BY <1>3, <1>6, <1>7, <1>8, LoneKept DEF StaysHeld

\* Claims of a process that goes are freed: none of its runs goes on, or a caller
\* that joined its driver is left to finalize it.
LEMMA FreedLone ==
  ASSUME WaitInv, LoneInv, NEW p \in Proc, Freed(p), overtaken' = overtaken,
         \A q \in Proc \ {p} : mem'[q] = mem[q] /\ call'[q] = call[q],
         \A b \in Agent : Live(p, b)' =>
           Live(p, b) /\ \E c \in Caller : Finalizer(call'[p][c], b)
  PROVE  LoneInv'
<1>1. \A q \in Proc \ {p}, b \in Agent : claim[b] = q => claim'[b] = q
  BY FreedEffect DEF WaitInv, AgentInv
<1>2. Untouched(p)
  BY <1>1 DEF Untouched
<1>3. \A b \in Agent : StaysHeld(p, b)
  BY DEF StaysHeld, Held
<1> QED
  BY <1>2, <1>3, LoneKept

LEMMA StopLone ==
  ASSUME WaitInv, LoneInv, NEW p \in Proc, Stop(p)
  PROVE  LoneInv'
<1>1. Shape /\ mem \in [Proc -> [Agent -> Agents]] /\ call \in [Proc -> [Caller -> Calls]]
  BY DEF WaitInv, AgentInv, Shape
<1>2. CASE ShutdownBegins(p)
  <2>1. UNCHANGED <<call, claim, overtaken>> /\ \A q \in Proc \ {p} : mem'[q] = mem[q]
    BY <1>1, <1>2 DEF ShutdownBegins
  <2>2. ASSUME NEW b \in Agent
        PROVE  mem'[p][b].status = mem[p][b].status
    <3>1. mem'[p][b] = IF Executing(p, b) THEN [mem[p][b] EXCEPT !.token = TRUE] ELSE mem[p][b]
      BY <1>1, <1>2 DEF ShutdownBegins
    <3>2. mem[p][b] \in Agents
      BY <1>1
    <3> QED
      BY <3>1, <3>2 DEF Agents
  <2> QED
    BY <2>1, <2>2, LoneIdle DEF Live
<1>3. ASSUME NEW a \in Agent, ShutdownJoins(p, a)
      PROVE  LoneInv'
  BY <1>3, FinalizesLone DEF ShutdownJoins
<1>4. CASE ShutdownEnds(p)
  <2>1. /\ Freed(p) /\ UNCHANGED <<mem, call, overtaken>>
        /\ \A b \in Agent : ~Executing(p, b)
        /\ \A b \in Agent : Unfinished(mem[p][b]) =>
             \E c \in Caller : call[p][c].pc = "joined" /\ call[p][c].agent = b
    BY <1>4 DEF ShutdownEnds, AllJoined
  <2>2. ASSUME NEW b \in Agent, Live(p, b)
        PROVE  \E c \in Caller : Finalizer(call'[p][c], b)
    <3>1. Unfinished(mem[p][b])
      BY <2>1, <2>2
         DEF WaitInv, AgentInv, Fine, UncancelledHasDriver, Unfinished, Live, Executing
    <3> QED
      BY <2>1, <3>1 DEF Finalizer
  <2> QED
    BY <2>1, <2>2, FreedLone DEF Live
<1>5. CASE Gone(p)
  <2>1. /\ Freed(p) /\ overtaken' = overtaken
        /\ \A q \in Proc \ {p} : mem'[q] = mem[q] /\ call'[q] = call[q]
        /\ \A b \in Agent : mem'[p][b] = NoAgent
    BY <1>1, <1>5 DEF Gone
  <2> QED
    BY <2>1, FreedLone, NoAgentType DEF Live
<1> QED
  BY <1>2, <1>3, <1>4, <1>5 DEF Stop, Crash, Exit

LEMMA ReadingLone ==
  ASSUME WaitInv, LoneInv, NEW p \in Proc, NEW S, UNCHANGED <<call, claim, overtaken>>,
         \A q \in Proc \ {p} : mem'[q] = mem[q],
         \A b \in Agent : mem'[p][b] = Loaded(p, S)[b] \/ mem'[p][b] = NoAgent
  PROVE  LoneInv'
<1>1. \A b \in Agent : Live(p, b)' => Live(p, b)
  BY LoadedEffect, NoAgentType DEF WaitInv, AgentInv, Live
<1> QED
  BY <1>1, LoneIdle

LEMMA LooksLone ==
  ASSUME WaitInv, LoneInv, NEW p \in Proc, NEW a \in Agent, Looks(p, a)
  PROVE  LoneInv'
<1> DEFINE m == Loaded(p, {a})
<1>1. /\ mem \in [Proc -> [Agent -> Agents]] /\ driver \in [Proc -> [Agent -> Drivers]]
      /\ m \in [Agent -> Agents] /\ UNCHANGED <<call, claim, overtaken>>
  BY LoadedEffect DEF WaitInv, AgentInv, Shape, Looks
<1>2. Trim(p, m, records[p], driver[p]) \/ mem' = [mem EXCEPT ![p] = m]
  BY DEF Looks
<1> HIDE DEF m
<1>3. /\ \A q \in Proc \ {p} : mem'[q] = mem[q]
      /\ \A b \in Agent : mem'[p][b] = m[b] \/ mem'[p][b] = NoAgent
  <2>1. CASE Trim(p, m, records[p], driver[p])
    BY <1>1, <2>1, TrimEffect
  <2>2. CASE mem' = [mem EXCEPT ![p] = m]
    BY <1>1, <2>2
  <2> QED
    BY <1>2, <2>1, <2>2
<1> QED
  BY <1>1, <1>3, ReadingLone DEF m

LEMMA WaitLone ==
  ASSUME WaitInv, LoneInv, NEW p \in Proc, Wait(p)
  PROVE  LoneInv'
<1>1. mem \in [Proc -> [Agent -> Agents]] /\ UNCHANGED <<call, claim, overtaken>>
  BY DEF WaitInv, AgentInv, Shape, Wait, WaitBegins, WaitWakes, WaitTimesOut, waitOthers
<1>2. UNCHANGED mem \/ \E S : mem' = [mem EXCEPT ![p] = Loaded(p, S)]
  <2>1. \A w : Reads(p, w) => UNCHANGED mem \/ \E S : mem' = [mem EXCEPT ![p] = Loaded(p, S)]
    BY DEF Reads
  <2>2. CASE WaitBegins(p)
    BY <2>1, <2>2 DEF WaitBegins
  <2>3. CASE WaitWakes(p)
    BY <2>1, <2>3 DEF WaitWakes
  <2>4. CASE WaitTimesOut(p)
    BY <2>4 DEF WaitTimesOut
  <2> QED
    BY <2>2, <2>3, <2>4 DEF Wait
<1>3. CASE UNCHANGED mem
  BY <1>1, <1>3, LoneIdle DEF Live
<1>4. ASSUME NEW S, mem' = [mem EXCEPT ![p] = Loaded(p, S)]
      PROVE  LoneInv'
  <2>1. mem'[p] = Loaded(p, S) /\ \A q \in Proc \ {p} : mem'[q] = mem[q]
    BY <1>1, <1>4
  <2> QED
    BY <1>1, <2>1, ReadingLone
<1> QED
  BY <1>2, <1>3, <1>4

\* A process that starts restores no run as running.
LEMMA StartLone ==
  ASSUME WaitInv, LoneInv, NEW p \in Proc, Start(p)
  PROVE  LoneInv'
<1> DEFINE recs == [a \in Agent |-> Found(disk[a])]
           m == [a \in Agent |-> IF recs[a] = NoRecord THEN NoAgent ELSE Restored(recs[a])]
<1>1. /\ Trim(p, m, recs, driver[p]) /\ UNCHANGED <<call, claim, overtaken>>
      /\ mem \in [Proc -> [Agent -> Agents]]
  BY DEF Start, WaitInv, AgentInv, Shape
<1>2. \A b \in Agent : m[b].status # "running"
  <2>1. \A r : Restored(r).status # "running"
    BY DEF Restored, NoAgent
  <2> QED
    BY <2>1, NoAgentType
<1> HIDE DEF m, recs
<1>3. PICK E \in SUBSET Agent :
        mem' = [mem EXCEPT ![p] = [a \in Agent |-> IF a \in E THEN NoAgent ELSE m[a]]]
  BY <1>1 DEF Trim
<1>4. /\ \A q \in Proc \ {p} : mem'[q] = mem[q]
      /\ \A b \in Agent : mem'[p][b] = IF b \in E THEN NoAgent ELSE m[b]
  BY <1>1, <1>3
<1>5. \A b \in Agent : ~Live(p, b)'
  BY <1>2, <1>4, NoAgentType DEF Live
<1> QED
  BY <1>1, <1>4, <1>5, LoneIdle

LEMMA LoneInvInit == Init => LoneInv
BY NoAgentType DEF Init, LoneInv, Lone, Live

LEMMA LoneStep == WaitInv /\ LoneInv /\ [Next]_vars => LoneInv'
<1>1. SUFFICES ASSUME WaitInv, LoneInv, [Next]_vars PROVE LoneInv'
  OBVIOUS
<1>2. CASE UNCHANGED <<mem, call, claim, overtaken>>
  BY <1>1, <1>2 DEF LoneInv, Lone, Live, Held
<1>3. ASSUME NEW p \in Proc, NEW a \in Agent, Spawn(p, a) \/ Resume(p, a)
      PROVE  LoneInv'
  BY <1>1, <1>3, StartRunLone DEF Spawn, Resume
<1>4. ASSUME NEW p \in Proc, NEW a \in Agent, Drive(p, a) \/ Looks(p, a)
      PROVE  LoneInv'
  <2>1. DriverEnds(p, a) => \E s \in Outcome : DriverReturns(p, a, s)
    BY DEF DriverEnds, Outcome
  <2>2. DriverStarts(p, a) \/ ReportsProgress(p, a) => UNCHANGED <<mem, call, claim, overtaken>>
    BY DEF DriverStarts, ReportsProgress
  <2> QED
    BY <1>1, <1>2, <1>4, <2>1, <2>2, DriverReturnsLone, LooksLone DEF Drive
<1>5. ASSUME NEW p \in Proc, NEW c \in Caller, Request(p, c)
      PROVE  LoneInv'
  BY <1>1, <1>5, BeginsLone, CallerGoesOnLone, CloseRemovesLone DEF Request
<1>6. ASSUME NEW p \in Proc, Wait(p) \/ Drains(p) \/ Stop(p) \/ Start(p)
      PROVE  LoneInv'
  <2>1. Drains(p) => UNCHANGED <<mem, call, claim, overtaken>>
    BY DEF Drains
  <2> QED
    BY <1>1, <1>2, <1>6, <2>1, WaitLone, StopLone, StartLone
<1>7. CASE UNCHANGED vars
  BY <1>2, <1>7 DEF vars
<1> QED
  BY <1>1, <1>3, <1>4, <1>5, <1>6, <1>7 DEF Next

-----------------------------------------------------------------------------
(* The inductive invariant.                                                *)

Agreed(p, a) == Agrees(mem[p][a], records[p][a], runs[a], ends[a], overtaken[a])
ExecutorRuns(p, a) == Executing(p, a) /\ ~overtaken[a] => mem[p][a].status = "running"
RunIsLatest(p, a) ==
  mem[p][a].status = "running" /\ ~overtaken[a] =>
    /\ a \in owned[p] /\ ends[a] = 0
    /\ mem[p][a].mine /\ mem[p][a].run = runs[a]
\* An outcome is on record, or the next write that succeeds will bring it there.
Saved(x, r, bad) ==
  x.status \in Terminal => bad \/ (r # NoRecord /\ Restored(r).status = x.status)
OutcomeIsSaved(p, a) ==
  ~overtaken[a] => Saved(mem[p][a], records[p][a], failed[p] /\ a \in owned[p])
DownIsEmpty(p, a) ==
  phase[p] = "down" => mem[p][a] = NoAgent /\ records[p][a] = NoRecord
Learns(p, a) ==
  p \in Listening /\ ~box[p].resync =>
    Heard(mem[p][a], records[p][a], runs[a], overtaken[a], Latest(box[p].queue, a, view[p][a]))

Core(p, a) ==
  /\ Agreed(p, a) /\ ExecutorRuns(p, a) /\ RunIsLatest(p, a) /\ OutcomeIsSaved(p, a)
  /\ DownIsEmpty(p, a)

OnDisk(d, n) == d \in Papers \cup {Tombstone} /\ d.run <= n

Totals ==
  /\ owned \in [Proc -> SUBSET Agent] /\ failed \in [Proc -> BOOLEAN]
  /\ runs \in [Agent -> 0..MaxRuns] /\ ends \in [Agent -> Nat]
  /\ faults \in 0..MaxFaults /\ stops \in 0..MaxStops
  /\ \A a \in Agent : (~overtaken[a] => ends[a] <= 1) /\ OnDisk(disk[a], runs[a])
  /\ box \in [Proc -> Boxes]
  /\ \A p \in Proc : Fits(box[p]) /\ (p \notin Listening => box[p] = EmptyBox)
  /\ view \in [Proc -> [Agent -> LifeKind \cup {"none"}]]

OutcomeInv == Totals /\ \A p \in Proc, a \in Agent : Core(p, a) /\ Learns(p, a)

\* What a step may not change of an agent whose run is over.
Same(p, a) ==
  Required(p, a).status \in Terminal /\ ~failed[p] /\ ~failed'[p] /\ ~overtaken[a] =>
    Required(p, a)'.status = Required(p, a).status
Fated ==
  \A p \in Proc, a \in Agent :
    runs'[a] = runs[a] => Same(p, a) \/ phase'[p] = "down" \/ disk'[a] = Tombstone

-----------------------------------------------------------------------------
(* What is enough for a step to keep it.                                   *)

\* Agent b of p, which is x after it may have been restored or marked, is at most
\* written or evicted by the step.
Stands(p, b, x) ==
  /\ x \in Memories /\ (x = mem[p][b] \/ (x # NoAgent /\ Raw(x) = Raw(Required(p, b))))
  /\ records'[p][b] = records[p][b] \/ (x # NoAgent /\ records'[p][b] = Raw(x))
  /\ \/ failed'[p] = failed[p] /\ records'[p][b] = records[p][b]
     \/ b \in owned[p] /\ x # NoAgent => records'[p][b] = Raw(x) \/ failed'[p]
  /\ \/ /\ mem'[p][b] = x /\ (Executing(p, b)' => Executing(p, b))
        /\ b \in owned[p] => b \in owned'[p]
     \/ /\ x.status \in Terminal /\ records'[p][b] # NoRecord
        /\ mem'[p][b] = NoAgent /\ ~Executing(p, b)'
  /\ runs'[b] = runs[b] /\ ends'[b] = ends[b] /\ overtaken'[b] = overtaken[b]
  /\ phase'[p] # "down" \/ phase'[p] = phase[p]

\* Nor does it take away what the consumer heard of b.
Unheard(p, b) ==
  p \in Listening /\ ~box'[p].resync =>
    /\ ~box[p].resync
    /\ Latest(box'[p].queue, b, view'[p][b]) = Latest(box[p].queue, b, view[p][b])

LEMMA SavedWritten ==
  ASSUME NEW x \in Memories, x # NoAgent, NEW bad
  PROVE  Saved(x, Raw(x), bad)
<1>1. /\ Raw(x) \in Papers /\ Raw(x) # NoRecord /\ Raw(x).status = x.status
  BY MemoryRaw
<1>2. Restored(Raw(x)).status = IF x.status = "running" THEN "interrupted" ELSE x.status
  BY <1>1, PaperRestored
<1> QED
  BY <1>1, <1>2 DEF Saved, Terminal

LEMMA StandsKeeps ==
  ASSUME NEW p \in Proc, NEW b \in Agent, runs[b] \in Nat, Core(p, b), NEW x, Stands(p, b, x)
  PROVE  /\ Core(p, b)' /\ Same(p, b)
         /\ \A last : Heard(mem[p][b], records[p][b], runs[b], overtaken[b], last) =>
                        Heard(mem[p][b], records[p][b], runs[b], overtaken[b], last)'
<1> DEFINE r == records[p][b]
           n == runs[b]
           e == ends[b]
           o == overtaken[b]
           r2 == records'[p][b]
<1>1. Agrees(mem[p][b], r, n, e, o) /\ mem[p][b] \in Memories /\ r \in Papers
  BY DEF Core, Agreed, Agrees
<1>2. Required(p, b) = What(mem[p][b], r) /\ Required(p, b)' = What(mem'[p][b], r2)
  BY DEF Required, What
<1>3. /\ Agrees(x, r, n, e, o) /\ What(x, r).status = Required(p, b).status
      /\ \A last : Heard(mem[p][b], r, n, o, last) => Heard(x, r, n, o, last)
  BY <1>1, <1>2, RenewedAgrees DEF Stands
<1>4. /\ x \in Memories
      /\ r2 = r \/ (x # NoAgent /\ r2 = Raw(x))
      /\ n' = n /\ e' = e /\ o' = o
  BY DEF Stands
<1>5. /\ Agrees(x, r2, n, e, o)
      /\ \A last : Heard(x, r, n, o, last) => Heard(x, r2, n, o, last)
  BY <1>3, <1>4, WrittenAgrees
<1>6. ~o => Saved(x, r, failed[p] /\ b \in owned[p])
  <2>1. ~o => Saved(mem[p][b], r, failed[p] /\ b \in owned[p])
    BY DEF Core, OutcomeIsSaved
  <2>2. CASE x = mem[p][b]
    BY <2>1, <2>2
  <2>3. CASE x # NoAgent /\ Raw(x) = Raw(Required(p, b))
    <3>1. x.status = Required(p, b).status
      BY <2>3 DEF Raw
    <3>2. CASE mem[p][b] # NoAgent
      BY <1>2, <2>1, <3>1, <3>2 DEF What, Saved
    <3>3. CASE mem[p][b] = NoAgent
      <4>1. x.status = Restored(r).status
        BY <1>2, <3>1, <3>3 DEF What
      <4>2. r = NoRecord => Restored(r).status \notin Terminal
        BY <1>1, PaperRestored, NoAgentFields DEF Terminal
      <4> QED
        BY <4>1, <4>2 DEF Saved
    <3> QED
      BY <3>2, <3>3
  <2> QED
    BY <2>2, <2>3 DEF Stands
<1>7. x.status = "running" =>
        /\ mem[p][b].status = "running" /\ mem[p][b].mine = x.mine /\ mem[p][b].run = x.run
  <2>1. CASE x = mem[p][b]
    BY <2>1
  <2>2. CASE x # NoAgent /\ Raw(x) = Raw(Required(p, b))
    <3>1. /\ x.status = Required(p, b).status /\ x.mine = Required(p, b).mine
          /\ x.run = Required(p, b).run
      BY <2>2 DEF Raw
    <3>2. mem[p][b] = NoAgent => Required(p, b).status # "running"
      BY <1>1, <1>2, PaperRestored DEF What
    <3>3. mem[p][b] # NoAgent => Required(p, b) = mem[p][b]
      BY <1>2 DEF What
    <3> QED
      BY <3>1, <3>2, <3>3
  <2> QED
    BY <2>1, <2>2 DEF Stands
<1>8. mem[p][b].status = "running" => x.status = "running"
  <2>1. mem[p][b].status = "running" => Required(p, b) = mem[p][b]
    BY <1>2, NoAgentFields DEF What
  <2> QED
    BY <2>1 DEF Stands, Raw
<1>9. DownIsEmpty(p, b)'
  <2>1. SUFFICES ASSUME phase'[p] = "down"
                 PROVE  mem'[p][b] = NoAgent /\ r2 = NoRecord
    BY DEF DownIsEmpty
  <2>2. mem[p][b] = NoAgent /\ r = NoRecord
    BY <2>1 DEF Stands, Core, DownIsEmpty
  <2>3. Required(p, b).status = "none"
    BY <1>1, <1>2, <2>2, PaperRestored, NoAgentFields DEF What
  <2>4. x = NoAgent
    <3>1. x # NoAgent => x.status \in Real
      BY <1>4, MemoryRaw
    <3>2. CASE x # NoAgent /\ Raw(x) = Raw(Required(p, b))
      BY <2>3, <3>1, <3>2 DEF Raw, Real, Terminal
    <3> QED
      BY <2>2, <3>2 DEF Stands
  <2>5. x.status \notin Terminal
    BY <2>4, NoAgentFields DEF Terminal
  <2> QED
    BY <1>4, <2>2, <2>4, <2>5 DEF Stands
<1>10. CASE /\ mem'[p][b] = x /\ (Executing(p, b)' => Executing(p, b))
            /\ b \in owned[p] => b \in owned'[p]
  <2>1. Agreed(p, b)'
    BY <1>4, <1>5, <1>10 DEF Agreed
  <2>2. ExecutorRuns(p, b)'
    BY <1>4, <1>8, <1>10 DEF Core, ExecutorRuns
  <2>3. RunIsLatest(p, b)'
    BY <1>4, <1>7, <1>10 DEF Core, RunIsLatest, Stands
  <2>4. ~o => Saved(x, r2, failed'[p] /\ b \in owned'[p])
    <3>1. CASE x # NoAgent /\ r2 = Raw(x)
      BY <1>4, <3>1, SavedWritten
    <3>2. CASE r2 = r /\ failed'[p] = failed[p]
      BY <1>6, <1>10, <3>2 DEF Saved
    <3>3. CASE r2 = r /\ (b \in owned[p] /\ x # NoAgent => r2 = Raw(x) \/ failed'[p])
      <4>1. x = NoAgent => x.status \notin Terminal
        BY NoAgentFields DEF Terminal
      <4> QED
        BY <1>6, <1>10, <3>1, <3>3, <4>1 DEF Saved
    <3> QED
      BY <1>4, <3>1, <3>2, <3>3 DEF Stands
  <2>5. OutcomeIsSaved(p, b)'
    BY <1>4, <1>10, <2>4 DEF OutcomeIsSaved
  <2>6. Same(p, b)
    <3>1. What(x, r2).status = What(x, r).status
      BY <1>4 DEF What
    <3> QED
      BY <1>2, <1>3, <1>10, <3>1 DEF Same
  <2> QED
    BY <1>3, <1>4, <1>5, <1>9, <1>10, <2>1, <2>2, <2>3, <2>5, <2>6 DEF Core
<1>11. CASE /\ x.status \in Terminal /\ r2 # NoRecord
            /\ mem'[p][b] = NoAgent /\ ~Executing(p, b)'
  <2>1. /\ Agrees(NoAgent, r2, n, e, o)
        /\ \A last : Heard(x, r2, n, o, last) => Heard(NoAgent, r2, n, o, last)
    BY <1>5, <1>11, EvictedAgrees
  <2>2. Agreed(p, b)'
    BY <1>4, <1>11, <2>1 DEF Agreed
  <2>3. ExecutorRuns(p, b)' /\ RunIsLatest(p, b)'
    BY <1>11, NoAgentFields DEF ExecutorRuns, RunIsLatest
  <2>4. OutcomeIsSaved(p, b)'
    BY <1>11, NoAgentFields DEF OutcomeIsSaved, Saved, Terminal
  <2>5. Same(p, b)
    <3>1. SUFFICES ASSUME ~failed[p], ~failed'[p], ~o
                   PROVE  Restored(r2).status = Required(p, b).status
      BY <1>2, <1>11 DEF Same, What
    <3>2. x # NoAgent
      BY <1>11, NoAgentFields DEF Terminal
    <3>3. x.status = Required(p, b).status
      BY <1>3, <3>2 DEF What
    <3>4. CASE r2 = r
      BY <1>6, <1>11, <3>1, <3>3, <3>4 DEF Saved
    <3>5. CASE r2 = Raw(x)
      <4>1. Saved(x, r2, FALSE)
        BY <1>4, <3>2, <3>5, SavedWritten
      <4> QED
        BY <1>11, <3>3, <4>1 DEF Saved
    <3> QED
      BY <1>4, <3>4, <3>5
  <2> QED
    BY <1>3, <1>4, <1>5, <1>9, <1>11, <2>1, <2>2, <2>3, <2>4, <2>5 DEF Core
<1> QED
  BY <1>10, <1>11 DEF Stands

LEMMA StandsLearns ==
  ASSUME NEW p \in Proc, NEW b \in Agent, runs[b] \in Nat, Core(p, b), Learns(p, b),
         NEW x, Stands(p, b, x), Unheard(p, b)
  PROVE  Core(p, b)' /\ Learns(p, b)' /\ Same(p, b)
<1>1. /\ Core(p, b)' /\ Same(p, b)
      /\ \A last : Heard(mem[p][b], records[p][b], runs[b], overtaken[b], last) =>
                     Heard(mem[p][b], records[p][b], runs[b], overtaken[b], last)'
  BY StandsKeeps
<1> QED
  BY <1>1 DEF Learns, Unheard

\* An agent of another process, or one that no coroutine of the step is about.
Apart(q, b) ==
  /\ mem'[q][b] = mem[q][b] /\ records'[q][b] = records[q][b]
  /\ driver'[q][b] = driver[q][b] /\ owned'[q] = owned[q] /\ failed'[q] = failed[q]
  /\ box'[q] = box[q] /\ view'[q][b] = view[q][b] /\ phase'[q] = phase[q]
  /\ overtaken[b] => overtaken'[b]
  /\ runs'[b] = runs[b] + 1 \/ (runs'[b] = runs[b] /\ ends'[b] \in {ends[b], ends[b] + 1})
  /\ mem[q][b].status = "running" /\ ~overtaken'[b] =>
       runs'[b] = runs[b] /\ ends'[b] = ends[b]

LEMMA ApartKeepsOutcome ==
  ASSUME NEW q \in Proc, NEW b \in Agent, runs[b] \in Nat, ends[b] \in Nat,
         overtaken[b] \in BOOLEAN, overtaken'[b] \in BOOLEAN,
         Core(q, b), Learns(q, b), Apart(q, b)
  PROVE  Core(q, b)' /\ Learns(q, b)' /\ Same(q, b)
<1>1. Agrees(mem[q][b], records[q][b], runs[b], ends[b], overtaken[b])
  BY DEF Core, Agreed
<1>2. /\ Agrees(mem[q][b], records[q][b], runs'[b], ends'[b], overtaken'[b])
      /\ \A last : Heard(mem[q][b], records[q][b], runs[b], overtaken[b], last) =>
                     Heard(mem[q][b], records[q][b], runs'[b], overtaken'[b], last)
  <2>1. \/ runs'[b] = runs[b] + 1
        \/ runs'[b] = runs[b] /\ (ends'[b] = ends[b] \/ ends'[b] = ends[b] + 1)
    BY DEF Apart
  <2>2. overtaken[b] => overtaken'[b]
    BY DEF Apart
  <2> QED
    BY <1>1, <2>1, <2>2, ElsewhereAgrees
<1>3. Agreed(q, b)' /\ Learns(q, b)'
  BY <1>2 DEF Agreed, Learns, Apart
<1>4. ExecutorRuns(q, b)' /\ RunIsLatest(q, b)' /\ OutcomeIsSaved(q, b)' /\ DownIsEmpty(q, b)'
  BY DEF Core, ExecutorRuns, RunIsLatest, OutcomeIsSaved, DownIsEmpty, Apart, Executing
<1>5. Same(q, b)
  BY DEF Same, Apart, Required
<1> QED
  BY <1>3, <1>4, <1>5 DEF Core

-----------------------------------------------------------------------------
(* What the helpers of the steps do.                                       *)

LEMMA PersistOutcome ==
  ASSUME Shape, Totals, NEW p \in Proc, NEW m \in [Agent -> Memories], NEW own,
         Persist(p, m, own)
  PROVE  /\ failed' \in [Proc -> BOOLEAN] /\ faults' \in 0..MaxFaults
         /\ \A q \in Proc \ {p} : records'[q] = records[q] /\ failed'[q] = failed[q]
         /\ \A b \in Agent :
              /\ \/ records'[p][b] = records[p][b]
                 \/ m[b] # NoAgent /\ records'[p][b] = Raw(m[b])
              /\ b \in own /\ m[b] # NoAgent => records'[p][b] = Raw(m[b]) \/ failed'[p]
              /\ disk'[b] = disk[b] \/ (m[b] # NoAgent /\ disk'[b] = Raw(m[b]))
<1>1. PICK S \in SUBSET Dirty(p, m, own) :
        /\ IF S = Dirty(p, m, own) THEN faults' = faults ELSE Fault
        /\ failed' = [failed EXCEPT ![p] = S # Dirty(p, m, own)]
        /\ disk' = [a \in Agent |-> IF a \in S THEN Raw(m[a]) ELSE disk[a]]
        /\ records' = [records EXCEPT ![p] =
                         [a \in Agent |-> IF a \in S THEN Raw(m[a]) ELSE records[p][a]]]
  BY DEF Persist
<1> DEFINE D == Dirty(p, m, own)
<1>2. \A b \in S : m[b] # NoAgent
  BY DEF Dirty
<1>3. failed' \in [Proc -> BOOLEAN] /\ failed'[p] = (S # D)
      /\ \A q \in Proc \ {p} : failed'[q] = failed[q]
  BY <1>1 DEF Totals
<1>4. faults' \in 0..MaxFaults
  BY <1>1, LimitAssumption DEF Totals, Fault
<1>5. /\ \A q \in Proc \ {p} : records'[q] = records[q]
      /\ \A b \in Agent : records'[p][b] = IF b \in S THEN Raw(m[b]) ELSE records[p][b]
  BY <1>1 DEF Shape
<1>6. ASSUME NEW b \in Agent, b \in own, m[b] # NoAgent, S = D
      PROVE  records'[p][b] = Raw(m[b])
  BY <1>5, <1>6 DEF Dirty
<1> QED
  BY <1>1, <1>2, <1>3, <1>4, <1>5, <1>6

LEMMA TrimOutcome ==
  ASSUME Shape, Totals, NEW p \in Proc, NEW m, NEW drv, NEW recs, Trim(p, m, recs, drv)
  PROVE  /\ owned' \in [Proc -> SUBSET Agent]
         /\ \A q \in Proc \ {p} :
              mem'[q] = mem[q] /\ driver'[q] = driver[q] /\ owned'[q] = owned[q]
         /\ \A b \in Agent :
              \/ /\ mem'[p][b] = m[b] /\ driver'[p][b] = drv[b]
                 /\ b \in owned[p] => b \in owned'[p]
              \/ /\ m[b].status \in Terminal /\ recs[b] # NoRecord
                 /\ mem'[p][b] = NoAgent /\ driver'[p][b] = "none"
<1> DEFINE T == {a \in Agent : /\ m[a].status \in Terminal /\ recs[a] # NoRecord
                               /\ drv[a] \in {"none", "done"}}
<1>1. PICK E \in SUBSET T :
        /\ mem' = [mem EXCEPT ![p] = [a \in Agent |-> IF a \in E THEN NoAgent ELSE m[a]]]
        /\ driver' = [driver EXCEPT ![p] = [a \in Agent |-> IF a \in E THEN "none" ELSE drv[a]]]
        /\ owned' = [owned EXCEPT ![p] = @ \ E]
  BY DEF Trim
<1>2. /\ \A q \in Proc \ {p} :
           mem'[q] = mem[q] /\ driver'[q] = driver[q] /\ owned'[q] = owned[q]
      /\ \A b \in Agent : /\ mem'[p][b] = IF b \in E THEN NoAgent ELSE m[b]
                          /\ driver'[p][b] = IF b \in E THEN "none" ELSE drv[b]
  BY <1>1 DEF Shape, Totals
<1>3. owned'[p] = owned[p] \ E /\ owned' \in [Proc -> SUBSET Agent]
  BY <1>1 DEF Totals
<1> QED
  BY <1>2, <1>3

BoxesKept ==
  /\ box' \in [Proc -> Boxes]
  /\ \A q \in Proc : Fits(box'[q]) /\ (q \notin Listening => box'[q] = EmptyBox)

LEMMA TellOutcome ==
  ASSUME Totals, NEW p \in Proc, NEW a \in Agent, NEW kind \in Kind, Tell(p, a, kind)
  PROVE  /\ BoxesKept /\ \A q \in Proc \ {p} : box'[q] = box[q]
         /\ p \in Listening /\ ~box'[p].resync =>
              /\ ~box[p].resync
              /\ \A b, before : Latest(box'[p].queue, b, before) =
                                  IF b = a /\ kind \in LifeKind THEN kind
                                  ELSE Latest(box[p].queue, b, before)
<1> DEFINE msg == [agent |-> a, kind |-> kind]
           r == Sent(box[p], msg)
<1>1. msg \in Message /\ msg.agent = a /\ msg.kind = kind
  BY DEF Message
<1>2. box[p] \in Boxes /\ Fits(box[p])
  BY DEF Totals
<1> HIDE DEF msg
<1>3. /\ r \in Boxes /\ Fits(r) /\ (box[p].resync => r.resync)
      /\ ~r.resync => \A b, before :
           Latest(r.queue, b, before) = IF msg.agent = b /\ msg.kind \in LifeKind THEN msg.kind
                                        ELSE Latest(box[p].queue, b, before)
  BY <1>1, <1>2, SentEffect
<1>4. CASE p \in Listening
  <2>1. box' = [box EXCEPT ![p] = r]
    BY <1>4 DEF Tell, msg
  <2> HIDE DEF r
  <2>2. box' \in [Proc -> Boxes] /\ box'[p] = r /\ \A q \in Proc \ {p} : box'[q] = box[q]
    BY <1>3, <2>1 DEF Totals
  <2>3. BoxesKept
    BY <1>3, <1>4, <2>2 DEF BoxesKept, Totals
  <2> QED
    BY <1>1, <1>3, <2>2, <2>3
<1>5. CASE p \notin Listening
  <2>1. box' = box
    BY <1>5 DEF Tell
  <2> QED
    BY <1>5, <2>1 DEF Totals, BoxesKept
<1> QED
  BY <1>4, <1>5

LEMMA OutcomeTypes ==
  ASSUME OutcomeInv
  PROVE  /\ Totals /\ \A p \in Proc, a \in Agent : Core(p, a) /\ Learns(p, a)
         /\ \A a \in Agent : runs[a] \in Nat /\ ends[a] \in Nat
         /\ \A p \in Proc, a \in Agent :
              /\ mem[p][a] \in Memories /\ records[p][a] \in Papers
              /\ mem[p][a].run <= runs[a] /\ records[p][a].run <= runs[a]
              /\ Required(p, a) \in Memories /\ Required(p, a).run <= runs[a]
              /\ mem[p][a] # NoAgent => Required(p, a) = mem[p][a]
              /\ mem[p][a] = NoAgent => Required(p, a) = Restored(records[p][a])
<1>1. \A a \in Agent : runs[a] \in Nat /\ ends[a] \in Nat
  BY LimitAssumption DEF OutcomeInv, Totals
<1>2. ASSUME NEW p \in Proc, NEW a \in Agent
      PROVE  /\ mem[p][a] \in Memories /\ records[p][a] \in Papers
             /\ mem[p][a].run <= runs[a] /\ records[p][a].run <= runs[a]
  BY DEF OutcomeInv, Core, Agreed, Agrees
<1>3. ASSUME NEW p \in Proc, NEW a \in Agent
      PROVE  /\ mem[p][a] # NoAgent => Required(p, a) = mem[p][a]
             /\ mem[p][a] = NoAgent => Required(p, a) = Restored(records[p][a])
  BY DEF Required
<1>4. ASSUME NEW p \in Proc, NEW a \in Agent
      PROVE  Required(p, a) \in Memories /\ Required(p, a).run <= runs[a]
  BY <1>2, <1>3, PaperRestored
<1> QED
  BY <1>1, <1>2, <1>3, <1>4 DEF OutcomeInv

\* A running agent is in one process.
LEMMA OneRuns ==
  ASSUME LoneInv, NEW a \in Agent, NEW p \in Proc, NEW q \in Proc, ~overtaken[a],
         mem[p][a].status = "running", mem[q][a].status = "running"
  PROVE  p = q
BY DEF LoneInv, Lone, Live

-----------------------------------------------------------------------------
(* The steps that begin and end a run.                                     *)

LEMMA StartRunOutcome ==
  ASSUME WaitInv, WaitInv', LoneInv, OutcomeInv, NEW p \in Proc, NEW a \in Agent, StartRun(p, a)
  PROVE  OutcomeInv' /\ Fated
<1> DEFINE n == runs[a]
           y == Started(n + 1)
           m == [mem[p] EXCEPT ![a] = y]
<1>1. /\ Shape /\ Totals /\ n \in Nat /\ mem[p] \in [Agent -> Memories]
      /\ overtaken \in [Agent -> BOOLEAN] /\ overtaken' \in [Agent -> BOOLEAN]
      /\ Shape'
  BY OutcomeTypes DEF WaitInv, AgentInv, Shape
<1>2. Agrees(mem[p][a], records[p][a], n, ends[a], overtaken[a])
  BY DEF OutcomeInv, Core, Agreed
<1>3. /\ Agrees(y, records[p][a], n + 1, 0, overtaken'[a])
      /\ y.status = "running" /\ y # NoAgent /\ y \in Memories /\ y.mine /\ y.run = n + 1
      /\ Heard(y, records[p][a], n + 1, overtaken'[a], "started")
  BY <1>1, <1>2, StartedAgrees
<1> HIDE DEF y
<1>4. m \in [Agent -> Memories] /\ m[a] = y /\ \A b \in Agent \ {a} : m[b] = mem[p][b]
  BY <1>1, <1>3
<1>5. /\ mem' = [mem EXCEPT ![p] = m] /\ Persist(p, m, owned[p] \cup {a})
      /\ phase[p] = "up" /\ UNCHANGED <<phase, view, stops>>
      /\ n < MaxRuns /\ runs' = [runs EXCEPT ![a] = @ + 1]
      /\ owned' = [owned EXCEPT ![p] = @ \cup {a}]
      /\ driver' = [driver EXCEPT ![p][a] = "new"]
      /\ Tell(p, a, "started") /\ ends' = [ends EXCEPT ![a] = 0]
      /\ overtaken[a] => overtaken'[a]
      /\ \A b \in Agent \ {a} : overtaken'[b] = overtaken[b]
  BY <1>1 DEF StartRun, Admits, y
<1> HIDE DEF m
<1>6. /\ failed' \in [Proc -> BOOLEAN] /\ faults' \in 0..MaxFaults
      /\ \A q \in Proc \ {p} : records'[q] = records[q] /\ failed'[q] = failed[q]
      /\ \A b \in Agent :
           /\ \/ records'[p][b] = records[p][b]
              \/ m[b] # NoAgent /\ records'[p][b] = Raw(m[b])
           /\ b \in owned[p] \cup {a} /\ m[b] # NoAgent =>
                records'[p][b] = Raw(m[b]) \/ failed'[p]
           /\ disk'[b] = disk[b] \/ (m[b] # NoAgent /\ disk'[b] = Raw(m[b]))
  BY <1>1, <1>4, <1>5, PersistOutcome
<1>7. /\ BoxesKept /\ \A q \in Proc \ {p} : box'[q] = box[q]
      /\ p \in Listening /\ ~box'[p].resync =>
           /\ ~box[p].resync
           /\ \A b, before : Latest(box'[p].queue, b, before) =
                IF b = a THEN "started" ELSE Latest(box[p].queue, b, before)
  BY <1>1, <1>5, TellOutcome, SMTT(40) DEF Kind, LifeKind
<1>8. /\ mem'[p][a] = y /\ \A b \in Agent \ {a} : mem'[p][b] = mem[p][b]
      /\ \A q \in Proc \ {p} : mem'[q] = mem[q] /\ driver'[q] = driver[q] /\ owned'[q] = owned[q]
      /\ \A b \in Agent \ {a} : driver'[p][b] = driver[p][b]
      /\ runs'[a] = n + 1 /\ \A b \in Agent \ {a} : runs'[b] = runs[b]
      /\ ends'[a] = 0 /\ \A b \in Agent \ {a} : ends'[b] = ends[b]
      /\ owned'[p] = owned[p] \cup {a} /\ a \in owned'[p] /\ owned' \in [Proc -> SUBSET Agent]
  BY <1>1, <1>4, <1>5 DEF Shape, Totals
<1>9. Core(p, a)' /\ Learns(p, a)'
  <2>1. /\ Agrees(y, records'[p][a], n + 1, 0, overtaken'[a])
        /\ Heard(y, records'[p][a], n + 1, overtaken'[a], "started")
    BY <1>3, <1>4, <1>6, WrittenAgrees
  <2>2. Agreed(p, a)' /\ Learns(p, a)'
    BY <1>7, <1>8, <2>1 DEF Agreed, Learns
  <2>3. ExecutorRuns(p, a)' /\ RunIsLatest(p, a)'
    BY <1>3, <1>8 DEF ExecutorRuns, RunIsLatest
  <2>4. OutcomeIsSaved(p, a)' /\ DownIsEmpty(p, a)'
    BY <1>3, <1>5, <1>8 DEF OutcomeIsSaved, Saved, DownIsEmpty, Terminal
  <2> QED
    BY <2>2, <2>3, <2>4 DEF Core
<1>10. ASSUME NEW b \in Agent \ {a}
       PROVE  Core(p, b)' /\ Learns(p, b)' /\ Same(p, b)
  <2>1. /\ runs[b] \in Nat /\ Core(p, b) /\ Learns(p, b) /\ m[b] = mem[p][b]
        /\ mem[p][b] \in Memories
    BY <1>4, OutcomeTypes
  <2>2. Stands(p, b, mem[p][b])
    <3>1. Executing(p, b)' => Executing(p, b)
      BY <1>8 DEF Executing
    <3>2. /\ \/ records'[p][b] = records[p][b]
             \/ mem[p][b] # NoAgent /\ records'[p][b] = Raw(mem[p][b])
          /\ b \in owned[p] /\ mem[p][b] # NoAgent =>
               records'[p][b] = Raw(mem[p][b]) \/ failed'[p]
      BY <1>6, <2>1
    <3> QED
      BY <1>5, <1>8, <2>1, <3>1, <3>2 DEF Stands
  <2>3. Unheard(p, b)
    BY <1>5, <1>7 DEF Unheard
  <2> QED
    BY <2>1, <2>2, <2>3, StandsLearns
<1>11. ASSUME NEW q \in Proc \ {p}, NEW b \in Agent
       PROVE  Core(q, b)' /\ Learns(q, b)' /\ Same(q, b)
  <2>1. runs[b] \in Nat /\ ends[b] \in Nat /\ Core(q, b) /\ Learns(q, b)
    BY OutcomeTypes
  <2>2. mem[q][b].status = "running" /\ ~overtaken'[b] => b # a
    <3>1. LoneInv'
      BY StartRunLone
    <3>2. mem'[p][a].status = "running" /\ mem'[q] = mem[q]
      BY <1>3, <1>8
    <3> QED
      BY <3>1, <3>2, ProcAssumption DEF LoneInv, Lone, Live
  <2>3. Apart(q, b)
    BY <1>5, <1>6, <1>7, <1>8, <2>2 DEF Apart
  <2> QED
    BY <1>1, <2>1, <2>3, ApartKeepsOutcome
<1>12. Totals'
  <2>1. runs' \in [Agent -> 0..MaxRuns] /\ ends' \in [Agent -> Nat]
    BY <1>1, <1>5, LimitAssumption DEF Totals
  <2>2. ASSUME NEW b \in Agent
        PROVE  (~overtaken'[b] => ends'[b] <= 1) /\ OnDisk(disk'[b], runs'[b])
    <3>1. (~overtaken[b] => ends[b] <= 1) /\ OnDisk(disk[b], runs[b]) /\ runs[b] \in Nat
      BY <1>1, OutcomeTypes DEF Totals
    <3>2. ~overtaken'[b] => ends'[b] <= 1
      BY <1>5, <1>8, <3>1
    <3>3. m[b] # NoAgent => Raw(m[b]) \in Papers /\ Raw(m[b]).run = m[b].run
      BY <1>4, MemoryRaw
    <3>4. m[b].run <= runs'[b]
      BY <1>3, <1>4, <1>8, OutcomeTypes
    <3>5. runs[b] <= runs'[b]
      BY <1>8, <3>1
    <3>6. disk[b].run \in Nat
      BY <3>1 DEF OnDisk, Papers, NoRecord, Tombstone
    <3>7. OnDisk(disk'[b], runs'[b])
      <4>1. CASE disk'[b] = disk[b]
        BY <1>8, <3>1, <3>5, <3>6, <4>1 DEF OnDisk
      <4>2. CASE m[b] # NoAgent /\ disk'[b] = Raw(m[b])
        BY <3>3, <3>4, <4>2 DEF OnDisk
      <4> QED
        BY <1>6, <4>1, <4>2
    <3> QED
      BY <3>2, <3>7
  <2>3. stops' \in 0..MaxStops /\ view' \in [Proc -> [Agent -> LifeKind \cup {"none"}]]
    BY <1>1, <1>5 DEF Totals
  <2> QED
    BY <1>6, <1>7, <1>8, <2>1, <2>2, <2>3 DEF Totals, BoxesKept
<1> QED
  <2>1. OutcomeInv'
    BY <1>9, <1>10, <1>11, <1>12 DEF OutcomeInv
  <2>2. Fated
    BY <1>1, <1>8, <1>10, <1>11 DEF Fated
  <2> QED
    BY <2>1, <2>2

\* The outcome s of a is reported by p; the driver may be evicted with others.
LEMMA EndsRunOutcome ==
  ASSUME WaitInv, WaitInv', LoneInv, OutcomeInv, NEW p \in Proc, NEW a \in Agent, NEW s \in Outcome,
         overtaken[a] \/ mem[p][a].status = "running", phase[p] # "down",
         NEW m \in [Agent -> Memories], m[a] = Ended(mem[p][a], s),
         \A b \in Agent \ {a} : m[b] = mem[p][b],
         Persist(p, m, owned[p]), Released(p, a), Tell(p, a, s),
         ends' = [ends EXCEPT ![a] = @ + 1],
         UNCHANGED <<phase, view, overtaken, runs, stops>>,
         owned' \in [Proc -> SUBSET Agent],
         \A q \in Proc \ {p} : mem'[q] = mem[q] /\ driver'[q] = driver[q] /\ owned'[q] = owned[q],
         \A b \in Agent :
           \/ /\ mem'[p][b] = m[b] /\ (b \in owned[p] => b \in owned'[p])
              /\ b # a => driver'[p][b] = driver[p][b]
              /\ b = a => (Executing(p, a)' => overtaken[a])
           \/ /\ m[b].status \in Terminal /\ records'[p][b] # NoRecord
              /\ mem'[p][b] = NoAgent /\ driver'[p][b] = "none"
  PROVE  OutcomeInv' /\ Fated
<1> DEFINE n == runs[a]
           x == mem[p][a]
           y == Ended(x, s)
<1>1. /\ Shape /\ Totals /\ n \in Nat /\ ends[a] \in Nat /\ overtaken \in [Agent -> BOOLEAN]
      /\ Core(p, a) /\ Learns(p, a) /\ x \in Memories
  BY OutcomeTypes DEF WaitInv, AgentInv, Shape
<1>2. /\ Agrees(y, records[p][a], n, ends[a] + 1, overtaken[a])
      /\ y.status = s /\ y # NoAgent /\ y \in Memories
      /\ Heard(y, records[p][a], n, overtaken[a], s)
  BY <1>1, EndedAgrees DEF Core, Agreed
<1>3. ends' = [ends EXCEPT ![a] = @ + 1] /\ UNCHANGED <<phase, view, overtaken, runs, stops>>
  OBVIOUS
<1> HIDE DEF y
<1>4. /\ failed' \in [Proc -> BOOLEAN] /\ faults' \in 0..MaxFaults
      /\ \A q \in Proc \ {p} : records'[q] = records[q] /\ failed'[q] = failed[q]
      /\ \A b \in Agent :
           /\ \/ records'[p][b] = records[p][b]
              \/ m[b] # NoAgent /\ records'[p][b] = Raw(m[b])
           /\ b \in owned[p] /\ m[b] # NoAgent => records'[p][b] = Raw(m[b]) \/ failed'[p]
           /\ disk'[b] = disk[b] \/ (m[b] # NoAgent /\ disk'[b] = Raw(m[b]))
  BY <1>1, PersistOutcome
<1>5. /\ BoxesKept /\ \A q \in Proc \ {p} : box'[q] = box[q]
      /\ p \in Listening /\ ~box'[p].resync =>
           /\ ~box[p].resync
           /\ \A b, before : Latest(box'[p].queue, b, before) =
                IF b = a THEN s ELSE Latest(box[p].queue, b, before)
  <2>1. s \in Kind /\ s \in LifeKind
    BY DEF Outcome, Kind, LifeKind
  <2>2. /\ BoxesKept /\ \A q \in Proc \ {p} : box'[q] = box[q]
        /\ p \in Listening /\ ~box'[p].resync =>
             /\ ~box[p].resync
             /\ \A b, before : Latest(box'[p].queue, b, before) =
                                 IF b = a /\ s \in LifeKind THEN s
                                 ELSE Latest(box[p].queue, b, before)
    BY <1>1, <2>1, TellOutcome
  <2> QED
    BY <2>1, <2>2
<1>7. ends'[a] = ends[a] + 1 /\ ends' \in [Agent -> Nat]
      /\ \A b \in Agent \ {a} : ends'[b] = ends[b]
  BY <1>1, <1>3 DEF Totals
<1>8. m[a] = y /\ s \in Terminal /\ s # "running"
  BY DEF y, Outcome, Terminal
<1>9. Core(p, a)' /\ Learns(p, a)'
  <2>1. /\ Agrees(y, records'[p][a], n, ends[a] + 1, overtaken[a])
        /\ Heard(y, records'[p][a], n, overtaken[a], s)
    BY <1>2, <1>4, <1>8, WrittenAgrees
  <2>2. DownIsEmpty(p, a)'
    BY <1>3 DEF DownIsEmpty
  <2>3. CASE /\ mem'[p][a] = y /\ (a \in owned[p] => a \in owned'[p])
             /\ Executing(p, a)' => overtaken[a]
    <3>1. Agreed(p, a)' /\ Learns(p, a)'
      BY <1>3, <1>5, <1>7, <2>1, <2>3 DEF Agreed, Learns
    <3>2. ExecutorRuns(p, a)' /\ RunIsLatest(p, a)'
      BY <1>2, <1>3, <1>8, <2>3 DEF ExecutorRuns, RunIsLatest
    <3>3. OutcomeIsSaved(p, a)'
      <4>1. SUFFICES ASSUME ~overtaken[a]
                     PROVE  Saved(y, records'[p][a], failed'[p] /\ a \in owned'[p])
        BY <1>3, <2>3 DEF OutcomeIsSaved
      <4>2. a \in owned[p] /\ a \in owned'[p]
        BY <1>1, <2>3, <4>1 DEF Core, RunIsLatest
      <4>3. records'[p][a] = Raw(y) \/ failed'[p]
        BY <1>2, <1>4, <1>8, <4>2
      <4>4. CASE records'[p][a] = Raw(y)
        BY <1>2, <4>4, SavedWritten
      <4>5. CASE failed'[p]
        BY <4>2, <4>5 DEF Saved
      <4> QED
        BY <4>3, <4>4, <4>5
    <3> QED
      BY <2>2, <3>1, <3>2, <3>3 DEF Core
  <2>4. CASE mem'[p][a] = NoAgent /\ driver'[p][a] = "none"
    <3>1. /\ Agrees(NoAgent, records'[p][a], n, ends[a] + 1, overtaken[a])
          /\ Heard(NoAgent, records'[p][a], n, overtaken[a], s)
      BY <1>1, <1>2, <1>8, <2>1, EvictedAgrees
    <3>2. Agreed(p, a)' /\ Learns(p, a)'
      BY <1>3, <1>5, <1>7, <2>4, <3>1 DEF Agreed, Learns
    <3>3. ExecutorRuns(p, a)' /\ RunIsLatest(p, a)' /\ OutcomeIsSaved(p, a)'
      BY <2>4, NoAgentFields
         DEF ExecutorRuns, RunIsLatest, OutcomeIsSaved, Saved, Executing, Terminal
    <3> QED
      BY <2>2, <3>2, <3>3 DEF Core
  <2> QED
    BY <1>8, <2>3, <2>4
<1>10. Same(p, a)
  BY <1>1, NoAgentFields DEF Same, Required, Terminal
<1>11. ASSUME NEW b \in Agent \ {a}
       PROVE  Core(p, b)' /\ Learns(p, b)' /\ Same(p, b)
  <2>1. /\ runs[b] \in Nat /\ Core(p, b) /\ Learns(p, b) /\ m[b] = mem[p][b]
        /\ mem[p][b] \in Memories
    BY OutcomeTypes
  <2>2. Stands(p, b, mem[p][b])
    <3>1. \/ /\ mem'[p][b] = mem[p][b] /\ driver'[p][b] = driver[p][b]
             /\ b \in owned[p] => b \in owned'[p]
          \/ /\ mem[p][b].status \in Terminal /\ records'[p][b] # NoRecord
             /\ mem'[p][b] = NoAgent /\ driver'[p][b] = "none"
      BY <2>1
    <3>2. /\ \/ records'[p][b] = records[p][b]
             \/ mem[p][b] # NoAgent /\ records'[p][b] = Raw(mem[p][b])
          /\ b \in owned[p] /\ mem[p][b] # NoAgent =>
               records'[p][b] = Raw(mem[p][b]) \/ failed'[p]
      BY <1>4, <2>1
    <3> QED
      BY <1>3, <1>7, <2>1, <3>1, <3>2 DEF Stands, Executing
  <2>3. Unheard(p, b)
    BY <1>3, <1>5 DEF Unheard
  <2> QED
    BY <2>1, <2>2, <2>3, StandsLearns
<1>12. ASSUME NEW q \in Proc \ {p}, NEW b \in Agent
       PROVE  Core(q, b)' /\ Learns(q, b)' /\ Same(q, b)
  <2>1. /\ runs[b] \in Nat /\ ends[b] \in Nat /\ Core(q, b) /\ Learns(q, b)
        /\ overtaken[b] \in BOOLEAN /\ overtaken'[b] \in BOOLEAN
    BY <1>1, <1>3, OutcomeTypes
  <2>2. mem[q][b].status = "running" /\ ~overtaken[b] => b # a
    BY OneRuns
  <2>3. Apart(q, b)
    BY <1>3, <1>4, <1>5, <1>7, <2>2 DEF Apart
  <2> QED
    BY <2>1, <2>3, ApartKeepsOutcome
<1>13. Totals'
  <2>1. ASSUME NEW b \in Agent
        PROVE  (~overtaken'[b] => ends'[b] <= 1) /\ OnDisk(disk'[b], runs'[b])
    <3>1. (~overtaken[b] => ends[b] <= 1) /\ OnDisk(disk[b], runs[b]) /\ runs[b] \in Nat
      BY <1>1, OutcomeTypes DEF Totals
    <3>2. ~overtaken'[b] => ends'[b] <= 1
      BY <1>1, <1>3, <1>7, <3>1 DEF Core, RunIsLatest
    <3>3. m[b] # NoAgent => Raw(m[b]) \in Papers /\ Raw(m[b]).run = m[b].run
      BY MemoryRaw
    <3>4. m[b].run <= runs[b]
      BY <1>2, <1>8, OutcomeTypes DEF Agrees
    <3> QED
      BY <1>3, <1>4, <3>1, <3>2, <3>3, <3>4 DEF OnDisk
  <2>2. /\ stops' \in 0..MaxStops /\ view' \in [Proc -> [Agent -> LifeKind \cup {"none"}]]
        /\ runs' \in [Agent -> 0..MaxRuns]
    BY <1>1, <1>3 DEF Totals
  <2> QED
    BY <1>4, <1>5, <1>7, <2>1, <2>2 DEF Totals, BoxesKept
<1> QED
  <2>1. OutcomeInv'
    BY <1>9, <1>11, <1>12, <1>13 DEF OutcomeInv
  <2>2. Fated
    BY <1>10, <1>11, <1>12 DEF Fated
  <2> QED
    BY <2>1, <2>2

-----------------------------------------------------------------------------
(* The steps that neither begin nor end a run.                             *)

\* What such a step of p leaves alone.
Others(p) ==
  \A q \in Proc \ {p} :
    /\ mem'[q] = mem[q] /\ records'[q] = records[q] /\ driver'[q] = driver[q]
    /\ owned'[q] = owned[q] /\ failed'[q] = failed[q] /\ box'[q] = box[q]
    /\ view'[q] = view[q] /\ phase'[q] = phase[q]

LEMMA QuietElsewhere ==
  ASSUME WaitInv, OutcomeInv, NEW p \in Proc, Others(p), UNCHANGED <<runs, ends, overtaken>>,
         NEW q \in Proc \ {p}, NEW b \in Agent
  PROVE  Core(q, b)' /\ Learns(q, b)' /\ Same(q, b)
<1>1. /\ runs[b] \in Nat /\ ends[b] \in Nat /\ Core(q, b) /\ Learns(q, b)
      /\ overtaken \in [Agent -> BOOLEAN]
  BY OutcomeTypes DEF WaitInv, AgentInv, Shape
<1>2. Apart(q, b)
  BY <1>1 DEF Apart, Others, Core, RunIsLatest
<1> QED
  BY <1>1, <1>2, ApartKeepsOutcome

LEMMA QuietStep ==
  ASSUME WaitInv, OutcomeInv, NEW p \in Proc, Others(p), UNCHANGED <<runs, ends, overtaken>>,
         Totals', \A b \in Agent : Unheard(p, b) /\ \E x : Stands(p, b, x)
  PROVE  OutcomeInv' /\ Fated
<1>1. ASSUME NEW b \in Agent
      PROVE  Core(p, b)' /\ Learns(p, b)' /\ Same(p, b)
  <2>1. PICK x : Stands(p, b, x)
    OBVIOUS
  <2>2. runs[b] \in Nat /\ Core(p, b) /\ Learns(p, b) /\ Unheard(p, b)
    BY OutcomeTypes
  <2> QED
    BY <2>1, <2>2, StandsLearns
<1>2. \A q \in Proc, b \in Agent : Core(q, b)' /\ Learns(q, b)' /\ Same(q, b)
  BY <1>1, QuietElsewhere
<1> QED
  BY <1>2 DEF OutcomeInv, Fated

\* A step that leaves memory and records as they are.
LEMMA IdleStands ==
  ASSUME OutcomeInv, NEW p \in Proc, NEW b \in Agent,
         UNCHANGED <<mem, records, owned, failed, runs, ends, overtaken>>,
         Executing(p, b)' => Executing(p, b),
         phase'[p] # "down" \/ phase'[p] = phase[p]
  PROVE  Stands(p, b, mem[p][b])
BY OutcomeTypes DEF Stands

LEMMA UnchangedOutcome ==
  ASSUME WaitInv, OutcomeInv, UNCHANGED vars
  PROVE  OutcomeInv' /\ Fated
<1>1. /\ UNCHANGED <<phase, mem, records, owned, failed, driver, claim, disk, box, view>>
      /\ UNCHANGED <<ends, overtaken, runs, faults, stops>>
  BY DEF vars
<1>2. OutcomeInv'
  BY <1>1 DEF OutcomeInv, Totals, Core, Learns, Agreed, ExecutorRuns, RunIsLatest, OutcomeIsSaved,
     DownIsEmpty, Executing
<1>3. Fated
  BY <1>1 DEF Fated, Same, Required
<1> QED
  BY <1>2, <1>3

LEMMA DriveOnOutcome ==
  ASSUME WaitInv, OutcomeInv, NEW p \in Proc, NEW a \in Agent,
         DriverStarts(p, a) \/ ReportsProgress(p, a)
  PROVE  OutcomeInv' /\ Fated
<1>1. UNCHANGED <<phase, mem, records, owned, failed, claim, disk, view, ends, overtaken,
                  runs, faults, stops>>
  BY DEF DriverStarts, ReportsProgress
<1>2. Totals /\ driver \in [Proc -> [Agent -> Drivers]]
  BY DEF OutcomeInv, WaitInv, AgentInv, Shape
<1>3. CASE DriverStarts(p, a)
  <2>1. /\ driver[p][a] = "new" /\ driver' = [driver EXCEPT ![p][a] = "live"]
        /\ UNCHANGED box
    BY <1>3 DEF DriverStarts
  <2>2. Others(p) /\ \A b \in Agent : Executing(p, b)' => Executing(p, b)
    BY <1>1, <1>2, <2>1 DEF Others, Executing
  <2>3. \A b \in Agent : Stands(p, b, mem[p][b])
    BY <1>1, <2>2, IdleStands
  <2>4. Totals' /\ \A b \in Agent : Unheard(p, b)
    BY <1>1, <1>2, <2>1 DEF Totals, Unheard
  <2> QED
    BY <1>1, <2>2, <2>3, <2>4, QuietStep
<1>4. CASE ReportsProgress(p, a)
  <2>1. PICK kind \in {"progress", "usage"} : Tell(p, a, kind)
    BY <1>4 DEF ReportsProgress
  <2>2. driver' = driver
    BY <1>4 DEF ReportsProgress
  <2>3. kind \in Kind /\ kind \notin LifeKind
    BY DEF Kind, LifeKind
  <2>4. /\ BoxesKept /\ \A q \in Proc \ {p} : box'[q] = box[q]
        /\ p \in Listening /\ ~box'[p].resync =>
             /\ ~box[p].resync
             /\ \A b, before : Latest(box'[p].queue, b, before) =
                                 IF b = a /\ kind \in LifeKind THEN kind
                                 ELSE Latest(box[p].queue, b, before)
    BY <1>2, <2>1, <2>3, TellOutcome
  <2>5. Others(p) /\ \A b \in Agent : Unheard(p, b)
    BY <1>1, <2>2, <2>3, <2>4 DEF Others, Unheard
  <2>6. Totals'
    BY <1>1, <1>2, <2>4 DEF Totals, BoxesKept
  <2>7. \A b \in Agent : Stands(p, b, mem[p][b])
    BY <1>1, <2>2, IdleStands DEF Executing
  <2> QED
    BY <1>1, <2>5, <2>6, <2>7, QuietStep
<1> QED
  BY <1>3, <1>4

LEMMA LoadedStands ==
  ASSUME OutcomeInv, NEW p \in Proc, NEW S, NEW b \in Agent
  PROVE  LET x == Loaded(p, S)[b] IN
           x \in Memories /\ (x = mem[p][b] \/ (x # NoAgent /\ Raw(x) = Raw(Required(p, b))))
<1>1. Loaded(p, S)[b] = IF b \in S THEN Required(p, b) ELSE mem[p][b]
  BY DEF Loaded
<1>2. Required(p, b) = NoAgent => mem[p][b] = NoAgent
  BY OutcomeTypes
<1> QED
  BY <1>1, <1>2, OutcomeTypes

\* A step that restores agents from their records, and may evict some.
LEMMA ReadingOutcome ==
  ASSUME WaitInv, OutcomeInv, NEW p \in Proc, NEW S,
         UNCHANGED <<phase, records, failed, claim, disk, box, view, ends, overtaken, runs,
                     faults, stops>>,
         owned' \in [Proc -> SUBSET Agent],
         \A q \in Proc \ {p} : mem'[q] = mem[q] /\ driver'[q] = driver[q] /\ owned'[q] = owned[q],
         \A b \in Agent :
           \/ /\ mem'[p][b] = Loaded(p, S)[b] /\ driver'[p][b] = driver[p][b]
              /\ b \in owned[p] => b \in owned'[p]
           \/ /\ Loaded(p, S)[b].status \in Terminal /\ records[p][b] # NoRecord
              /\ mem'[p][b] = NoAgent /\ driver'[p][b] = "none"
  PROVE  OutcomeInv' /\ Fated
<1>1. Totals' /\ Others(p) /\ \A b \in Agent : Unheard(p, b)
  BY DEF OutcomeInv, Totals, Others, Unheard
<1>2. ASSUME NEW b \in Agent
      PROVE  Stands(p, b, Loaded(p, S)[b])
  <2> DEFINE x == Loaded(p, S)[b]
  <2>1. x \in Memories /\ (x = mem[p][b] \/ (x # NoAgent /\ Raw(x) = Raw(Required(p, b))))
    BY LoadedStands
  <2> HIDE DEF x
  <2>2. \/ /\ mem'[p][b] = x /\ driver'[p][b] = driver[p][b] /\ (b \in owned[p] => b \in owned'[p])
        \/ /\ x.status \in Terminal /\ records'[p][b] # NoRecord
           /\ mem'[p][b] = NoAgent /\ driver'[p][b] = "none"
    BY DEF x
  <2>3. Stands(p, b, x)
    BY <2>1, <2>2 DEF Stands, Executing
  <2> QED
    BY <2>3 DEF x
<1> QED
  BY <1>1, <1>2, QuietStep

LEMMA LooksOutcome ==
  ASSUME WaitInv, OutcomeInv, NEW p \in Proc, NEW a \in Agent, Looks(p, a)
  PROVE  OutcomeInv' /\ Fated
<1>1. UNCHANGED <<phase, records, failed, claim, disk, box, view, ends, overtaken, runs,
                  faults, stops>>
  BY DEF Looks
<1>2. Shape /\ Totals /\ mem \in [Proc -> [Agent -> Agents]] /\ Loaded(p, {a}) \in [Agent -> Agents]
  BY LoadedEffect DEF OutcomeInv, WaitInv, AgentInv, Shape
<1>3. CASE Trim(p, Loaded(p, {a}), records[p], driver[p])
  <2> DEFINE m == Loaded(p, {a})
  <2> HIDE DEF m
  <2>1. Trim(p, m, records[p], driver[p])
    BY <1>3 DEF m
  <2>2. /\ owned' \in [Proc -> SUBSET Agent]
        /\ \A q \in Proc \ {p} :
             mem'[q] = mem[q] /\ driver'[q] = driver[q] /\ owned'[q] = owned[q]
        /\ \A b \in Agent :
             \/ /\ mem'[p][b] = m[b] /\ driver'[p][b] = driver[p][b]
                /\ b \in owned[p] => b \in owned'[p]
             \/ /\ m[b].status \in Terminal /\ records[p][b] # NoRecord
                /\ mem'[p][b] = NoAgent /\ driver'[p][b] = "none"
    BY <1>2, <2>1, TrimOutcome
  <2> QED
    BY <1>1, <2>2, ReadingOutcome DEF m
<1>4. CASE mem' = [mem EXCEPT ![p] = Loaded(p, {a})] /\ UNCHANGED <<driver, owned>>
  <2>1. mem'[p] = Loaded(p, {a}) /\ \A q \in Proc \ {p} : mem'[q] = mem[q]
    BY <1>2, <1>4
  <2> QED
    BY <1>1, <1>2, <1>4, <2>1, ReadingOutcome DEF Totals
<1> QED
  BY <1>3, <1>4 DEF Looks

LEMMA WaitOutcome ==
  ASSUME WaitInv, OutcomeInv, NEW p \in Proc, Wait(p)
  PROVE  OutcomeInv' /\ Fated
<1>1. UNCHANGED <<phase, records, owned, failed, driver, claim, disk, box, view, ends, overtaken,
                  runs, faults, stops>>
  BY DEF Wait, WaitBegins, WaitWakes, WaitTimesOut, waitOthers
<1>2. Totals /\ mem \in [Proc -> [Agent -> Agents]]
  BY DEF OutcomeInv, WaitInv, AgentInv, Shape
<1>3. \/ UNCHANGED mem
      \/ \E S : mem' = [mem EXCEPT ![p] = Loaded(p, S)]
  <2>1. \A w : Reads(p, w) => UNCHANGED mem \/ \E S : mem' = [mem EXCEPT ![p] = Loaded(p, S)]
    BY DEF Reads
  <2>2. CASE WaitBegins(p)
    BY <2>1, <2>2 DEF WaitBegins
  <2>3. CASE WaitWakes(p)
    BY <2>1, <2>3 DEF WaitWakes
  <2>4. CASE WaitTimesOut(p)
    BY <2>4 DEF WaitTimesOut
  <2> QED
    BY <2>2, <2>3, <2>4 DEF Wait
<1>4. CASE UNCHANGED mem
  <2>1. Loaded(p, {}) = mem[p]
    BY <1>2 DEF Loaded
  <2> QED
    BY <1>1, <1>2, <1>4, <2>1, ReadingOutcome DEF Totals
<1>5. ASSUME NEW S, mem' = [mem EXCEPT ![p] = Loaded(p, S)]
      PROVE  OutcomeInv' /\ Fated
  <2>1. mem'[p] = Loaded(p, S) /\ \A q \in Proc \ {p} : mem'[q] = mem[q]
    BY <1>2, <1>5
  <2> QED
    BY <1>1, <1>2, <2>1, ReadingOutcome DEF Totals
<1> QED
  BY <1>3, <1>4, <1>5

\* A request restores the agent and marks it; no run begins or ends.
LEMMA RequestsOutcome ==
  ASSUME WaitInv, OutcomeInv, NEW p \in Proc, NEW c \in Caller, NEW a \in Agent,
         NEW x \in Memories, NEW close, x # NoAgent, Raw(x) = Raw(Required(p, a)),
         Requests(p, c, a, x, close), phase[p] # "down",
         claim' = claim \/ (claim[a] \in {p, Nobody} /\ claim' = [claim EXCEPT ![a] = p]),
         owned' = owned \/ owned' = [owned EXCEPT ![p] = @ \cup {a}],
         UNCHANGED requestOthers
  PROVE  OutcomeInv' /\ Fated
<1> DEFINE y == [x EXCEPT !.token = x.token \/ Hit(x)]
<1>1. UNCHANGED <<phase, records, failed, disk, box, view, ends, overtaken, runs, faults, stops>>
  BY DEF requestOthers
<1>2. /\ Totals /\ mem \in [Proc -> [Agent -> Agents]] /\ driver \in [Proc -> [Agent -> Drivers]]
      /\ claim \in [Agent -> Proc \cup {Nobody}]
  BY DEF OutcomeInv, WaitInv, AgentInv, Shape
<1>3. y \in Memories /\ y # NoAgent /\ Raw(y) = Raw(x)
  <2> DEFINE t == x.token \/ Hit(x)
  <2>1. x \in [status : Real, run : Nat, mine : BOOLEAN, token : BOOLEAN, closing : BOOLEAN]
    BY DEF Memories
  <2>2. t \in BOOLEAN /\ y = [x EXCEPT !.token = t]
    BY DEF Hit
  <2> HIDE DEF t, y
  <2>3. /\ y \in [status : Real, run : Nat, mine : BOOLEAN, token : BOOLEAN, closing : BOOLEAN]
        /\ y.status = x.status /\ y.run = x.run /\ y.mine = x.mine
    BY <2>1, <2>2
  <2> QED
    BY <2>1, <2>3 DEF Memories, NoAgent, Raw, Real, Terminal
<1>4. /\ mem' = [mem EXCEPT ![p][a] = y]
      /\ driver' = [driver EXCEPT ![p][a] = IF Hit(x) THEN Stopped(driver[p][a])
                                             ELSE driver[p][a]]
  BY <1>2 DEF Requests
<1> HIDE DEF y
<1>5. /\ mem'[p][a] = y /\ \A b \in Agent \ {a} : mem'[p][b] = mem[p][b]
      /\ \A q \in Proc \ {p} : mem'[q] = mem[q] /\ driver'[q] = driver[q]
      /\ \A b \in Agent : Executing(p, b)' => Executing(p, b)
  BY <1>2, <1>4 DEF Executing, Stopped
<1>6. /\ owned' \in [Proc -> SUBSET Agent] /\ \A q \in Proc \ {p} : owned'[q] = owned[q]
      /\ \A b \in Agent : b \in owned[p] => b \in owned'[p]
  <2>1. owned \in [Proc -> SUBSET Agent]
    BY <1>2 DEF Totals
  <2>2. CASE owned' = owned
    BY <2>1, <2>2
  <2>3. CASE owned' = [owned EXCEPT ![p] = @ \cup {a}]
    BY <2>1, <2>3
  <2> QED
    BY <2>2, <2>3
<1>8. Others(p) /\ Totals' /\ \A b \in Agent : Unheard(p, b)
  BY <1>1, <1>2, <1>5, <1>6 DEF Others, Totals, Unheard
<1>9. Stands(p, a, y)
  BY <1>1, <1>3, <1>5, <1>6 DEF Stands
<1>10. ASSUME NEW b \in Agent \ {a}
       PROVE  Stands(p, b, mem[p][b])
  BY <1>1, <1>5, <1>6, OutcomeTypes DEF Stands
<1> QED
  BY <1>1, <1>8, <1>9, <1>10, QuietStep

LEMMA BeginsOutcome ==
  ASSUME WaitInv, OutcomeInv, NEW p \in Proc, NEW c \in Caller, NEW a \in Agent,
         CancelBegins(p, c, a) \/ CloseBegins(p, c, a)
  PROVE  OutcomeInv' /\ Fated
<1> DEFINE x == Required(p, a)
           z == [x EXCEPT !.closing = TRUE]
<1>1. x \in Memories /\ x # NoAgent
  <2>1. Known(p, a)
    BY DEF CancelBegins, CloseBegins
  <2>2. mem[p][a] = NoAgent => x # NoAgent
    BY <2>1, OutcomeTypes, PaperRestored DEF Known
  <2> QED
    BY <2>2, OutcomeTypes
<1>2. CASE CancelBegins(p, c, a)
  <2>1. /\ phase[p] # "down" /\ Requests(p, c, a, x, FALSE) /\ UNCHANGED <<owned, claim>>
        /\ UNCHANGED requestOthers
    BY <1>2 DEF CancelBegins
  <2> HIDE DEF x
  <2>2. Raw(x) = Raw(Required(p, a))
    BY DEF x
  <2> QED
    BY <1>1, <2>1, <2>2, RequestsOutcome
<1>3. CASE CloseBegins(p, c, a)
  <2>1. /\ phase[p] # "down" /\ Requests(p, c, a, z, TRUE) /\ UNCHANGED requestOthers
        /\ claim[a] \in {p, Nobody} /\ claim' = [claim EXCEPT ![a] = p]
        /\ owned' = owned \/ owned' = [owned EXCEPT ![p] = @ \cup {a}]
    BY <1>3 DEF CloseBegins
  <2>2. z \in Memories /\ z # NoAgent /\ Raw(z) = Raw(Required(p, a))
    <3>1. x \in [status : Real, run : Nat, mine : BOOLEAN, token : BOOLEAN, closing : BOOLEAN]
      BY <1>1 DEF Memories
    <3>2. Raw(x) = Raw(Required(p, a))
      OBVIOUS
    <3> HIDE DEF x
    <3>3. /\ z \in [status : Real, run : Nat, mine : BOOLEAN, token : BOOLEAN, closing : BOOLEAN]
          /\ z.status = x.status /\ z.run = x.run /\ z.mine = x.mine
      BY <3>1
    <3> HIDE DEF z
    <3> QED
      BY <3>1, <3>2, <3>3 DEF Memories, NoAgent, Raw, Real, Terminal
  <2> HIDE DEF z
  <2> QED
    BY <2>1, <2>2, RequestsOutcome
<1> QED
  BY <1>2, <1>3

LEMMA ShutdownBeginsOutcome ==
  ASSUME WaitInv, OutcomeInv, NEW p \in Proc, ShutdownBegins(p)
  PROVE  OutcomeInv' /\ Fated
<1>1. /\ UNCHANGED <<records, owned, failed, claim, disk, box, view, ends, overtaken, runs, faults>>
      /\ phase[p] = "up" /\ stops < MaxStops /\ stops' = stops + 1
      /\ phase' = [phase EXCEPT ![p] = "stopping"]
      /\ mem' = [mem EXCEPT ![p] = [b \in Agent |->
                    IF Executing(p, b) THEN [mem[p][b] EXCEPT !.token = TRUE] ELSE mem[p][b]]]
      /\ driver' = [driver EXCEPT ![p] = [b \in Agent |-> Stopped(driver[p][b])]]
  BY DEF ShutdownBegins
<1>2. /\ Totals /\ mem \in [Proc -> [Agent -> Agents]] /\ driver \in [Proc -> [Agent -> Drivers]]
      /\ phase \in [Proc -> {"down", "up", "stopping", "closed"}]
  BY DEF OutcomeInv, WaitInv, AgentInv, Shape
<1>3. /\ \A q \in Proc \ {p} : mem'[q] = mem[q] /\ driver'[q] = driver[q] /\ phase'[q] = phase[q]
      /\ \A b \in Agent : Executing(p, b)' => Executing(p, b)
      /\ \A b \in Agent : mem'[p][b] = IF Executing(p, b) THEN [mem[p][b] EXCEPT !.token = TRUE]
                                       ELSE mem[p][b]
      /\ phase'[p] = "stopping"
  BY <1>1, <1>2 DEF Executing, Stopped
<1>4. stops' \in 0..MaxStops
  BY <1>1, <1>2, LimitAssumption DEF Totals
<1>5. Others(p) /\ Totals' /\ \A b \in Agent : Unheard(p, b)
  BY <1>1, <1>2, <1>3, <1>4 DEF Others, Totals, Unheard
<1>6. ASSUME NEW b \in Agent
      PROVE  Stands(p, b, mem'[p][b])
  <2> DEFINE x == mem[p][b]
             y == [x EXCEPT !.token = TRUE]
  <2>1. x \in Memories /\ (x # NoAgent => Required(p, b) = x)
    BY OutcomeTypes
  <2>2. CASE ~Executing(p, b)
    BY <1>1, <1>3, <2>1, <2>2 DEF Stands
  <2>3. CASE Executing(p, b)
    <3>1. x # NoAgent
      BY <2>3, NoAgentFields DEF WaitInv, Wakeful, HasMemory
    <3>2. x \in [status : Real, run : Nat, mine : BOOLEAN, token : BOOLEAN, closing : BOOLEAN]
      BY <2>1, <3>1 DEF Memories
    <3> HIDE DEF x
    <3>3. /\ y \in [status : Real, run : Nat, mine : BOOLEAN, token : BOOLEAN, closing : BOOLEAN]
          /\ y.status = x.status /\ y.run = x.run /\ y.mine = x.mine
      BY <3>2
    <3>4. mem'[p][b] = y
      BY <1>3, <2>3 DEF x
    <3> HIDE DEF y
    <3>5. y \in Memories /\ y # NoAgent /\ Raw(y) = Raw(x)
      BY <3>2, <3>3 DEF Memories, NoAgent, Raw, Real, Terminal
    <3> QED
      BY <1>1, <1>3, <2>1, <3>1, <3>4, <3>5 DEF Stands
  <2> QED
    BY <2>2, <2>3
<1> QED
  BY <1>1, <1>5, <1>6, QuietStep

\* A shutdown that ends leaves memory as it is.
LEMMA ShutdownEndsOutcome ==
  ASSUME WaitInv, OutcomeInv, NEW p \in Proc, ShutdownEnds(p)
  PROVE  OutcomeInv' /\ Fated
<1>1. /\ UNCHANGED <<mem, records, owned, failed, driver, disk, box, view, ends, overtaken, runs,
                     faults, stops>>
      /\ phase' = [phase EXCEPT ![p] = "closed"]
  BY DEF ShutdownEnds
<1>2. Shape /\ Totals /\ phase \in [Proc -> {"down", "up", "stopping", "closed"}]
  BY DEF OutcomeInv, WaitInv, AgentInv, Shape
<1>3. Others(p) /\ Totals' /\ \A b \in Agent : Unheard(p, b)
  BY <1>1, <1>2 DEF Others, Totals, Unheard
<1>4. ASSUME NEW b \in Agent
      PROVE  Stands(p, b, mem[p][b])
  <2>1. phase'[p] = "closed"
    BY <1>1, <1>2
  <2> QED
    BY <1>1, <2>1, OutcomeTypes DEF Stands, Executing
<1> QED
  BY <1>1, <1>3, <1>4, QuietStep

\* A drain tells the consumer what the queue said last, or what the snapshot says.
LEMMA DrainsOutcome ==
  ASSUME WaitInv, OutcomeInv, NEW p \in Proc, Drains(p)
  PROVE  OutcomeInv' /\ Fated
<1>1. /\ UNCHANGED <<phase, mem, records, owned, failed, driver, claim, disk, ends, overtaken,
                     runs, faults, stops>>
      /\ box' = [box EXCEPT ![p] = EmptyBox] /\ box[p] # EmptyBox
      /\ view' = [view EXCEPT ![p] =
                    [b \in Agent |-> Learnt(box[p], Snapshot(p), b, view[p][b])]]
  BY DEF Drains
<1>2. Totals
  BY DEF OutcomeInv
<1>3. EmptyBox \in Boxes /\ EmptyBox.queue = << >> /\ ~EmptyBox.resync /\ Fits(EmptyBox)
  BY CapacityAssumption DEF EmptyBox, Boxes, Fits
<1>4. ASSUME NEW b \in Agent
      PROVE  /\ Learnt(box[p], Snapshot(p), b, view[p][b]) \in LifeKind \cup {"none"}
             /\ p \in Listening =>
                  Heard(mem[p][b], records[p][b], runs[b], overtaken[b],
                        Learnt(box[p], Snapshot(p), b, view[p][b]))
  <2> DEFINE q == box[p].queue
             w == What(mem[p][b], records[p][b])
             l == Latest(q, b, view[p][b])
  <2>1. q \in Seq(Message) /\ view[p][b] \in LifeKind \cup {"none"}
    BY <1>2 DEF Totals, Boxes
  <2>2. l \in LifeKind \cup {"none"}
    <3>1. CASE About(q, b) = {}
      BY <2>1, <3>1, LatestIsBefore
    <3>2. CASE About(q, b) # {}
      <4>1. PICK k \in About(q, b) : \A j \in About(q, b) : j <= k
        BY <2>1, <3>2, LastAbout
      <4>2. l = q[k].kind
        BY <2>1, <4>1, LatestIs
      <4> QED
        BY <4>1, <4>2 DEF About
    <3> QED
      BY <3>1, <3>2
  <2>3. Required(p, b) = w /\ w \in Memories
    BY OutcomeTypes DEF Required, What
  <2>4. Known(p, b) => w # NoAgent
    BY <2>3, OutcomeTypes, PaperRestored DEF Known
  <2>5. w # NoAgent => w.status \in Real
    BY <2>3, MemoryRaw
  <2>6. Snapshot(p)[b] = IF Known(p, b) /\ w.mine THEN Told(w.status) ELSE "none"
    BY <2>3 DEF Snapshot
  <2>7. w.mine => Known(p, b)
    <3>1. SUFFICES ASSUME ~Known(p, b) PROVE ~w.mine
      OBVIOUS
    <3>2. mem[p][b] = NoAgent /\ records[p][b] = NoRecord
      BY <3>1 DEF Known
    <3>3. w = NoAgent
      BY <3>2, OutcomeTypes, PaperRestored DEF What
    <3> QED
      BY <3>3, NoAgentFields
  <2>8. w # NoAgent => Told(w.status) \in LifeKind
    BY <2>5 DEF Told, Real, Terminal, LifeKind
  <2>9. p \in Listening /\ ~box[p].resync =>
          Heard(mem[p][b], records[p][b], runs[b], overtaken[b], l)
    BY DEF OutcomeInv, Learns
  <2> HIDE DEF w, l
  <2>10. Learnt(box[p], Snapshot(p), b, view[p][b]) =
           IF box[p].resync /\ Snapshot(p)[b] # "none" THEN Snapshot(p)[b] ELSE l
    BY DEF Learnt, l
  <2>11. Learnt(box[p], Snapshot(p), b, view[p][b]) \in LifeKind \cup {"none"}
    BY <2>2, <2>4, <2>6, <2>8, <2>10
  <2>12. ASSUME box[p].resync, w.mine
         PROVE  Learnt(box[p], Snapshot(p), b, view[p][b]) = Told(w.status)
    <3>1. Snapshot(p)[b] = Told(w.status) /\ Told(w.status) # "none"
      BY <2>4, <2>6, <2>7, <2>8, <2>12 DEF LifeKind
    <3> QED
      BY <2>10, <2>12, <3>1
  <2>13. ~box[p].resync => Learnt(box[p], Snapshot(p), b, view[p][b]) = l
    BY <2>10
  <2> QED
    BY <2>9, <2>11, <2>12, <2>13 DEF Heard, w
<1>5. /\ box'[p] = EmptyBox /\ box' \in [Proc -> Boxes]
      /\ view' \in [Proc -> [Agent -> LifeKind \cup {"none"}]]
      /\ \A b \in Agent : view'[p][b] = Learnt(box[p], Snapshot(p), b, view[p][b])
      /\ \A q \in Proc \ {p} : box'[q] = box[q] /\ view'[q] = view[q]
  BY <1>1, <1>2, <1>3, <1>4 DEF Totals
<1>6. Totals'
  <2>1. \A q \in Proc : Fits(box'[q]) /\ (q \notin Listening => box'[q] = EmptyBox)
    BY <1>2, <1>3, <1>5 DEF Totals
  <2> QED
    BY <1>1, <1>2, <1>5, <2>1 DEF Totals
<1>7. Others(p)
  BY <1>1, <1>5 DEF Others
<1>8. ASSUME NEW b \in Agent
      PROVE  Core(p, b)' /\ Learns(p, b)' /\ Same(p, b)
  <2>1. Stands(p, b, mem[p][b])
    BY <1>1, IdleStands DEF Executing
  <2>2. Core(p, b)' /\ Same(p, b)
    BY <2>1, OutcomeTypes, StandsKeeps
  <2>3. Latest(<< >>, b, view'[p][b]) = view'[p][b]
    BY DEF Latest
  <2>4. Learns(p, b)'
    BY <1>1, <1>3, <1>4, <1>5, <2>3 DEF Learns
  <2> QED
    BY <2>2, <2>4
<1>9. \A q \in Proc \ {p}, b \in Agent : Core(q, b)' /\ Learns(q, b)' /\ Same(q, b)
  BY <1>1, <1>7, QuietElsewhere
<1> QED
  BY <1>6, <1>8, <1>9 DEF OutcomeInv, Fated

-----------------------------------------------------------------------------
(* The driver returns, and who joined it goes on.                          *)

\* What a process remembers when the run of a ends with s.
EndedIn(p, a, s) == [mem[p] EXCEPT ![a] = Ended(@, s)]

LEMMA EndedMemory ==
  ASSUME WaitInv, OutcomeInv, NEW p \in Proc, NEW a \in Agent, NEW s \in Outcome,
         overtaken[a] \/ mem[p][a].status = "running"
  PROVE  /\ EndedIn(p, a, s) \in [Agent -> Memories] /\ EndedIn(p, a, s)[a] = Ended(mem[p][a], s)
         /\ \A b \in Agent \ {a} : EndedIn(p, a, s)[b] = mem[p][b]
<1> DEFINE y == Ended(mem[p][a], s)
           m == EndedIn(p, a, s)
<1>1. y \in Memories
  <2>1. /\ Agrees(mem[p][a], records[p][a], runs[a], ends[a], overtaken[a])
        /\ runs[a] \in Nat /\ ends[a] \in Nat
    BY OutcomeTypes DEF Core, Agreed
  <2> QED
    BY <2>1, EndedAgrees
<1>2. mem \in [Proc -> [Agent -> Agents]]
  BY DEF WaitInv, AgentInv, Shape
<1>3. \A b \in Agent : mem[p][b] \in Memories
  BY OutcomeTypes
<1>4. m = [mem[p] EXCEPT ![a] = y]
  BY DEF EndedIn
<1>5. mem[p] \in [Agent -> Memories]
  BY <1>2, <1>3
<1> HIDE DEF y, m
<1>6. m \in [Agent -> Memories] /\ m[a] = y /\ \A b \in Agent \ {a} : m[b] = mem[p][b]
  BY <1>1, <1>4, <1>5
<1> QED
  BY <1>6 DEF y, m

LEMMA DriverReturnsOutcome ==
  ASSUME WaitInv, WaitInv', LoneInv, OutcomeInv, NEW p \in Proc, NEW a \in Agent, Executing(p, a),
         NEW s \in Outcome, DriverReturns(p, a, s)
  PROVE  OutcomeInv' /\ Fated
<1> DEFINE m == [mem[p] EXCEPT ![a] = Ended(@, s)]
           d == [driver[p] EXCEPT ![a] = "done"]
<1>1. /\ Shape /\ Totals /\ driver \in [Proc -> [Agent -> Drivers]]
      /\ overtaken[a] \/ mem[p][a].status = "running"
      /\ phase[p] # "down"
  BY DEF OutcomeInv, Core, ExecutorRuns, WaitInv, AgentInv, Shape, Fine, DownIsIdle, Executing
<1>2. /\ Persist(p, m, owned[p]) /\ Released(p, a) /\ Tell(p, a, s)
      /\ ends' = [ends EXCEPT ![a] = @ + 1] /\ Trim(p, m, records'[p], d)
      /\ UNCHANGED <<phase, view, overtaken, runs, stops>>
  BY DEF DriverReturns
<1>3. /\ m \in [Agent -> Memories] /\ m[a] = Ended(mem[p][a], s)
      /\ \A b \in Agent \ {a} : m[b] = mem[p][b]
  BY <1>1, EndedMemory DEF EndedIn
<1>4. d[a] = "done" /\ \A b \in Agent \ {a} : d[b] = driver[p][b]
  BY <1>1
<1> HIDE DEF m, d
<1>5. /\ owned' \in [Proc -> SUBSET Agent]
      /\ \A q \in Proc \ {p} :
           mem'[q] = mem[q] /\ driver'[q] = driver[q] /\ owned'[q] = owned[q]
      /\ \A b \in Agent :
           \/ /\ mem'[p][b] = m[b] /\ driver'[p][b] = d[b]
              /\ b \in owned[p] => b \in owned'[p]
           \/ /\ m[b].status \in Terminal /\ records'[p][b] # NoRecord
              /\ mem'[p][b] = NoAgent /\ driver'[p][b] = "none"
  BY <1>1, <1>2, TrimOutcome
<1>6. \A b \in Agent :
        \/ /\ mem'[p][b] = m[b] /\ (b \in owned[p] => b \in owned'[p])
           /\ b # a => driver'[p][b] = driver[p][b]
           /\ b = a => (Executing(p, a)' => overtaken[a])
        \/ /\ m[b].status \in Terminal /\ records'[p][b] # NoRecord
           /\ mem'[p][b] = NoAgent /\ driver'[p][b] = "none"
  BY <1>4, <1>5 DEF Executing
<1> QED
  BY <1>1, <1>2, <1>3, <1>5, <1>6, EndsRunOutcome

LEMMA FinalizesOutcome ==
  ASSUME WaitInv, WaitInv', LoneInv, OutcomeInv, NEW p \in Proc, NEW a \in Agent, phase[p] # "down",
         Unfinished(mem[p][a]), Finalizes(p, a), Executing(p, a) => overtaken[a],
         UNCHANGED <<phase, owned, driver, view, overtaken, runs, stops>>
  PROVE  OutcomeInv' /\ Fated
<1> DEFINE m == [mem[p] EXCEPT ![a] = Ended(@, "cancelled")]
<1>1. /\ Totals /\ mem \in [Proc -> [Agent -> Agents]] /\ "cancelled" \in Outcome
      /\ overtaken[a] \/ mem[p][a].status = "running"
  BY DEF OutcomeInv, WaitInv, AgentInv, Shape, Unfinished, Outcome
<1>2. /\ Persist(p, m, owned[p]) /\ Released(p, a) /\ Tell(p, a, "cancelled")
      /\ ends' = [ends EXCEPT ![a] = @ + 1] /\ mem' = [mem EXCEPT ![p] = m]
  BY DEF Finalizes
<1>3. /\ m \in [Agent -> Memories] /\ m[a] = Ended(mem[p][a], "cancelled")
      /\ \A b \in Agent \ {a} : m[b] = mem[p][b]
  BY <1>1, EndedMemory DEF EndedIn
<1> HIDE DEF m
<1>4. mem'[p] = m /\ \A q \in Proc \ {p} : mem'[q] = mem[q]
  BY <1>1, <1>2
<1>5. owned' \in [Proc -> SUBSET Agent]
  BY <1>1 DEF Totals
<1>6. Executing(p, a)' => overtaken[a]
  BY DEF Executing
<1> QED
  BY <1>1, <1>2, <1>3, <1>4, <1>5, <1>6, EndsRunOutcome

LEMMA CallerGoesOnOutcome ==
  ASSUME WaitInv, WaitInv', LoneInv, OutcomeInv, NEW p \in Proc, NEW c \in Caller,
         CallerGoesOn(p, c)
  PROVE  OutcomeInv' /\ Fated
<1> DEFINE a == call[p][c].agent
<1>1. call[p][c] \in Calls /\ call[p][c].pc = "joined" /\ call[p][c] # NoCall
  BY DEF WaitInv, AgentInv, Shape, CallerGoesOn, NoCall
<1>2. a \in Agent /\ phase[p] # "down"
  BY <1>1 DEF Calls, WaitInv, Down
<1>3. Executing(p, a) => overtaken[a]
  BY <1>1, <1>2 DEF WaitInv, AgentInv, Fine, JoinedIsOver, Past
<1>4. UNCHANGED <<phase, owned, driver, view, overtaken, runs, stops>>
  BY DEF CallerGoesOn
<1>5. CASE Unfinished(mem[p][a]) /\ Finalizes(p, a)
  <2> HIDE DEF a
  <2> QED
    BY <1>2, <1>3, <1>4, <1>5, FinalizesOutcome
<1>6. CASE UNCHANGED <<mem, records, failed, disk, claim, waiter, box, ends, faults>>
  <2>1. Totals' /\ Others(p) /\ \A b \in Agent : Unheard(p, b)
    BY <1>4, <1>6 DEF OutcomeInv, Totals, Others, Unheard
  <2>2. \A b \in Agent : Stands(p, b, mem[p][b])
    BY <1>4, <1>6, IdleStands DEF Executing
  <2> QED
    BY <1>4, <1>6, <2>1, <2>2, QuietStep
<1> QED
  BY <1>5, <1>6 DEF CallerGoesOn

LEMMA ShutdownJoinsOutcome ==
  ASSUME WaitInv, WaitInv', LoneInv, OutcomeInv, NEW p \in Proc, NEW a \in Agent,
         ShutdownJoins(p, a)
  PROVE  OutcomeInv' /\ Fated
BY FinalizesOutcome DEF ShutdownJoins

-----------------------------------------------------------------------------
(* An agent is forgotten, a process goes and comes back.                   *)

LEMMA EmptiedOutcome ==
  ASSUME NEW p \in Proc, NEW b \in Agent, runs'[b] \in Nat,
         mem'[p][b] = NoAgent, records'[p][b] = NoRecord, driver'[p][b] = "none"
  PROVE  Core(p, b)' /\ Learns(p, b)'
<1>1. NoRecord \in Papers /\ NoRecord.run = 0 /\ ~NoRecord.mine
  BY DEF Papers, NoRecord
<1>2. Agreed(p, b)'
  BY <1>1, NobodyAgrees DEF Agreed
<1>3. What(NoAgent, NoRecord) = NoAgent
  BY <1>1, PaperRestored DEF What
<1>4. Learns(p, b)'
  BY <1>3, NoAgentFields DEF Learns, Heard
<1>5. ExecutorRuns(p, b)' /\ RunIsLatest(p, b)' /\ OutcomeIsSaved(p, b)' /\ DownIsEmpty(p, b)'
  BY NoAgentFields DEF ExecutorRuns, RunIsLatest, OutcomeIsSaved, Saved, DownIsEmpty, Executing,
     Terminal
<1> QED
  BY <1>2, <1>4, <1>5 DEF Core

LEMMA CloseRemovesOutcome ==
  ASSUME WaitInv, WaitInv', OutcomeInv, NEW p \in Proc, NEW c \in Caller, CloseRemoves(p, c)
  PROVE  OutcomeInv' /\ Fated
<1>1. /\ call[p][c] \in Calls /\ call[p][c].pc = "remove" /\ call[p][c] # NoCall
      /\ call[p][c].agent \in Agent
  BY DEF WaitInv, AgentInv, Shape, CloseRemoves, NoCall, Calls
<1> PICK a \in Agent : a = call[p][c].agent
  BY <1>1
<1>2. phase[p] # "down" /\ mem[p][a].status # "running"
  BY <1>1 DEF WaitInv, Down, Wakeful, RemoveIsOver, Removing, Live
<1>3. /\ UNCHANGED <<phase, failed, box, view, ends, overtaken, runs, stops>>
  BY DEF CloseRemoves
<1>4. /\ Totals /\ mem \in [Proc -> [Agent -> Agents]] /\ driver \in [Proc -> [Agent -> Drivers]]
      /\ records \in [Proc -> [Agent -> Records]] /\ disk \in [Agent -> Records]
      /\ claim \in [Agent -> Proc \cup {Nobody}]
  BY DEF OutcomeInv, WaitInv, AgentInv, Shape
<1>6. CASE /\ disk' = [disk EXCEPT ![a] = Tombstone]
           /\ mem' = [mem EXCEPT ![p][a] = NoAgent]
           /\ records' = [records EXCEPT ![p][a] = NoRecord]
           /\ owned' = [owned EXCEPT ![p] = @ \ {a}]
           /\ driver' = [driver EXCEPT ![p][a] = "none"]
           /\ UNCHANGED faults
  <2>1. /\ \A q \in Proc \ {p} : mem'[q] = mem[q] /\ records'[q] = records[q]
                                 /\ driver'[q] = driver[q]
        /\ mem'[p][a] = NoAgent /\ records'[p][a] = NoRecord /\ driver'[p][a] = "none"
        /\ \A b \in Agent \ {a} : mem'[p][b] = mem[p][b] /\ records'[p][b] = records[p][b]
                                  /\ driver'[p][b] = driver[p][b]
    BY <1>2, <1>4, <1>6
  <2>2. disk'[a] = Tombstone /\ \A b \in Agent \ {a} : disk'[b] = disk[b]
    BY <1>2, <1>4, <1>6
  <2>3. /\ owned' \in [Proc -> SUBSET Agent] /\ \A q \in Proc \ {p} : owned'[q] = owned[q]
        /\ owned'[p] = owned[p] \ {a}
    <3>1. owned \in [Proc -> SUBSET Agent]
      BY <1>4 DEF Totals
    <3> QED
      BY <1>6, <3>1
  <2>4. Others(p)
    BY <1>3, <2>1, <2>3 DEF Others
  <2>5. Totals'
    <3>1. Tombstone.run = 0
      BY DEF Tombstone, NoRecord
    <3>2. \A b \in Agent : OnDisk(disk'[b], runs'[b]) /\ (~overtaken'[b] => ends'[b] <= 1)
      <4>1. ASSUME NEW b \in Agent
            PROVE  /\ OnDisk(disk[b], runs[b]) /\ (~overtaken[b] => ends[b] <= 1)
                   /\ runs'[b] = runs[b] /\ runs[b] \in Nat
                   /\ overtaken'[b] = overtaken[b] /\ ends'[b] = ends[b]
        BY <1>3, <1>4, OutcomeTypes DEF Totals
      <4>2. OnDisk(disk'[a], runs'[a])
        BY <1>2, <2>2, <3>1, <4>1 DEF OnDisk
      <4> QED
        BY <2>2, <4>1, <4>2
    <3> QED
      BY <1>3, <1>4, <1>6, <2>3, <3>2 DEF Totals
  <2>6. Core(p, a)' /\ Learns(p, a)'
    <3>1. runs'[a] \in Nat
      BY <1>2, <1>3, OutcomeTypes
    <3> QED
      BY <1>2, <2>1, <3>1, EmptiedOutcome
  <2>7. ASSUME NEW b \in Agent \ {a}
        PROVE  Core(p, b)' /\ Learns(p, b)' /\ Same(p, b)
    <3>1. Executing(p, b)' = Executing(p, b) /\ (b \in owned[p] => b \in owned'[p])
      BY <2>1, <2>3 DEF Executing
    <3>2. Stands(p, b, mem[p][b])
      BY <1>3, <2>1, <3>1, OutcomeTypes DEF Stands
    <3>3. Unheard(p, b)
      BY <1>3 DEF Unheard
    <3> QED
      BY <3>2, <3>3, OutcomeTypes, StandsLearns
  <2>8. \A q \in Proc \ {p}, b \in Agent : Core(q, b)' /\ Learns(q, b)' /\ Same(q, b)
    BY <1>3, <2>4, QuietElsewhere
  <2> QED
    <3>1. \A b \in Agent : Core(p, b)' /\ Learns(p, b)'
      BY <2>6, <2>7
    <3>2. \A b \in Agent : Same(p, b) \/ disk'[b] = Tombstone
      BY <2>2, <2>7
    <3> QED
      BY <2>5, <2>8, <3>1, <3>2 DEF OutcomeInv, Fated
<1>7. CASE /\ Fault /\ mem' = [mem EXCEPT ![p][a] = [Required(p, a) EXCEPT !.closing = FALSE]]
           /\ UNCHANGED <<disk, records, owned, driver>>
  <2> DEFINE x == Required(p, a)
             y == [x EXCEPT !.closing = FALSE]
  <2>1. x \in Memories /\ x.status # "running"
    BY <1>2, OutcomeTypes, PaperRestored
  <2>2. y \in Memories /\ (y = mem[p][a] \/ (y # NoAgent /\ Raw(y) = Raw(x)))
        /\ y.status # "running"
    <3>1. CASE x = NoAgent
      <4>1. mem[p][a] = NoAgent
        BY <1>2, <3>1, OutcomeTypes
      <4>2. y = NoAgent
        <5>1. y = [NoAgent EXCEPT !.closing = FALSE]
          BY <3>1
        <5> HIDE DEF y
        <5> QED
          BY <5>1 DEF NoAgent
      <4> QED
        BY <2>1, <3>1, <4>1, <4>2
    <3>2. CASE x # NoAgent
      <4>1. x \in [status : Real, run : Nat, mine : BOOLEAN, token : BOOLEAN, closing : BOOLEAN]
        BY <2>1, <3>2 DEF Memories
      <4> HIDE DEF x
      <4>2. /\ y \in [status : Real, run : Nat, mine : BOOLEAN, token : BOOLEAN,
                      closing : BOOLEAN]
            /\ y.status = x.status /\ y.run = x.run /\ y.mine = x.mine
        BY <4>1
      <4> HIDE DEF y
      <4> QED
        BY <2>1, <4>1, <4>2 DEF Memories, NoAgent, Raw, Real, Terminal
    <3> QED
      BY <3>1, <3>2
  <2>3. mem' = [mem EXCEPT ![p][a] = y]
    BY <1>7
  <2> HIDE DEF y
  <2>4. /\ mem'[p][a] = y /\ \A b \in Agent \ {a} : mem'[p][b] = mem[p][b]
        /\ \A q \in Proc \ {p} : mem'[q] = mem[q]
    BY <1>2, <1>4, <2>3
  <2>5. faults' \in 0..MaxFaults
    BY <1>4, <1>7, LimitAssumption DEF Totals, Fault
  <2>6. Others(p) /\ Totals' /\ \A b \in Agent : Unheard(p, b)
    BY <1>3, <1>4, <1>7, <2>4, <2>5 DEF Others, Totals, Unheard
  <2>7. Stands(p, a, y)
    <3>1. (Executing(p, a)' => Executing(p, a)) /\ records' = records /\ owned' = owned
      BY <1>7 DEF Executing
    <3>2. Raw(y) = Raw(x) => Raw(y) = Raw(Required(p, a))
      OBVIOUS
    <3> HIDE DEF x
    <3> QED
      BY <1>2, <1>3, <2>2, <2>4, <3>1, <3>2 DEF Stands
  <2>8. \A b \in Agent \ {a} : Stands(p, b, mem[p][b])
    BY <1>3, <1>7, <2>4, OutcomeTypes DEF Stands, Executing
  <2> QED
    BY <1>2, <1>3, <2>6, <2>7, <2>8, QuietStep
<1> QED
  BY <1>6, <1>7 DEF CloseRemoves

LEMMA GoneOutcome ==
  ASSUME WaitInv, OutcomeInv, NEW p \in Proc, Gone(p), stops' \in 0..MaxStops
  PROVE  OutcomeInv' /\ Fated
<1>1. /\ phase' = [phase EXCEPT ![p] = "down"]
      /\ mem' = [mem EXCEPT ![p] = [a \in Agent |-> NoAgent]]
      /\ records' = [records EXCEPT ![p] = [a \in Agent |-> NoRecord]]
      /\ owned' = [owned EXCEPT ![p] = {}] /\ failed' = [failed EXCEPT ![p] = FALSE]
      /\ driver' = [driver EXCEPT ![p] = [a \in Agent |-> "none"]]
      /\ box' = [box EXCEPT ![p] = EmptyBox]
      /\ view' = [view EXCEPT ![p] = [a \in Agent |-> "none"]]
      /\ UNCHANGED <<disk, ends, overtaken, runs, faults>>
  BY DEF Gone
<1>2. /\ Shape /\ Totals /\ mem \in [Proc -> [Agent -> Agents]]
      /\ driver \in [Proc -> [Agent -> Drivers]] /\ records \in [Proc -> [Agent -> Records]]
      /\ phase \in [Proc -> {"down", "up", "stopping", "closed"}]
  BY DEF OutcomeInv, WaitInv, AgentInv, Shape
<1>4. /\ \A q \in Proc \ {p} : /\ mem'[q] = mem[q] /\ records'[q] = records[q]
                               /\ driver'[q] = driver[q] /\ phase'[q] = phase[q]
      /\ \A b \in Agent : /\ mem'[p][b] = NoAgent /\ records'[p][b] = NoRecord
                          /\ driver'[p][b] = "none"
      /\ phase'[p] = "down"
  BY <1>1, <1>2
<1>5. EmptyBox \in Boxes /\ Fits(EmptyBox)
  BY CapacityAssumption DEF EmptyBox, Boxes, Fits
<1>6. /\ owned' \in [Proc -> SUBSET Agent] /\ failed' \in [Proc -> BOOLEAN]
      /\ box' \in [Proc -> Boxes]
      /\ \A q \in Proc \ {p} : owned'[q] = owned[q] /\ failed'[q] = failed[q] /\ box'[q] = box[q]
      /\ box'[p] = EmptyBox
  BY <1>1, <1>2, <1>5 DEF Totals
<1>7. /\ view' \in [Proc -> [Agent -> LifeKind \cup {"none"}]]
      /\ \A q \in Proc \ {p} : view'[q] = view[q]
  BY <1>1, <1>2 DEF Totals
<1>8. Others(p)
  BY <1>4, <1>6, <1>7 DEF Others
<1>9. Totals'
  <2>1. \A q \in Proc : Fits(box'[q]) /\ (q \notin Listening => box'[q] = EmptyBox)
    BY <1>2, <1>5, <1>6 DEF Totals
  <2> QED
    BY <1>1, <1>2, <1>6, <1>7, <2>1 DEF Totals
<1>10. \A b \in Agent : Core(p, b)' /\ Learns(p, b)'
  BY <1>1, <1>4, OutcomeTypes, EmptiedOutcome
<1>11. \A q \in Proc \ {p}, b \in Agent : Core(q, b)' /\ Learns(q, b)' /\ Same(q, b)
  BY <1>1, <1>8, QuietElsewhere
<1> QED
  BY <1>4, <1>9, <1>10, <1>11 DEF OutcomeInv, Fated

\* What a process that starts finds on disk is of another session, and no run is
\* taken for one that is going on.
LEMMA StartOutcome ==
  ASSUME WaitInv, WaitInv', OutcomeInv, NEW p \in Proc, Start(p)
  PROVE  OutcomeInv' /\ Fated
<1> DEFINE recs == [a \in Agent |-> Found(disk[a])]
           m == [a \in Agent |-> IF recs[a] = NoRecord THEN NoAgent ELSE Restored(recs[a])]
<1>1. /\ Shape /\ Totals /\ mem \in [Proc -> [Agent -> Agents]]
      /\ records \in [Proc -> [Agent -> Records]]
      /\ phase \in [Proc -> {"down", "up", "stopping", "closed"}]
  BY DEF OutcomeInv, WaitInv, AgentInv, Shape
<1>2. /\ phase[p] = "down" /\ phase' = [phase EXCEPT ![p] = "up"]
      /\ records' = [records EXCEPT ![p] = recs] /\ Trim(p, m, recs, driver[p])
      /\ UNCHANGED <<failed, claim, disk, box, view, ends, overtaken, runs, faults, stops>>
  BY DEF Start
<1>3. ASSUME NEW b \in Agent
      PROVE  /\ recs[b] \in Papers /\ ~recs[b].mine /\ recs[b].run <= runs[b]
             /\ m[b] = IF recs[b] = NoRecord THEN NoAgent ELSE Restored(recs[b])
  <2> DEFINE d == disk[b]
             f == [d EXCEPT !.mine = FALSE]
  <2>1. (d \in Papers \/ d = Tombstone) /\ d.run <= runs[b] /\ runs[b] \in Nat
    BY <1>1, OutcomeTypes DEF Totals, OnDisk
  <2>2. recs[b] = IF d = Tombstone THEN NoRecord ELSE f
    BY DEF Found
  <2>3. NoRecord \in Papers /\ NoRecord.run = 0 /\ ~NoRecord.mine
    BY DEF Papers, NoRecord
  <2>4. m[b] = IF recs[b] = NoRecord THEN NoAgent ELSE Restored(recs[b])
    OBVIOUS
  <2> HIDE DEF d, recs, m
  <2>5. CASE d = Tombstone
    BY <2>1, <2>2, <2>3, <2>4, <2>5
  <2>6. CASE d # Tombstone /\ d = NoRecord
    <3>1. f = NoRecord
      <4>1. f = [NoRecord EXCEPT !.mine = FALSE]
        BY <2>6
      <4> HIDE DEF f
      <4> QED
        BY <4>1 DEF NoRecord
    <3> QED
      BY <2>1, <2>2, <2>3, <2>4, <2>6, <3>1
  <2>7. CASE d # Tombstone /\ d # NoRecord
    <3>1. d \in [status : Real, run : Nat, mine : BOOLEAN]
      BY <2>1, <2>7 DEF Papers
    <3>2. f \in [status : Real, run : Nat, mine : BOOLEAN] /\ f.run = d.run /\ ~f.mine
      BY <3>1
    <3> HIDE DEF f
    <3> QED
      BY <2>1, <2>2, <2>4, <2>7, <3>2 DEF Papers
  <2> QED
    BY <2>5, <2>6, <2>7
<1> HIDE DEF m, recs
<1>4. /\ owned' \in [Proc -> SUBSET Agent]
      /\ \A q \in Proc \ {p} :
           mem'[q] = mem[q] /\ driver'[q] = driver[q] /\ owned'[q] = owned[q]
      /\ \A b \in Agent :
           \/ /\ mem'[p][b] = m[b] /\ driver'[p][b] = driver[p][b]
              /\ b \in owned[p] => b \in owned'[p]
           \/ /\ m[b].status \in Terminal /\ recs[b] # NoRecord
              /\ mem'[p][b] = NoAgent /\ driver'[p][b] = "none"
  BY <1>1, <1>2, TrimOutcome
<1>5. /\ phase'[p] = "up" /\ records'[p] = recs
      /\ \A q \in Proc \ {p} : phase'[q] = phase[q] /\ records'[q] = records[q]
  BY <1>1, <1>2
<1>6. Others(p) /\ Totals'
  BY <1>1, <1>2, <1>4, <1>5 DEF Others, Totals
<1>7. ASSUME NEW b \in Agent
      PROVE  Core(p, b)' /\ Learns(p, b)' /\ Same(p, b)
  <2> DEFINE x == mem'[p][b]
             r == recs[b]
             n == runs[b]
  <2>1. r \in Papers /\ ~r.mine /\ r.run <= n /\ n \in Nat
    BY <1>3, OutcomeTypes
  <2>2. x = NoAgent \/ (r # NoRecord /\ x = Restored(r))
    BY <1>3, <1>4
  <2>3. /\ Restored(r) \in Memories /\ Restored(r).status # "running" /\ Restored(r).run = r.run
        /\ ~Restored(r).mine /\ (r # NoRecord => Restored(r) # NoAgent)
    BY <2>1, PaperRestored
  <2>4. driver'[p][b] = "none"
    BY <1>2, <1>4 DEF WaitInv, AgentInv, Fine, DownIsIdle
  <2>5. records'[p][b] = r /\ UNCHANGED <<runs, ends, overtaken>>
    BY <1>2, <1>5
  <2>6. Agrees(NoAgent, r, n, ends[b], overtaken[b])
    BY <2>1, NobodyAgrees
  <2>7. What(NoAgent, r) = Restored(r)
    BY DEF What
  <2>8. Agrees(x, r, n, ends[b], overtaken[b])
    <3>1. CASE x = NoAgent
      BY <2>6, <3>1
    <3>2. CASE r # NoRecord /\ x = Restored(r)
      <4>1. x \in Memories /\ x # NoAgent /\ Raw(x) = Raw(What(NoAgent, r))
        BY <2>3, <2>7, <3>2
      <4> HIDE DEF x, r, n
      <4> QED
        BY <2>6, <4>1, RenewedAgrees
    <3> QED
      BY <2>2, <3>1, <3>2
  <2>9. x.status # "running" /\ ~What(x, r).mine
    BY <2>2, <2>3, NoAgentFields DEF What
  <2>10. Saved(x, r, FALSE)
    BY <2>2, NoAgentFields DEF Saved, Terminal
  <2> HIDE DEF r
  <2>11. Agreed(p, b)' /\ Learns(p, b)'
    BY <2>5, <2>8, <2>9 DEF Agreed, Learns, Heard
  <2>12. ExecutorRuns(p, b)' /\ RunIsLatest(p, b)' /\ OutcomeIsSaved(p, b)' /\ DownIsEmpty(p, b)'
    BY <1>5, <2>4, <2>5, <2>9, <2>10
       DEF ExecutorRuns, RunIsLatest, OutcomeIsSaved, Saved, DownIsEmpty, Executing
  <2>13. Required(p, b).status \notin Terminal
    <3>1. mem[p][b] = NoAgent /\ records[p][b] = NoRecord
      BY <1>2 DEF OutcomeInv, Core, DownIsEmpty
    <3> QED
      BY <3>1, NothingRestored, NoAgentFields DEF Required, Terminal
  <2> QED
    BY <2>11, <2>12, <2>13 DEF Core, Same
<1>8. \A q \in Proc \ {p}, b \in Agent : Core(q, b)' /\ Learns(q, b)' /\ Same(q, b)
  BY <1>2, <1>6, QuietElsewhere
<1> QED
  BY <1>6, <1>7, <1>8 DEF OutcomeInv, Fated

-----------------------------------------------------------------------------
(* The theorems.                                                           *)

LEMMA OutcomeInvInit == Init => OutcomeInv
<1>1. SUFFICES ASSUME Init PROVE OutcomeInv
  OBVIOUS
<1>2. NoRecord \in Papers /\ NoRecord.run = 0
  BY DEF Papers, NoRecord
<1>3. EmptyBox \in Boxes /\ Fits(EmptyBox)
  BY CapacityAssumption DEF EmptyBox, Boxes, Fits
<1>4. /\ owned = [p \in Proc |-> {}] /\ failed = [p \in Proc |-> FALSE]
      /\ runs = [a \in Agent |-> 0] /\ ends = [a \in Agent |-> 0] /\ faults = 0 /\ stops = 0
      /\ disk = [a \in Agent |-> NoRecord] /\ box = [p \in Proc |-> EmptyBox]
      /\ view = [p \in Proc |-> [a \in Agent |-> "none"]]
  BY <1>1 DEF Init
<1>5. /\ owned \in [Proc -> SUBSET Agent] /\ failed \in [Proc -> BOOLEAN]
      /\ runs \in [Agent -> 0..MaxRuns] /\ ends \in [Agent -> Nat]
      /\ faults \in 0..MaxFaults /\ stops \in 0..MaxStops
      /\ \A a \in Agent : runs[a] = 0 /\ ends[a] = 0 /\ disk[a] = NoRecord
      /\ \A p \in Proc : box[p] = EmptyBox
  BY <1>4, LimitAssumption
<1>6. \A a \in Agent : (~overtaken[a] => ends[a] <= 1) /\ OnDisk(disk[a], runs[a])
  BY <1>2, <1>5 DEF OnDisk
<1>7. box \in [Proc -> Boxes] /\ view \in [Proc -> [Agent -> LifeKind \cup {"none"}]]
  BY <1>3, <1>4
<1>8. Totals
  BY <1>3, <1>5, <1>6, <1>7 DEF Totals
<1>9. ASSUME NEW p \in Proc, NEW a \in Agent
      PROVE  Core(p, a) /\ Learns(p, a)
  <2>1. mem[p][a] = NoAgent /\ records[p][a] = NoRecord /\ driver[p][a] = "none" /\ runs[a] = 0
    BY <1>1 DEF Init
  <2>2. Agreed(p, a)
    BY <1>2, <2>1, NobodyAgrees DEF Agreed, NoRecord
  <2>3. What(NoAgent, NoRecord) = NoAgent
    BY NothingRestored DEF What
  <2>4. Learns(p, a)
    BY <2>1, <2>3, NoAgentFields DEF Learns, Heard
  <2>5. ExecutorRuns(p, a) /\ RunIsLatest(p, a) /\ OutcomeIsSaved(p, a) /\ DownIsEmpty(p, a)
    BY <2>1, NoAgentFields DEF ExecutorRuns, RunIsLatest, OutcomeIsSaved, Saved, DownIsEmpty,
       Executing, Terminal
  <2> QED
    BY <2>2, <2>4, <2>5 DEF Core
<1> QED
  BY <1>8, <1>9 DEF OutcomeInv

LEMMA OutcomeStep == WaitInv /\ LoneInv /\ OutcomeInv /\ [Next]_vars => OutcomeInv' /\ Fated
<1>1. SUFFICES ASSUME WaitInv, LoneInv, OutcomeInv, [Next]_vars PROVE OutcomeInv' /\ Fated
  OBVIOUS
<1>2. WaitInv'
  BY <1>1, WaitInvStep
<1>3. CASE UNCHANGED vars
  BY <1>1, <1>3, UnchangedOutcome
<1>4. ASSUME NEW p \in Proc, NEW a \in Agent, Spawn(p, a) \/ Resume(p, a)
      PROVE  OutcomeInv' /\ Fated
  BY <1>1, <1>2, <1>4, StartRunOutcome DEF Spawn, Resume
<1>5. ASSUME NEW p \in Proc, NEW a \in Agent, DriverEnds(p, a)
      PROVE  OutcomeInv' /\ Fated
  <2>1. Executing(p, a) /\ \E s \in Outcome : DriverReturns(p, a, s)
    BY <1>5 DEF DriverEnds, Executing, Outcome
  <2> QED
    BY <1>1, <1>2, <2>1, DriverReturnsOutcome
<1>6. ASSUME NEW p \in Proc, NEW a \in Agent, Drive(p, a) \/ Looks(p, a)
      PROVE  OutcomeInv' /\ Fated
  BY <1>1, <1>5, <1>6, DriveOnOutcome, LooksOutcome DEF Drive
<1>7. ASSUME NEW p \in Proc, NEW c \in Caller, Request(p, c)
      PROVE  OutcomeInv' /\ Fated
  BY <1>1, <1>2, <1>7, BeginsOutcome, CallerGoesOnOutcome, CloseRemovesOutcome DEF Request
<1>8. ASSUME NEW p \in Proc, Stop(p)
      PROVE  OutcomeInv' /\ Fated
  <2>1. Crash(p) \/ Exit(p) => Gone(p) /\ stops' \in 0..MaxStops
    BY <1>1, LimitAssumption DEF Crash, Exit, OutcomeInv, Totals
  <2> QED
    BY <1>1, <1>2, <1>8, <2>1, ShutdownBeginsOutcome, ShutdownJoinsOutcome, ShutdownEndsOutcome,
       GoneOutcome DEF Stop
<1>9. ASSUME NEW p \in Proc, Wait(p) \/ Drains(p) \/ Start(p)
      PROVE  OutcomeInv' /\ Fated
  BY <1>1, <1>2, <1>9, WaitOutcome, DrainsOutcome, StartOutcome
<1> QED
  BY <1>1, <1>3, <1>4, <1>6, <1>7, <1>8, <1>9 DEF Next

\* What memory, record, mailbox, claim and history say of an agent agree after every
\* step of the manager, its drivers, its callers and the processes' crashes.
THEOREM OutcomeInvHolds == Spec => [](WaitInv /\ LoneInv /\ OutcomeInv)
BY WaitInvInit, WaitInvStep, LoneInvInit, LoneStep, OutcomeInvInit, OutcomeStep, PTL DEF Spec

LEMMA PapersAreRecords ==
  ASSUME NEW r \in Papers, NEW n \in Nat, r.run <= n, n <= MaxRuns
  PROVE  r \in Record
<1>1. Real \subseteq Status \cup {"deleted"} /\ "none" \in Status /\ 0 \in 0..MaxRuns
  BY LimitAssumption DEF Real, Status
<1>2. CASE r = NoRecord
  BY <1>1, <1>2 DEF NoRecord, Record
<1>3. CASE r # NoRecord
  BY <1>1, <1>3, LimitAssumption DEF Papers, Record
<1> QED
  BY <1>2, <1>3

\* The state of the manager, of the mailbox and of the registry has its type; the
\* mailbox never exceeds its capacity.
THEOREM AgentsTyped == Spec => []TypeOK
<1>1. ASSUME WaitInv, OutcomeInv
      PROVE  TypeOK
  <2>1. Shape /\ Counts /\ Totals
    BY <1>1 DEF WaitInv, AgentInv, OutcomeInv
  <2>2. \A a \in Agent : runs[a] \in Nat /\ runs[a] <= MaxRuns
    BY <2>1, LimitAssumption DEF Totals
  <2>3. ASSUME NEW p \in Proc, NEW a \in Agent
        PROVE  /\ mem[p][a] \in [status : Status, run : 0..MaxRuns, mine : BOOLEAN,
                                 token : BOOLEAN, closing : BOOLEAN]
               /\ records[p][a] \in Record
    <3>1. /\ mem[p][a] \in Memories /\ records[p][a] \in Papers
          /\ mem[p][a].run <= runs[a] /\ records[p][a].run <= runs[a]
      BY <1>1, OutcomeTypes
    <3>2. runs[a] \in Nat /\ runs[a] <= MaxRuns /\ MaxRuns \in Nat
      BY <2>2, LimitAssumption
    <3>3. mem[p][a] \in [status : Status, run : 0..MaxRuns, mine : BOOLEAN,
                         token : BOOLEAN, closing : BOOLEAN]
      <4>1. Real \subseteq Status /\ "none" \in Status
        BY DEF Real, Status
      <4>2. CASE mem[p][a] = NoAgent
        BY <3>2, <4>1, <4>2 DEF NoAgent
      <4>3. CASE mem[p][a] # NoAgent
        BY <3>1, <3>2, <4>1, <4>3 DEF Memories
      <4> QED
        BY <4>2, <4>3
    <3>4. records[p][a] \in Record
      BY <3>1, <3>2, PapersAreRecords
    <3> QED
      BY <3>3, <3>4
  <2>4. ASSUME NEW a \in Agent
        PROVE  disk[a] \in Record
    <3>1. OnDisk(disk[a], runs[a]) /\ runs[a] \in Nat /\ runs[a] <= MaxRuns /\ MaxRuns \in Nat
      BY <2>1, <2>2, LimitAssumption DEF Totals
    <3>2. CASE disk[a] = Tombstone
      <4>1. disk[a] = [status |-> "deleted", run |-> 0, mine |-> FALSE]
        BY <3>2 DEF Tombstone, NoRecord
      <4>2. 0 \in 0..MaxRuns /\ "deleted" \in Status \cup {"deleted"}
        BY <3>1
      <4> QED
        BY <4>1, <4>2 DEF Record
    <3>3. CASE disk[a] \in Papers
      BY <3>1, <3>3, PapersAreRecords DEF OnDisk
    <3> QED
      BY <3>1, <3>2, <3>3 DEF OnDisk
  <2>5. /\ mem \in [Proc -> [Agent -> [status : Status, run : 0..MaxRuns, mine : BOOLEAN,
                                       token : BOOLEAN, closing : BOOLEAN]]]
        /\ records \in [Proc -> [Agent -> Record]] /\ disk \in [Agent -> Record]
    BY <2>1, <2>3, <2>4 DEF Shape
  <2>6. call \in [Proc -> [Caller -> [pc : {"idle", "join", "joined", "remove"},
                                      agent : Agent \cup {Nobody}, close : BOOLEAN]]]
    BY <2>1 DEF Shape, Calls
  <2>7. waiter \in [Proc -> [pc : {"idle", "asleep", "woken"}, all : BOOLEAN,
                             targets : SUBSET Agent]]
    BY <2>1 DEF Counts, Waits
  <2> QED
    BY <2>1, <2>5, <2>6, <2>7 DEF TypeOK, Shape, Totals, Fits, Drivers
<1> QED
  BY <1>1, OutcomeInvHolds, PTL

\* The end of a run is reported once, by its driver, by a cancel that reached it
\* before it began or by the shutdown, until a run is started under a cancel that
\* has not returned.
THEOREM RunsEndOnce == Spec => []EndsOnce
<1>1. ASSUME OutcomeInv
      PROVE  EndsOnce
  <2>1. SUFFICES ASSUME NEW a \in Agent, ~overtaken[a]
                 PROVE  /\ ends[a] <= 1
                        /\ \A p \in Proc :
                             mem[p][a].mine /\ mem[p][a].run = runs[a] =>
                               (ends[a] = 0 <=> mem[p][a].status = "running")
    BY DEF EndsOnce
  <2>2. ends[a] <= 1
    BY <1>1, <2>1 DEF OutcomeInv, Totals
  <2>3. ASSUME NEW p \in Proc, mem[p][a].mine, mem[p][a].run = runs[a]
        PROVE  ends[a] = 0 <=> mem[p][a].status = "running"
    <3>1. Agrees(mem[p][a], records[p][a], runs[a], ends[a], overtaken[a]) /\ RunIsLatest(p, a)
      BY <1>1 DEF OutcomeInv, Core, Agreed
    <3>2. What(mem[p][a], records[p][a]) = mem[p][a]
      BY <2>3, NoAgentFields DEF What
    <3> QED
      BY <2>1, <2>3, <3>1, <3>2 DEF Agrees, RunIsLatest
  <2> QED
    BY <2>2, <2>3
<1> QED
  BY <1>1, OutcomeInvHolds, PTL

\* Whatever a full mailbox drops, its queue and the snapshot that follows tell the
\* consumer the state of every agent whose latest run is one of the session.
THEOREM ConsumersLearn == Spec => []ConsumerLearns
<1>1. ASSUME OutcomeInv
      PROVE  ConsumerLearns
  <2>1. ASSUME NEW p \in Listening, NEW a \in Agent
        PROVE  Known(p, a) /\ Required(p, a).mine /\ Required(p, a).run = runs[a]
                 /\ Required(p, a).status # "interrupted" /\ ~box[p].resync /\ ~overtaken[a] =>
                   Latest(box[p].queue, a, view[p][a]) = Told(Required(p, a).status)
    <3>1. p \in Proc /\ Learns(p, a)
      BY <1>1, ProcAssumption DEF OutcomeInv
    <3>2. Required(p, a) = What(mem[p][a], records[p][a])
      BY DEF Required, What
    <3> QED
      BY <3>1, <3>2 DEF Learns, Heard
  <2> QED
    BY <2>1 DEF ConsumerLearns
<1> QED
  BY <1>1, OutcomeInvHolds, PTL

\* Eviction, restoration, refused requests and the ends of other agents leave an
\* agent and its outcome as they were, until it is resumed or closed, unless a write
\* has failed.
THEOREM OutcomesAreKept == Spec => OutcomeIsKept
<1> DEFINE Kept(p, a) ==
      Known(p, a) /\ Required(p, a).status \in Terminal /\ runs'[a] = runs[a] =>
        \/ Known(p, a)' /\ Required(p, a)'.status = Required(p, a).status
        \/ failed[p] \/ failed'[p] \/ overtaken[a] \/ phase'[p] = "down"
        \/ disk'[a] = Tombstone
<1>1. ASSUME Fated, NEW p \in Proc, NEW a \in Agent
      PROVE  Kept(p, a)
  <2>1. SUFFICES ASSUME Required(p, a).status \in Terminal, runs'[a] = runs[a],
                        ~failed[p], ~failed'[p], ~overtaken[a], phase'[p] # "down",
                        disk'[a] # Tombstone
                 PROVE  Known(p, a)' /\ Required(p, a)'.status = Required(p, a).status
    OBVIOUS
  <2>2. Required(p, a)'.status = Required(p, a).status
    BY <1>1, <2>1 DEF Fated, Same
  <2>3. ~Known(p, a)' => Required(p, a)' = NoAgent
    BY NothingRestored DEF Known, Required
  <2>4. NoAgent.status \notin Terminal
    BY NoAgentFields DEF Terminal
  <2> QED
    BY <2>1, <2>2, <2>3, <2>4
<1>2. WaitInv /\ LoneInv /\ OutcomeInv /\ [Next]_vars =>
        [\A p \in Proc, a \in Agent : Kept(p, a)]_vars
  BY <1>1, OutcomeStep
<1> QED
  BY <1>2, OutcomeInvHolds, PTL DEF Spec, OutcomeIsKept
=============================================================================
