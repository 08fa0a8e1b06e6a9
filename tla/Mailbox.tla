------------------------------ MODULE Mailbox ------------------------------
(***************************************************************************)
(* The bounded event queue between sub-agents and their engine:            *)
(* src/deepseek_tui/tools/subagent/mailbox.py.  The bodies of send and     *)
(* drain_available do not await, so that each is one step of whoever calls *)
(* it.  Sequence numbers are left out: an envelope's number grows with its *)
(* place in what is drained.                                               *)
(***************************************************************************)
EXTENDS Naturals, Sequences

CONSTANT Capacity   \* MAILBOX_MAX_ENVELOPES

ASSUME CapacityAssumption == Capacity \in Nat \ {0}

EmptyBox == [queue |-> <<>>, resync |-> FALSE]
LifeKind == {"started", "completed", "failed", "cancelled"}
Kind == LifeKind \cup {"usage", "progress"}

\* Progress and tool calls may be dropped, the life of an agent and its usage
\* may not.
Disposable(m) == m.kind = "progress"

Without(q, i) == SubSeq(q, 1, i - 1) \o SubSeq(q, i + 1, Len(q))

Sent_NoResync(box, m) ==
  [box EXCEPT !.queue = Append(IF Len(@) < Capacity THEN @ ELSE Tail(@), m)]
\* A full queue makes room by dropping the oldest disposable event, or else the
\* oldest of all, which only a snapshot can make good.
Sent(box, m) ==
  LET q == box.queue
      victims == {i \in DOMAIN q : Disposable(q[i])} IN
  IF Len(q) < Capacity THEN [box EXCEPT !.queue = Append(q, m)]
  ELSE IF victims # {}
  THEN LET first == CHOOSE i \in victims : \A k \in victims : i <= k IN
       [box EXCEPT !.queue = Append(Without(q, first), m)]
  ELSE IF Disposable(m) THEN box
  ELSE [queue |-> Append(Tail(q), m), resync |-> TRUE]

\* The last event about the life of an agent, or what was known before.
Latest(q, agent, before) ==
  LET about == {i \in DOMAIN q : q[i].agent = agent /\ q[i].kind \in LifeKind} IN
  IF about = {} THEN before
  ELSE q[CHOOSE i \in about : \A k \in about : k <= i].kind

\* What a consumer knows of an agent after a drain: the snapshot, in which an
\* agent the manager does not list is "none", comes after the queued events.
Learnt(box, snapshot, agent, before) ==
  IF box.resync /\ snapshot[agent] # "none" THEN snapshot[agent]
  ELSE Latest(box.queue, agent, before)
=============================================================================
