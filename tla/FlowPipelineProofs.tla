------------------------- MODULE FlowPipelineProofs -------------------------
(***************************************************************************)
(* Proofs about FlowPipeline, for every set of events, every filter, every *)
(* capacity of the channel and every number of attempts: conservation in   *)
(* the agent first, then what the backend counts (the sender, the network  *)
(* and the refinement of FlowDelivery) on top of it.                       *)
(***************************************************************************)
EXTENDS FlowPipeline, TLAPS, FiniteSetTheorems, SequenceTheorems

-----------------------------------------------------------------------------
(* Type correctness.                                                       *)

\* The operations of the Accumulator give Accumulators (store.go:18-47).
LEMMA AccumulatorType ==
  /\ NewAccumulator \in Flows
  /\ \A f \in Flows, e \in Events : Add(f, e) \in Flows
  /\ \A f, g \in Flows : AddAll(f, g) \in Flows
<1>1. NewAccumulator \in Flows
  BY DEF NewAccumulator, Flows
<1>2. ASSUME NEW f \in Flows, NEW e \in Events PROVE Add(f, e) \in Flows
  <2>1. KeyFromMetric(e) \in Keys
    BY DEF Keys
  <2> QED
    BY <2>1 DEF Add, Flows
<1>3. ASSUME NEW f \in Flows, NEW g \in Flows PROVE AddAll(f, g) \in Flows
  BY DEF AddAll, Flows
<1> QED
  BY <1>1, <1>2, <1>3

\* Init establishes the type invariant.
LEMMA InitTypeOK == Init => TypeOK
<1> SUFFICES ASSUME Init PROVE TypeOK
  OBVIOUS
<1>1. pendingFlows \in Flows /\ batch \in Flows
  BY AccumulatorType DEF Init
<1>2. flowBatches \in Seq(Flows) /\ Len(flowBatches) = 0
  BY EmptySeq DEF Init
<1> QED
  BY <1>1, <1>2, BoundsAssumption DEF Init, TypeOK, BoundsAssumption

\* One POST, for the n-th attempt (backend.go:73-101).
LEMMA PostType ==
  ASSUME TypeOK, NEW S \in SUBSET Events, NEW n \in 1..MaxAttempts, Post(S, n)
  PROVE  /\ wire' \subseteq Request
         /\ posted' \in [Events -> Nat]
         /\ phase' \in {"posting", "backoff"}
         /\ attempt' \in 0..MaxAttempts
<1>1. wire' \subseteq Request
  <2>1. [evs |-> S, attempt |-> n] \in Request
    BY DEF Request
  <2> QED
    BY <2>1 DEF Post, TypeOK
<1>2. posted' \in [Events -> Nat]
  <2>1. \A e \in Events : posted[e] \in Nat
    BY DEF TypeOK
  <2>2. CASE ctx = "running"
    <3>1. posted' = [e \in Events |-> IF e \in S THEN posted[e] + 1 ELSE posted[e]]
      BY <2>2 DEF Post
    <3> QED
      BY <2>1, <3>1
  <2>3. CASE ctx # "running"
    BY <2>3 DEF Post, TypeOK
  <2> QED
    BY <2>2, <2>3
<1> QED
  BY <1>1, <1>2, BoundsAssumption DEF Post, BoundsAssumption

\* Every step of the main loop, the sender and the network keeps it.
LEMMA NextTypeOK == TypeOK /\ [Next]_vars => TypeOK'
<1> SUFFICES ASSUME TypeOK, [Next]_vars PROVE TypeOK'
  OBVIOUS
<1> USE BoundsAssumption DEF BoundsAssumption
<1>1. ASSUME NEW e \in Events, CollectEvent(e) PROVE TypeOK'
  <2>1. pendingFlows' \in Flows
    BY <1>1, AccumulatorType DEF CollectEvent, TypeOK
  <2> QED
    BY <1>1, <2>1 DEF CollectEvent, TypeOK, sender, backend, outcome
<1>2. CASE FlowTick
  <2>1. pendingFlows' \in Flows
    BY <1>2, AccumulatorType DEF FlowTick, Drain, TypeOK
  <2>2. flowBatches' \in Seq(Flows) /\ Len(flowBatches') <= BatchCap
    <3>1. CASE Len(flowBatches) < BatchCap
      <4>1. /\ Append(flowBatches, pendingFlows) \in Seq(Flows)
            /\ Len(Append(flowBatches, pendingFlows)) = Len(flowBatches) + 1
        BY AppendProperties DEF TypeOK
      <4>2. Len(flowBatches) \in Nat
        BY LenProperties DEF TypeOK
      <4> QED
        BY <1>2, <3>1, <4>1, <4>2 DEF FlowTick, Drain
    <3>2. CASE ~(Len(flowBatches) < BatchCap)
      BY <1>2, <3>2 DEF FlowTick, TypeOK
    <3> QED
      BY <3>1, <3>2
  <2> QED
    BY <1>2, <2>1, <2>2 DEF FlowTick, TypeOK, source, sender, backend, outcome
<1>3. ASSUME NEW ch \in {"events", "errors"}, ChannelClosed(ch) PROVE TypeOK'
  BY <1>3 DEF ChannelClosed, TypeOK, sender, backend, outcome
<1>4. CASE Signal
  BY <1>4 DEF Signal, TypeOK, sender, backend, outcome
<1>5. CASE Exit
  <2>1. pendingFlows' \in Flows /\ batch' \in Flows
    BY <1>5, AccumulatorType DEF Exit
  <2>2. flowBatches' \in Seq(Flows) /\ Len(flowBatches') = 0
    BY <1>5, EmptySeq DEF Exit
  <2>3. Held \subseteq Events
    BY DEF TypeOK, Held, Queued, EventsOf, Flows
  <2> QED
    <3>1. flowBatches' \in Seq(Flows) /\ Len(flowBatches') <= BatchCap
      BY <2>2
    <3>2. lost' \subseteq Events
      BY <1>5, <2>3 DEF Exit, TypeOK
    <3>3. current' = {} /\ replies' = {} /\ attempt' = 0 /\ phase' = "returned"
      BY <1>5 DEF Exit
    <3>4. alive' \in BOOLEAN
      BY <1>5, Zenon DEF Exit
    <3>5. UNCHANGED <<unseen, closed, ctx, wire, posted, applied, admitted, acked, dropped>>
      BY <1>5 DEF Exit
    <3> QED
      BY <2>1, <3>1, <3>2, <3>3, <3>4, <3>5 DEF TypeOK
<1>6. CASE ReceiveBatch
  <2>1. /\ Head(flowBatches) \in Flows /\ Tail(flowBatches) \in Seq(Flows)
        /\ Len(Tail(flowBatches)) = Len(flowBatches) - 1
    BY <1>6, HeadTailProperties DEF ReceiveBatch, TypeOK
  <2>2. Len(flowBatches) \in Nat
    BY LenProperties DEF TypeOK
  <2> QED
    BY <1>6, <2>1, <2>2 DEF ReceiveBatch, TypeOK, source, backend, outcome
<1>7. CASE SenderReturn
  BY <1>7 DEF SenderReturn, TypeOK, source, backend, outcome
<1>8. CASE NextState
  <2>1. PICK k \in Keys : /\ batch[k] # {}
                          /\ current' = batch[k]
                          /\ batch' = [batch EXCEPT ![k] = {}]
                          /\ Post(batch[k], 1)
    BY <1>8 DEF NextState
  <2>2. batch[k] \in SUBSET Events /\ batch' \in Flows
    BY <2>1 DEF TypeOK, Flows
  <2>3. 1 \in 1..MaxAttempts
    OBVIOUS
  <2>4. /\ wire' \subseteq Request /\ posted' \in [Events -> Nat]
        /\ phase' \in {"posting", "backoff"} /\ attempt' \in 0..MaxAttempts
    BY <2>1, <2>2, <2>3, PostType
  <2> QED
    BY <1>8, <2>1, <2>2, <2>4 DEF NextState, TypeOK, source, outcome
<1>9. CASE BatchDone
  BY <1>9 DEF BatchDone, TypeOK, source, backend, outcome
<1>10. CASE PostSucceeds
  BY <1>10 DEF PostSucceeds, TypeOK, source
<1>11. CASE PostFails
  BY <1>11 DEF PostFails, TypeOK, source, backend, outcome
<1>12. CASE Retry
  <2>1. attempt + 1 \in 1..MaxAttempts /\ current \in SUBSET Events
    BY <1>12 DEF Retry, TypeOK
  <2>2. /\ wire' \subseteq Request /\ posted' \in [Events -> Nat]
        /\ phase' \in {"posting", "backoff"} /\ attempt' \in 0..MaxAttempts
    BY <1>12, <2>1, PostType DEF Retry
  <2> QED
    BY <1>12, <2>2 DEF Retry, TypeOK, source, outcome
<1>13. CASE GiveUp
  BY <1>13 DEF GiveUp, TypeOK, source
<1>14. ASSUME NEW r \in wire, Apply(r) PROVE TypeOK'
  <2>1. applied' \in [Events -> Nat]
    <3>1. \A e \in Events : applied[e] \in Nat
      BY DEF TypeOK
    <3> QED
      BY <1>14, <3>1 DEF Apply
  <2>2. replies' \subseteq 1..MaxAttempts
    <3>1. r.attempt \in 1..MaxAttempts
      BY DEF TypeOK, Request
    <3> QED
      BY <1>14, <3>1 DEF Apply, TypeOK
  <2> QED
    BY <1>14, <2>1, <2>2 DEF Apply, TypeOK, source, sender, outcome
<1>15. ASSUME NEW r \in wire, Discard(r) PROVE TypeOK'
  BY <1>15 DEF Discard, TypeOK, source, sender, outcome
<1>16. CASE UNCHANGED vars
  BY <1>16 DEF vars, source, sender, backend, outcome, TypeOK
<1> QED
  BY <1>1, <1>2, <1>3, <1>4, <1>5, <1>6, <1>7, <1>8, <1>9, <1>10, <1>11, <1>12,
     <1>13, <1>14, <1>15, <1>16 DEF Next, MainLoop, Sender, Network

\* The pipeline is type correct: in particular the channel never exceeds its
\* capacity and no attempt exceeds sendFlow's loop (main.go:95, 308).
THEOREM TypeCorrect == Spec => []TypeOK
  BY InitTypeOK, NextTypeOK, PTL DEF Spec

-----------------------------------------------------------------------------
(* Conservation: every admitted event is in exactly one place.             *)

QueuedIn(q) == UNION {EventsOf(q[i]) : i \in 1..Len(q)}

\* No two batches of the channel share an event.
BatchesDisjoint(q) ==
  \A i, j \in 1..Len(q) : i # j => EventsOf(q[i]) \cap EventsOf(q[j]) = {}

\* What the phase of the sender goroutine says about the data it holds.
SenderPhases ==
  /\ phase \in {"receive", "returned"} => EventsOf(batch) = {}
  /\ phase \in {"receive", "next", "returned"} => current = {}

\* The places together hold what was admitted, and nothing the collector still has.
Accounted ==
  /\ admitted = Held \cup acked \cup dropped \cup lost
  /\ admitted \cap unseen = {}

\* The inductive invariant.
Conserved == TypeOK /\ KeysSeparate /\ NoEventTwice /\ SenderPhases /\ Accounted

\* What the Accumulator's operations do to the events it holds (store.go:18-59).
LEMMA AccumulatorEvents ==
  /\ EventsOf(NewAccumulator) = {}
  /\ \A f \in Flows, e \in Events : EventsOf(Add(f, e)) = EventsOf(f) \cup {e}
  /\ \A f \in Flows : AddAll(NewAccumulator, f) = f
  /\ \A f \in Flows, k \in Keys :
       EventsOf(f) = EventsOf([f EXCEPT ![k] = {}]) \cup f[k]
<1>1. EventsOf(NewAccumulator) = {}
  BY DEF EventsOf, NewAccumulator
<1>2. ASSUME NEW f \in Flows, NEW e \in Events
      PROVE  EventsOf(Add(f, e)) = EventsOf(f) \cup {e}
  <2>1. KeyFromMetric(e) \in Keys
    BY DEF Keys
  <2>2. \A k \in Keys : Add(f, e)[k] = IF k = KeyFromMetric(e) THEN f[k] \cup {e} ELSE f[k]
    BY <2>1 DEF Add, Flows
  <2> QED
    BY <2>1, <2>2 DEF EventsOf
<1>3. ASSUME NEW f \in Flows PROVE AddAll(NewAccumulator, f) = f
  BY DEF AddAll, NewAccumulator, Flows
<1>4. ASSUME NEW f \in Flows, NEW k \in Keys
      PROVE  EventsOf(f) = EventsOf([f EXCEPT ![k] = {}]) \cup f[k]
  <2>1. \A h \in Keys : [f EXCEPT ![k] = {}][h] = IF h = k THEN {} ELSE f[h]
    BY DEF Flows
  <2> QED
    BY <2>1 DEF EventsOf
<1> QED
  BY <1>1, <1>2, <1>3, <1>4

\* A batch that is appended to the channel (main.go:127-128).
LEMMA QueueAppend ==
  ASSUME NEW q \in Seq(Flows), NEW f \in Flows,
         BatchesDisjoint(q), EventsOf(f) \cap QueuedIn(q) = {}
  PROVE  /\ QueuedIn(Append(q, f)) = QueuedIn(q) \cup EventsOf(f)
         /\ BatchesDisjoint(Append(q, f))
<1>1. /\ Len(Append(q, f)) = Len(q) + 1
      /\ \A i \in 1..Len(q) : Append(q, f)[i] = q[i]
      /\ Append(q, f)[Len(q) + 1] = f
      /\ Len(q) \in Nat
  BY AppendProperties, LenProperties
<1>2. \A i \in 1..Len(q) : EventsOf(q[i]) \subseteq QueuedIn(q)
  BY DEF QueuedIn
<1>3. \A i \in 1..(Len(q) + 1) : i \in 1..Len(q) \/ i = Len(q) + 1
  BY <1>1
<1>4. QueuedIn(Append(q, f)) = QueuedIn(q) \cup EventsOf(f)
  <2>1. 1..Len(Append(q, f)) = 1..Len(q) \cup {Len(q) + 1}
    BY <1>1
  <2> QED
    BY <1>1, <2>1, Zenon DEF QueuedIn
<1>5. BatchesDisjoint(Append(q, f))
  BY <1>1, <1>2, <1>3 DEF BatchesDisjoint
<1> QED
  BY <1>4, <1>5

\* A batch that is received from the channel (main.go:153).
LEMMA QueueReceive ==
  ASSUME NEW q \in Seq(Flows), q # <<>>, BatchesDisjoint(q)
  PROVE  /\ QueuedIn(q) = EventsOf(Head(q)) \cup QueuedIn(Tail(q))
         /\ EventsOf(Head(q)) \cap QueuedIn(Tail(q)) = {}
         /\ BatchesDisjoint(Tail(q))
<1>1. /\ Len(Tail(q)) = Len(q) - 1
      /\ \A i \in 1..Len(Tail(q)) : Tail(q)[i] = q[i + 1]
      /\ Len(q) \in Nat
      /\ Len(q) # 0
      /\ Head(q) = q[1]
  BY HeadTailProperties, LenProperties, EmptySeq
<1>2. \A i \in 1..Len(q) : i = 1 \/ (i - 1 \in 1..Len(Tail(q)) /\ Tail(q)[i - 1] = q[i])
  BY <1>1
<1>3. \A i \in 1..Len(Tail(q)) : i + 1 \in 1..Len(q) /\ i + 1 # 1
  BY <1>1
<1>4. QueuedIn(q) \subseteq EventsOf(Head(q)) \cup QueuedIn(Tail(q))
  BY <1>1, <1>2 DEF QueuedIn
<1>5. QueuedIn(Tail(q)) \subseteq QueuedIn(q) /\ EventsOf(Head(q)) \subseteq QueuedIn(q)
  BY <1>1, <1>3 DEF QueuedIn
<1>6. EventsOf(Head(q)) \cap QueuedIn(Tail(q)) = {}
  <2>1. 1 \in 1..Len(q)
    BY <1>1
  <2>2. \A i \in 1..Len(Tail(q)) : EventsOf(Head(q)) \cap EventsOf(Tail(q)[i]) = {}
    BY <1>1, <1>3, <2>1 DEF BatchesDisjoint
  <2> QED
    BY <2>2 DEF QueuedIn
<1>7. BatchesDisjoint(Tail(q))
  BY <1>1, <1>3 DEF BatchesDisjoint
<1> QED
  BY <1>4, <1>5, <1>6, <1>7

\* Init establishes conservation: nothing has been admitted.
LEMMA InitConserved == Init => Conserved
<1> SUFFICES ASSUME Init PROVE Conserved
  OBVIOUS
<1>1. TypeOK
  BY InitTypeOK
<1>2. /\ EventsOf(pendingFlows) = {} /\ EventsOf(batch) = {} /\ current = {}
      /\ acked = {} /\ dropped = {} /\ lost = {} /\ admitted = {}
  BY AccumulatorEvents DEF Init
<1>3. Len(flowBatches) = 0
  BY EmptySeq DEF Init
<1>4. Queued = {}
  BY <1>3 DEF Queued
<1>5. KeysSeparate
  BY <1>3 DEF KeysSeparate, Init, NewAccumulator
<1>6. NoEventTwice
  BY <1>2, <1>3, <1>4 DEF NoEventTwice
<1> QED
  BY <1>1, <1>2, <1>4, <1>5, <1>6 DEF Conserved, SenderPhases, Accounted, Held

\* No step mixes the events of two keys.
LEMMA NextKeysSeparate == TypeOK /\ KeysSeparate /\ [Next]_vars => KeysSeparate'
<1> SUFFICES ASSUME TypeOK, KeysSeparate, [Next]_vars PROVE KeysSeparate'
  OBVIOUS
<1>1. ASSUME NEW e \in Events, CollectEvent(e) PROVE KeysSeparate'
  <2>1. KeyFromMetric(e) \in Keys
    BY DEF Keys
  <2>2. \A k \in Keys : pendingFlows'[k] = pendingFlows[k] \/
          (k = KeyFromMetric(e) /\ pendingFlows'[k] = pendingFlows[k] \cup {e})
    BY <1>1, <2>1 DEF CollectEvent, Add, TypeOK, Flows
  <2>3. UNCHANGED <<batch, flowBatches>>
    BY <1>1 DEF CollectEvent, sender
  <2> QED
    BY <2>2, <2>3 DEF KeysSeparate
<1>2. CASE FlowTick
  <2>1. batch' = batch
    BY <1>2 DEF FlowTick, sender
  <2>2. CASE Len(flowBatches) < BatchCap
    <3>1. /\ flowBatches' = Append(flowBatches, pendingFlows)
          /\ pendingFlows' = NewAccumulator
      BY <1>2, <2>2 DEF FlowTick, Drain
    <3>2. /\ Len(flowBatches') = Len(flowBatches) + 1
          /\ \A i \in 1..Len(flowBatches) : flowBatches'[i] = flowBatches[i]
          /\ flowBatches'[Len(flowBatches) + 1] = pendingFlows
          /\ Len(flowBatches) \in Nat
      BY <3>1, AppendProperties, LenProperties DEF TypeOK
    <3>3. \A i \in 1..Len(flowBatches') : flowBatches'[i] = pendingFlows
             \/ (i \in 1..Len(flowBatches) /\ flowBatches'[i] = flowBatches[i])
      BY <3>2
    <3>4. \A k \in Keys : pendingFlows'[k] = {}
      BY <3>1 DEF NewAccumulator
    <3> QED
      BY <2>1, <3>3, <3>4 DEF KeysSeparate
  <2>3. CASE ~(Len(flowBatches) < BatchCap)
    <3>1. flowBatches' = flowBatches /\ pendingFlows' = pendingFlows
      BY <1>2, <2>3, AccumulatorEvents DEF FlowTick, Drain, TypeOK
    <3> QED
      BY <2>1, <3>1 DEF KeysSeparate
  <2> QED
    BY <2>2, <2>3
<1>3. CASE Exit
  <2>1. Len(flowBatches') = 0
    BY <1>3, EmptySeq DEF Exit
  <2>2. \A k \in Keys : pendingFlows'[k] = {} /\ batch'[k] = {}
    BY <1>3 DEF Exit, NewAccumulator
  <2> QED
    BY <2>1, <2>2 DEF KeysSeparate
<1>4. CASE ReceiveBatch
  <2>1. /\ batch' = flowBatches[1] /\ flowBatches' = Tail(flowBatches)
        /\ pendingFlows' = pendingFlows /\ flowBatches # <<>>
    BY <1>4 DEF ReceiveBatch
  <2>2. /\ Len(flowBatches') = Len(flowBatches) - 1
        /\ \A i \in 1..Len(flowBatches') : flowBatches'[i] = flowBatches[i + 1]
        /\ Len(flowBatches) \in Nat /\ Len(flowBatches) # 0
    BY <2>1, HeadTailProperties, LenProperties, EmptySeq DEF TypeOK
  <2>3. 1 \in 1..Len(flowBatches) /\ \A i \in 1..Len(flowBatches') : i + 1 \in 1..Len(flowBatches)
    BY <2>2
  <2> QED
    BY <2>1, <2>2, <2>3 DEF KeysSeparate
<1>5. CASE NextState
  <2>1. UNCHANGED <<pendingFlows, flowBatches>>
    BY <1>5 DEF NextState
  <2>2. \A k \in Keys : batch'[k] \subseteq batch[k]
    BY <1>5 DEF NextState, TypeOK, Flows
  <2> QED
    BY <2>1, <2>2 DEF KeysSeparate
<1>6. CASE UNCHANGED <<pendingFlows, flowBatches, batch>>
  BY <1>6 DEF KeysSeparate
<1>7. ASSUME NEW ch, ChannelClosed(ch) PROVE UNCHANGED <<pendingFlows, flowBatches, batch>>
  BY <1>7 DEF ChannelClosed, sender
<1>8. ASSUME Signal \/ SenderReturn \/ BatchDone \/ PostSucceeds \/ PostFails \/ Retry \/ GiveUp
      PROVE  UNCHANGED <<pendingFlows, flowBatches, batch>>
  BY <1>8 DEF Signal, SenderReturn, BatchDone, PostSucceeds, PostFails, Retry, GiveUp, sender
<1>9. ASSUME NEW r, Apply(r) \/ Discard(r) PROVE UNCHANGED <<pendingFlows, flowBatches, batch>>
  BY <1>9 DEF Apply, Discard, sender
<1>10. CASE UNCHANGED vars
  BY <1>6, <1>10 DEF vars, sender
<1> QED
  BY <1>1, <1>2, <1>3, <1>4, <1>5, <1>6, <1>7, <1>8, <1>9, <1>10
  DEF Next, MainLoop, Sender, Network

\* The seven places an event can be in, pairwise disjoint and together admitted.
Partition(P, Q, B, C, A, D, L) ==
  /\ P \cap (Q \cup B \cup C \cup A \cup D \cup L) = {}
  /\ Q \cap (B \cup C \cup A \cup D \cup L) = {}
  /\ B \cap (C \cup A \cup D \cup L) = {}
  /\ C \cap (A \cup D \cup L) = {}
  /\ A \cap D = {} /\ A \cap L = {} /\ D \cap L = {}

\* NoEventTwice in terms of the seven sets.
LEMMA NoEventTwiceIsPartition ==
  NoEventTwice <=>
    /\ Partition(EventsOf(pendingFlows), Queued, EventsOf(batch), current, acked, dropped, lost)
    /\ BatchesDisjoint(flowBatches)
  BY DEF NoEventTwice, Partition, BatchesDisjoint

\* No step loses or duplicates an event.
LEMMA NextConserved == Conserved /\ [Next]_vars => Conserved'
<1> SUFFICES ASSUME Conserved, [Next]_vars PROVE Conserved'
  OBVIOUS
<1> DEFINE P == EventsOf(pendingFlows)
           B == EventsOf(batch)
           Goal == /\ Partition(P, Queued, B, current, acked, dropped, lost)
                   /\ BatchesDisjoint(flowBatches)
                   /\ SenderPhases
                   /\ admitted = P \cup Queued \cup B \cup current \cup acked \cup dropped \cup lost
                   /\ admitted \cap unseen = {}
<1>1. TypeOK' /\ KeysSeparate'
  BY NextTypeOK, NextKeysSeparate DEF Conserved
<1>2. Goal /\ TypeOK /\ KeysSeparate
  BY NoEventTwiceIsPartition DEF Conserved, Accounted, Held
<1>3. SUFFICES Goal'
  BY <1>1, <1>3, NoEventTwiceIsPartition, PTL DEF Conserved, Accounted, Held
<1>4. flowBatches' = flowBatches => Queued' = Queued
  BY DEF Queued
<1>5. Queued = QueuedIn(flowBatches) /\ Queued' = QueuedIn(flowBatches')
  BY DEF Queued, QueuedIn
<1>6. ASSUME NEW e \in Events, CollectEvent(e) PROVE Goal'
  <2>1. /\ B' = B /\ Queued' = Queued /\ current' = current /\ acked' = acked
        /\ dropped' = dropped /\ lost' = lost /\ flowBatches' = flowBatches /\ phase' = phase
    BY <1>4, <1>6 DEF CollectEvent, sender, outcome
  <2>2. \/ P' = P /\ admitted' = admitted
        \/ P' = P \cup {e} /\ admitted' = admitted \cup {e}
    BY <1>2, <1>6, AccumulatorEvents DEF CollectEvent, TypeOK
  <2>3. e \in unseen /\ unseen' = unseen \ {e}
    BY <1>6 DEF CollectEvent
  <2>4. e \notin admitted
    BY <1>2, <2>3
  <2> QED
    BY <1>2, <2>1, <2>2, <2>3, <2>4 DEF Partition, SenderPhases
<1>7. CASE FlowTick
  <2>1. /\ B' = B /\ current' = current /\ acked' = acked /\ dropped' = dropped
        /\ lost' = lost /\ phase' = phase /\ admitted' = admitted /\ unseen' = unseen
    BY <1>7 DEF FlowTick, sender, outcome, source
  <2>2. CASE Len(flowBatches) < BatchCap
    <3>1. flowBatches' = Append(flowBatches, pendingFlows) /\ P' = {}
      BY <1>7, <2>2, AccumulatorEvents DEF FlowTick, Drain
    <3>2. P \cap QueuedIn(flowBatches) = {}
      BY <1>2, <1>5 DEF Partition
    <3>3. Queued' = Queued \cup P /\ BatchesDisjoint(flowBatches')
      BY <1>2, <1>5, <3>1, <3>2, QueueAppend DEF TypeOK
    <3> QED
      BY <1>2, <2>1, <3>1, <3>3 DEF Partition, SenderPhases
  <2>3. CASE ~(Len(flowBatches) < BatchCap)
    <3>1. flowBatches' = flowBatches /\ P' = P
      BY <1>2, <1>7, <2>3, AccumulatorEvents DEF FlowTick, Drain, TypeOK
    <3> QED
      BY <1>2, <1>4, <2>1, <3>1 DEF Partition, SenderPhases
  <2> QED
    BY <2>2, <2>3
<1>8. CASE Exit
  <2>1. Len(flowBatches') = 0
    BY <1>8, EmptySeq DEF Exit
  <2>2. Queued' = {} /\ BatchesDisjoint(flowBatches')
    BY <2>1 DEF Queued, BatchesDisjoint
  <2>3. /\ P' = {} /\ B' = {} /\ current' = {} /\ phase' = "returned"
        /\ lost' = lost \cup P \cup Queued \cup B \cup current
        /\ UNCHANGED <<unseen, admitted, acked, dropped>>
    BY <1>8, AccumulatorEvents DEF Exit, Held
  <2> QED
    BY <1>2, <2>2, <2>3 DEF Partition, SenderPhases
<1>9. CASE ReceiveBatch
  <2>1. /\ flowBatches # <<>> /\ flowBatches' = Tail(flowBatches)
        /\ B' = EventsOf(Head(flowBatches)) /\ phase = "receive" /\ phase' = "next"
        /\ UNCHANGED <<pendingFlows, current, unseen, admitted, acked, dropped, lost>>
    BY <1>9 DEF ReceiveBatch, source, outcome
  <2>2. B = {} /\ current = {}
    BY <1>2, <2>1 DEF SenderPhases
  <2>3. /\ Queued = B' \cup Queued' /\ B' \cap Queued' = {}
        /\ BatchesDisjoint(flowBatches')
    BY <1>2, <1>5, <2>1, QueueReceive DEF TypeOK
  <2> QED
    BY <1>2, <2>1, <2>2, <2>3 DEF Partition, SenderPhases
<1>10. CASE NextState
  <2>1. PICK k \in Keys : /\ batch[k] # {}
                          /\ current' = batch[k]
                          /\ batch' = [batch EXCEPT ![k] = {}]
                          /\ Post(batch[k], 1)
    BY <1>10 DEF NextState
  <2>2. /\ phase = "next" /\ phase' \in {"posting", "backoff"}
        /\ UNCHANGED <<pendingFlows, flowBatches, unseen, admitted, acked, dropped, lost>>
    BY <1>10, <2>1 DEF NextState, Post, source, outcome
  <2>3. current = {}
    BY <1>2, <2>2 DEF SenderPhases
  <2>4. B = B' \cup current'
    BY <1>2, <2>1, AccumulatorEvents DEF TypeOK
  <2>5. B' \cap current' = {}
    <3>1. \A h \in Keys : batch'[h] = IF h = k THEN {} ELSE batch[h]
      BY <1>2, <2>1 DEF TypeOK, Flows
    <3> QED
      BY <1>2, <2>1, <3>1 DEF EventsOf, KeysSeparate
  <2> QED
    BY <1>2, <1>4, <2>2, <2>3, <2>4, <2>5 DEF Partition, SenderPhases
<1>11. CASE PostSucceeds
  <2>1. /\ acked' = acked \cup current /\ current' = {} /\ phase' = "next"
        /\ UNCHANGED <<pendingFlows, flowBatches, batch, unseen, admitted, dropped, lost>>
    BY <1>11 DEF PostSucceeds, source
  <2> QED
    BY <1>2, <1>4, <2>1 DEF Partition, SenderPhases
<1>12. CASE GiveUp
  <2>1. /\ dropped' = dropped \cup current /\ current' = {} /\ phase' = "next"
        /\ UNCHANGED <<pendingFlows, flowBatches, batch, unseen, admitted, acked, lost>>
    BY <1>12 DEF GiveUp, source
  <2> QED
    BY <1>2, <1>4, <2>1 DEF Partition, SenderPhases
<1>13. CASE SenderReturn \/ BatchDone
  <2>1. UNCHANGED <<pendingFlows, flowBatches, batch, current, unseen, admitted, acked, dropped, lost>>
    BY <1>13 DEF SenderReturn, BatchDone, source, outcome
  <2>2. SenderPhases'
    BY <1>2, <1>13, <2>1, AccumulatorEvents DEF SenderPhases, SenderReturn, BatchDone
  <2> QED
    BY <1>2, <1>4, <2>1, <2>2 DEF Partition
<1>14. CASE PostFails \/ Retry
  <2>1. UNCHANGED <<pendingFlows, flowBatches, batch, current, unseen, admitted, acked, dropped, lost>>
    BY <1>14 DEF PostFails, Retry, source, outcome
  <2>2. SenderPhases'
    BY <1>14 DEF SenderPhases, PostFails, Retry, Post
  <2> QED
    BY <1>2, <1>4, <2>1, <2>2 DEF Partition
<1>15. CASE UNCHANGED <<pendingFlows, flowBatches, batch, current, phase, unseen, admitted,
                        acked, dropped, lost>>
  BY <1>2, <1>4, <1>15 DEF Partition, SenderPhases
<1>16. ASSUME NEW ch, ChannelClosed(ch)
       PROVE  UNCHANGED <<pendingFlows, flowBatches, batch, current, phase, unseen, admitted,
                          acked, dropped, lost>>
  BY <1>16 DEF ChannelClosed, sender, outcome
<1>17. ASSUME Signal
       PROVE  UNCHANGED <<pendingFlows, flowBatches, batch, current, phase, unseen, admitted,
                          acked, dropped, lost>>
  BY <1>17 DEF Signal, sender, outcome
<1>18. ASSUME NEW r, Apply(r) \/ Discard(r)
       PROVE  UNCHANGED <<pendingFlows, flowBatches, batch, current, phase, unseen, admitted,
                          acked, dropped, lost>>
  BY <1>18 DEF Apply, Discard, source, sender, outcome
<1>19. CASE UNCHANGED vars
  BY <1>15, <1>19 DEF vars, source, sender, outcome
<1> HIDE DEF Goal
<1> QED
  BY <1>6, <1>7, <1>8, <1>9, <1>10, <1>11, <1>12, <1>13, <1>14, <1>15, <1>16, <1>17, <1>18, <1>19
  DEF Next, MainLoop, Sender, Network

\* The invariant holds at every moment.
LEMMA AlwaysConserved == Spec => []Conserved
  BY InitConserved, NextConserved, PTL DEF Spec

\* Each admitted event is somewhere at every moment: in the accumulator, in a queued
\* batch, with the sender, or settled.  A full channel, a failed POST or a signal
\* loses no counter (main.go:97-164, store.go).
THEOREM Conservation == Spec => []NoEventLost
<1>1. Conserved => NoEventLost
  BY DEF Conserved, Accounted, NoEventLost
<1> QED
  BY <1>1, AlwaysConserved, PTL

\* It is there once: no event is in two of these places, or in two batches of the
\* channel; putting a refused batch back duplicates nothing (main.go:129-141).
THEOREM NoDuplication == Spec => []NoEventTwice
<1>1. Conserved => NoEventTwice
  BY DEF Conserved
<1> QED
  BY <1>1, AlwaysConserved, PTL

\* An event is only ever under its own flow key: merging a refused batch into the
\* accumulator mixes no flows (store.go:30-47).
THEOREM FlowsStaySeparate == Spec => []KeysSeparate
<1>1. Conserved => KeysSeparate
  BY DEF Conserved
<1> QED
  BY <1>1, AlwaysConserved, PTL

-----------------------------------------------------------------------------
(* What the backend counts.                                                *)

Settled == acked \cup dropped \cup lost

Idle == {"receive", "next", "returned"}

\* Requests under way carry the state in hand, or settled events only; while a POST
\* or a wait is going on there is a state in hand.
Requests ==
  /\ phase \notin Idle => current # {}
  /\ IsFiniteSet(wire)
  /\ \A r \in wire : r.evs # {} /\ (r.evs = current \/ r.evs \subseteq Settled)

\* An event is posted once per attempt, and not before it is in hand.
Posts ==
  /\ \A e \in Events : posted[e] <= MaxAttempts
  /\ \A e \in Events \ (current \cup Settled) : posted[e] = 0
  /\ \A e \in current : posted[e] <= attempt /\ (ctx = "running" => posted[e] = attempt)

\* Every count belongs to a POST of its own.
Counts == \A e \in Events : applied[e] + Cardinality(InFlight(e)) <= posted[e]

\* A recorded answer means that the state in hand has been counted.
Answers ==
  /\ phase \in Idle => replies = {}
  /\ replies # {} => \A e \in current : applied[e] >= 1

\* The inductive invariant.
Delivered ==
  /\ Conserved /\ Requests /\ Posts /\ Counts /\ Answers
  /\ AckedIsCounted /\ DroppedAfterAllAttempts

\* Init establishes it: nothing has been posted.
LEMMA InitDelivered == Init => Delivered
<1> SUFFICES ASSUME Init PROVE Delivered
  OBVIOUS
<1>1. Conserved
  BY InitConserved
<1>2. Requests /\ Posts
  BY FS_EmptySet, BoundsAssumption DEF Init, Requests, Posts, Idle, BoundsAssumption
<1>3. Counts
  <2>1. \A e \in Events : InFlight(e) = {}
    BY DEF Init, InFlight
  <2> QED
    BY <2>1, FS_EmptySet DEF Init, Counts
<1>4. Answers /\ AckedIsCounted /\ DroppedAfterAllAttempts
  BY DEF Init, Answers, AckedIsCounted, DroppedAfterAllAttempts
<1> QED
  BY <1>1, <1>2, <1>3, <1>4 DEF Delivered

-----------------------------------------------------------------------------
(* What the steps change.                                                  *)

\* Steps that neither settle nor send anything.
Quiet ==
  /\ UNCHANGED <<wire, replies, posted, applied, current, attempt, acked, dropped, lost>>
  /\ ctx' = "running" => ctx = "running"
  /\ phase' \in Idle <=> phase \in Idle

\* Every step is quiet or one of seven.
LEMMA StepKinds ==
  ASSUME [Next]_vars
  PROVE  \/ Quiet
         \/ Exit \/ NextState \/ Retry \/ PostSucceeds \/ GiveUp
         \/ \E r \in wire : Apply(r) \/ Discard(r)
<1>1. ASSUME NEW e \in Events, CollectEvent(e) PROVE Quiet
  BY <1>1 DEF CollectEvent, Quiet, sender, backend, outcome
<1>2. ASSUME FlowTick PROVE Quiet
  BY <1>2 DEF FlowTick, Quiet, source, sender, backend, outcome
<1>3. ASSUME NEW ch, ChannelClosed(ch) PROVE Quiet
  BY <1>3 DEF ChannelClosed, Quiet, sender, backend, outcome
<1>4. ASSUME Signal PROVE Quiet
  BY <1>4 DEF Signal, Quiet, sender, backend, outcome
<1>5. ASSUME ReceiveBatch \/ SenderReturn \/ BatchDone \/ PostFails PROVE Quiet
  BY <1>5
  DEF ReceiveBatch, SenderReturn, BatchDone, PostFails, Quiet, Idle, source, backend, outcome
<1>6. ASSUME UNCHANGED vars PROVE Quiet
  BY <1>6 DEF vars, Quiet, source, sender, backend, outcome
<1> QED
  BY <1>1, <1>2, <1>3, <1>4, <1>5, <1>6 DEF Next, MainLoop, Sender, Network

\* One POST puts at most one request on the wire (backend.go:73-101).
LEMMA PostEffect ==
  ASSUME TypeOK, Requests, NEW S \in SUBSET Events, NEW n, Post(S, n)
  PROVE  /\ attempt' = n
         /\ phase' \notin Idle
         /\ IsFiniteSet(wire')
         /\ \A r \in wire' : r \in wire \/ r.evs = S
         /\ \A e \in Events \ S : posted'[e] = posted[e] /\ InFlight(e)' = InFlight(e)
         /\ \A e \in S : \/ /\ posted'[e] = posted[e] + 1
                            /\ InFlight(e)' = InFlight(e) \cup {[evs |-> S, attempt |-> n]}
                         \/ /\ ctx # "running"
                            /\ posted'[e] = posted[e] /\ InFlight(e)' = InFlight(e)
<1>1. CASE ctx = "running"
  <2> DEFINE q == [evs |-> S, attempt |-> n]
  <2>1. /\ wire' = wire \cup {q} /\ attempt' = n /\ phase' = "posting"
        /\ posted' = [e \in Events |-> IF e \in S THEN posted[e] + 1 ELSE posted[e]]
    BY <1>1 DEF Post
  <2>2. IsFiniteSet(wire')
    BY <2>1, FS_AddElement DEF Requests
  <2>3. q.evs = S
    OBVIOUS
  <2>4. \A e \in Events : InFlight(e)' = IF e \in S THEN InFlight(e) \cup {q} ELSE InFlight(e)
    <3> HIDE DEF q
    <3> QED
      BY <2>1, <2>3 DEF InFlight
  <2> QED
    BY <2>1, <2>2, <2>3, <2>4 DEF Idle
<1>2. CASE ctx # "running"
  BY <1>2 DEF Post, InFlight, Requests, Idle
<1> QED
  BY <1>1, <1>2

\* The requests that carry an event are finitely many.
LEMMA InFlightFinite ==
  ASSUME Requests, NEW e
  PROVE  IsFiniteSet(InFlight(e)) /\ Cardinality(InFlight(e)) \in Nat
<1>1. InFlight(e) \in SUBSET wire
  BY DEF InFlight
<1>2. IsFiniteSet(InFlight(e))
  BY <1>1, FS_Subset DEF Requests
<1> QED
  BY <1>2, FS_CardinalityType

\* A POST of states that are not settled keeps the bounds: it adds at most one
\* request and, if the context is alive, exactly one to what was posted.
LEMMA PostKeepsCounts ==
  ASSUME TypeOK, Requests, Counts, NEW S \in SUBSET Events, NEW n, Post(S, n),
         applied' = applied
  PROVE  Counts'
<1>1. SUFFICES ASSUME NEW e \in Events
               PROVE  applied[e] + Cardinality(InFlight(e)') <= posted'[e]
  BY DEF Counts
<1>2. /\ applied[e] \in Nat /\ posted[e] \in Nat
      /\ applied[e] + Cardinality(InFlight(e)) <= posted[e]
  BY DEF TypeOK, Counts
<1>3. IsFiniteSet(InFlight(e)) /\ Cardinality(InFlight(e)) \in Nat
  BY InFlightFinite
<1>4. CASE posted'[e] = posted[e] /\ InFlight(e)' = InFlight(e)
  BY <1>2, <1>4
<1>5. CASE /\ posted'[e] = posted[e] + 1
           /\ InFlight(e)' = InFlight(e) \cup {[evs |-> S, attempt |-> n]}
  <2>1. \/ Cardinality(InFlight(e)') = Cardinality(InFlight(e))
        \/ Cardinality(InFlight(e)') = Cardinality(InFlight(e)) + 1
    <3> DEFINE q == [evs |-> S, attempt |-> n]
    <3>1. Cardinality(InFlight(e) \cup {q}) =
            IF q \in InFlight(e) THEN Cardinality(InFlight(e)) ELSE Cardinality(InFlight(e)) + 1
      BY <1>3, FS_AddElement
    <3> HIDE DEF q
    <3> QED
      BY <1>5, <3>1 DEF q
  <2> QED
    BY <1>2, <1>3, <1>5, <2>1
<1> QED
  BY <1>4, <1>5, PostEffect

\* A request that leaves the wire, counted (by c = 1) or not, keeps them too.
LEMMA LeavingKeepsCounts ==
  ASSUME TypeOK, Requests, Counts, NEW r \in wire,
         wire' = wire \ {r}, posted' = posted,
         \/ applied' = applied
         \/ applied' = [e \in Events |-> IF e \in r.evs THEN applied[e] + 1 ELSE applied[e]]
  PROVE  Counts'
<1>1. SUFFICES ASSUME NEW e \in Events
               PROVE  applied'[e] + Cardinality(InFlight(e)') <= posted[e]
  BY DEF Counts
<1>2. /\ applied[e] \in Nat /\ posted[e] \in Nat
      /\ applied[e] + Cardinality(InFlight(e)) <= posted[e]
  BY DEF TypeOK, Counts
<1>3. IsFiniteSet(InFlight(e)) /\ Cardinality(InFlight(e)) \in Nat
  BY InFlightFinite
<1>4. CASE e \in r.evs
  <2>1. InFlight(e)' = InFlight(e) \ {r} /\ r \in InFlight(e)
    BY <1>4 DEF InFlight
  <2>2. Cardinality(InFlight(e)') = Cardinality(InFlight(e)) - 1
    BY <1>3, <2>1, FS_RemoveElement
  <2>3. applied'[e] = applied[e] \/ applied'[e] = applied[e] + 1
    BY <1>4
  <2> QED
    BY <1>2, <1>3, <2>2, <2>3
<1>5. CASE e \notin r.evs
  <2>1. InFlight(e)' = InFlight(e) /\ applied'[e] = applied[e]
    BY <1>5 DEF InFlight
  <2> QED
    BY <1>2, <2>1
<1> QED
  BY <1>4, <1>5

-----------------------------------------------------------------------------
(* The invariant is inductive.                                             *)

\* A quiet step leaves requests, posts and outcomes alone.
LEMMA QuietDelivered == Delivered /\ Conserved' /\ Quiet => Delivered'
  BY DEF Delivered, Quiet, Requests, Posts, Counts, Answers, AckedIsCounted,
         DroppedAfterAllAttempts, Settled, InFlight

\* Leaving run settles what was still held, posted or not (main.go:99-100).
LEMMA ExitDelivered == Delivered /\ Conserved' /\ Exit => Delivered'
<1> SUFFICES ASSUME Delivered, Conserved', Exit PROVE Delivered'
  OBVIOUS
<1>1. /\ current' = {} /\ replies' = {} /\ lost' = lost \cup Held /\ phase' = "returned"
      /\ UNCHANGED <<ctx, wire, posted, applied, acked, dropped>>
  BY DEF Exit
<1>2. current \subseteq lost' /\ Settled \subseteq Settled'
  BY <1>1 DEF Held, Settled
<1>3. Requests'
  BY <1>1, <1>2 DEF Delivered, Requests, Settled, Idle
<1>4. Posts'
  BY <1>1, <1>2 DEF Delivered, Posts, Settled
<1>5. Counts' /\ Answers' /\ AckedIsCounted' /\ DroppedAfterAllAttempts'
  BY <1>1 DEF Delivered, Counts, Answers, AckedIsCounted, DroppedAfterAllAttempts, InFlight
<1> QED
  BY <1>3, <1>4, <1>5 DEF Delivered

\* The first attempt at the next flow of the batch (main.go:154-161).
LEMMA NextStateDelivered == Delivered /\ Conserved' /\ NextState => Delivered'
<1> SUFFICES ASSUME Delivered, Conserved', NextState PROVE Delivered'
  OBVIOUS
<1>1. PICK k \in Keys : batch[k] # {} /\ current' = batch[k] /\ Post(batch[k], 1)
  BY DEF NextState
<1>2. /\ phase = "next"
      /\ UNCHANGED <<ctx, replies, applied, acked, dropped, lost>>
  BY DEF NextState, source, outcome
<1>3. TypeOK /\ Requests /\ batch[k] \in SUBSET Events
  BY DEF Delivered, Conserved, TypeOK, Flows
<1>4. current = {} /\ replies = {}
  BY <1>2 DEF Delivered, Conserved, SenderPhases, Answers, Idle
<1>5. batch[k] \cap Settled = {}
  BY DEF Delivered, Conserved, NoEventTwice, EventsOf, Settled
<1>6. \A e \in batch[k] : posted[e] = 0
  BY <1>3, <1>4, <1>5 DEF Delivered, Posts
<1>7. /\ attempt' = 1
      /\ phase' \notin Idle
      /\ IsFiniteSet(wire')
      /\ \A r \in wire' : r \in wire \/ r.evs = batch[k]
      /\ \A e \in Events \ batch[k] : posted'[e] = posted[e]
      /\ \A e \in batch[k] : posted'[e] = 1 \/ (ctx # "running" /\ posted'[e] = 0)
  <2>1. /\ attempt' = 1
        /\ phase' \notin Idle
        /\ IsFiniteSet(wire')
        /\ \A r \in wire' : r \in wire \/ r.evs = batch[k]
        /\ \A e \in Events \ batch[k] : posted'[e] = posted[e]
        /\ \A e \in batch[k] : \/ posted'[e] = posted[e] + 1
                               \/ (ctx # "running" /\ posted'[e] = posted[e])
    BY <1>1, <1>3, PostEffect
  <2> QED
    BY <1>6, <2>1
<1>8. Requests'
  BY <1>1, <1>2, <1>4, <1>7 DEF Delivered, Requests, Settled
<1>9. Posts'
  BY <1>1, <1>2, <1>3, <1>4, <1>7, BoundsAssumption
  DEF Delivered, Posts, Settled, BoundsAssumption
<1>10. Counts'
  BY <1>1, <1>2, <1>3, PostKeepsCounts DEF Delivered
<1>11. Answers' /\ AckedIsCounted'
  BY <1>2, <1>4 DEF Delivered, Answers, AckedIsCounted
<1>12. DroppedAfterAllAttempts'
  <2>1. \A e \in dropped : e \in Events \ batch[k]
    BY <1>5 DEF Settled, Delivered, Conserved, TypeOK
  <2> QED
    BY <1>2, <1>7, <2>1 DEF Delivered, DroppedAfterAllAttempts
<1> QED
  BY <1>8, <1>9, <1>10, <1>11, <1>12 DEF Delivered

\* A further attempt at the same flow, while attempts are left (main.go:308-319).
LEMMA RetryDelivered == Delivered /\ Conserved' /\ Retry => Delivered'
<1> SUFFICES ASSUME Delivered, Conserved', Retry PROVE Delivered'
  OBVIOUS
<1>1. /\ Post(current, attempt + 1) /\ attempt < MaxAttempts /\ phase = "backoff"
      /\ UNCHANGED <<ctx, current, replies, applied, acked, dropped, lost>>
  BY DEF Retry, source, outcome
<1>2. TypeOK /\ Requests /\ current \in SUBSET Events
  BY DEF Delivered, Conserved, TypeOK
<1>3. current \cap Settled = {}
  BY DEF Delivered, Conserved, NoEventTwice, Settled
<1>4. /\ attempt' = attempt + 1
      /\ phase' \notin Idle
      /\ IsFiniteSet(wire')
      /\ \A r \in wire' : r \in wire \/ r.evs = current
      /\ \A e \in Events \ current : posted'[e] = posted[e]
      /\ \A e \in current : \/ posted'[e] = posted[e] + 1
                            \/ (ctx # "running" /\ posted'[e] = posted[e])
  BY <1>1, <1>2, PostEffect
<1>5. current # {}
  BY <1>1 DEF Delivered, Requests, Idle
<1>6. Requests'
  BY <1>1, <1>4, <1>5 DEF Delivered, Requests, Settled
<1>7. Posts'
  <2>1. \A e \in Events : posted[e] \in Nat
    BY <1>2 DEF TypeOK
  <2>2. attempt \in Nat /\ MaxAttempts \in Nat
    BY <1>2, BoundsAssumption DEF TypeOK, BoundsAssumption
  <2>3. \A e \in current : e \in Events /\ posted[e] <= attempt
    BY <1>2 DEF Delivered, Posts
  <2>4. \A e \in Events : posted'[e] <= MaxAttempts
    BY <1>1, <1>4, <2>1, <2>2, <2>3 DEF Delivered, Posts
  <2>5. \A e \in current' : posted'[e] <= attempt' /\ (ctx' = "running" => posted'[e] = attempt')
    BY <1>1, <1>4, <2>1, <2>2, <2>3 DEF Delivered, Posts
  <2>6. \A e \in Events \ (current' \cup Settled') : posted'[e] = 0
    BY <1>1, <1>4 DEF Delivered, Posts, Settled
  <2> QED
    BY <2>4, <2>5, <2>6 DEF Posts
<1>8. Counts'
  BY <1>1, <1>2, PostKeepsCounts DEF Delivered
<1>9. Answers' /\ AckedIsCounted'
  BY <1>1, <1>4 DEF Delivered, Answers, AckedIsCounted
<1>10. DroppedAfterAllAttempts'
  <2>1. \A e \in dropped : e \in Events \ current
    BY <1>3 DEF Settled, Delivered, Conserved, TypeOK
  <2> QED
    BY <1>1, <1>4, <2>1 DEF Delivered, DroppedAfterAllAttempts
<1> QED
  BY <1>6, <1>7, <1>8, <1>9, <1>10 DEF Delivered

\* An accepted or given-up flow becomes final (main.go:309-320).
LEMMA SettleDelivered == Delivered /\ Conserved' /\ (PostSucceeds \/ GiveUp) => Delivered'
<1> SUFFICES ASSUME Delivered, Conserved', PostSucceeds \/ GiveUp PROVE Delivered'
  OBVIOUS
<1>1. /\ current' = {} /\ replies' = {} /\ phase' = "next"
      /\ UNCHANGED <<ctx, wire, posted, applied, lost>>
  BY DEF PostSucceeds, GiveUp, source
<1>2. Settled' = Settled \cup current
  BY <1>1 DEF PostSucceeds, GiveUp, Settled
<1>3. Requests'
  BY <1>1, <1>2 DEF Delivered, Requests, Idle
<1>4. Posts'
  BY <1>1, <1>2 DEF Delivered, Posts
<1>5. Counts' /\ Answers'
  BY <1>1 DEF Delivered, Counts, Answers, InFlight
<1>6. AckedIsCounted'
  <2>1. CASE PostSucceeds
    BY <1>1, <2>1 DEF PostSucceeds, Delivered, Answers, AckedIsCounted
  <2>2. CASE GiveUp
    BY <1>1, <2>2 DEF GiveUp, Delivered, AckedIsCounted
  <2> QED
    BY <2>1, <2>2
<1>7. DroppedAfterAllAttempts'
  <2>1. CASE PostSucceeds
    BY <1>1, <2>1 DEF PostSucceeds, Delivered, DroppedAfterAllAttempts
  <2>2. CASE GiveUp
    BY <1>1, <2>2 DEF GiveUp, Delivered, Posts, DroppedAfterAllAttempts
  <2> QED
    BY <2>1, <2>2
<1> QED
  BY <1>3, <1>4, <1>5, <1>6, <1>7 DEF Delivered

\* The backend counts a request, or it is lost (handlers.go:100-112).
LEMMA NetworkDelivered ==
  ASSUME Delivered, Conserved', NEW r \in wire, Apply(r) \/ Discard(r)
  PROVE  Delivered'
<1>1. /\ wire' = wire \ {r}
      /\ UNCHANGED <<ctx, phase, current, attempt, posted, acked, dropped, lost>>
  BY DEF Apply, Discard, source, sender, outcome
<1>2. \/ applied' = applied
      \/ applied' = [e \in Events |-> IF e \in r.evs THEN applied[e] + 1 ELSE applied[e]]
  BY DEF Apply, Discard
<1>3. TypeOK /\ r.evs \subseteq Events /\ r.evs # {}
  BY DEF Delivered, Conserved, TypeOK, Request, Requests
<1>4. \A e \in Events : applied[e] \in Nat /\ applied'[e] \in Nat /\ applied'[e] >= applied[e]
  <2>1. \A e \in Events : applied[e] \in Nat
    BY <1>3 DEF TypeOK
  <2> QED
    BY <1>2, <2>1
<1>5. Requests'
  BY <1>1, FS_RemoveElement DEF Delivered, Requests, Settled
<1>6. Posts' /\ DroppedAfterAllAttempts'
  BY <1>1 DEF Delivered, Posts, DroppedAfterAllAttempts, Settled
<1>7. Counts'
  BY <1>1, <1>2, <1>3, LeavingKeepsCounts DEF Delivered
<1>8. Answers'
  <2>1. CASE replies' = replies
    BY <1>1, <1>3, <1>4, <2>1 DEF Delivered, Answers, TypeOK
  <2>2. CASE replies' # replies
    <3>1. Apply(r) /\ r.evs = current
      BY <2>2 DEF Apply, Discard
    <3>2. \A e \in current : applied'[e] >= 1
      BY <1>3, <1>4, <3>1 DEF Apply
    <3>3. phase \notin Idle
      BY <1>3, <3>1 DEF Delivered, Conserved, SenderPhases, Idle
    <3> QED
      BY <1>1, <3>2, <3>3 DEF Answers
  <2> QED
    BY <2>1, <2>2
<1>9. AckedIsCounted'
  BY <1>1, <1>3, <1>4 DEF Delivered, AckedIsCounted, TypeOK
<1> QED
  BY <1>5, <1>6, <1>7, <1>8, <1>9 DEF Delivered

\* Every step keeps the invariant.
LEMMA NextDelivered == Delivered /\ [Next]_vars => Delivered'
<1> SUFFICES ASSUME Delivered, [Next]_vars PROVE Delivered'
  OBVIOUS
<1>1. Conserved'
  BY NextConserved DEF Delivered
<1> QED
  BY <1>1, StepKinds, QuietDelivered, ExitDelivered, NextStateDelivered, RetryDelivered,
     SettleDelivered, NetworkDelivered

\* The invariant holds in every reachable state.
LEMMA AlwaysDelivered == Spec => []Delivered
  BY InitDelivered, NextDelivered, PTL DEF Spec

-----------------------------------------------------------------------------
(* Theorems.                                                               *)

\* However late a handler runs, the backend counts an event at most once per POST
\* and at most MaxAttempts times (main.go:306-321, backend.go:73-101).
THEOREM Overcount == Spec => []OvercountBounded
<1>1. Delivered => OvercountBounded
  BY DEF Delivered, Counts, Posts, OvercountBounded
<1> QED
  BY <1>1, AlwaysDelivered, PTL

\* What sendFlow regards as delivered was counted (main.go:309-310), and a running
\* agent gives up only what it has posted MaxAttempts times (main.go:308-320).
THEOREM OutcomesAreHonest == Spec => [](AckedIsCounted /\ DroppedAfterAllAttempts)
<1>1. Delivered => AckedIsCounted /\ DroppedAfterAllAttempts
  BY DEF Delivered
<1> QED
  BY <1>1, AlwaysDelivered, PTL

\* No step takes an event out of acked, dropped or lost, or posts it again once it
\* is there (main.go:119-164, 306-321).
THEOREM SettledForGood == Spec => SettledIsFinal
<1> DEFINE Final == /\ acked \subseteq acked' /\ dropped \subseteq dropped' /\ lost \subseteq lost'
                    /\ \A e \in acked \cup dropped \cup lost : posted'[e] = posted[e]
<1>1. ASSUME Delivered, [Next]_vars PROVE Final
  <2>1. TypeOK /\ Requests /\ acked \cup dropped \cup lost \subseteq Events
    BY <1>1 DEF Delivered, Conserved, TypeOK
  <2>2. CASE Quiet
    BY <2>2 DEF Quiet
  <2>3. CASE Exit \/ PostSucceeds \/ GiveUp
    BY <2>3 DEF Exit, PostSucceeds, GiveUp
  <2>4. CASE NextState
    <3>1. PICK k \in Keys : Post(batch[k], 1)
      BY <2>4 DEF NextState
    <3>2. /\ batch[k] \in SUBSET Events
          /\ batch[k] \cap (acked \cup dropped \cup lost) = {}
      BY <1>1 DEF Delivered, Conserved, NoEventTwice, EventsOf, TypeOK, Flows
    <3>3. \A e \in Events \ batch[k] : posted'[e] = posted[e]
      BY <2>1, <3>1, <3>2, PostEffect
    <3>4. UNCHANGED <<acked, dropped, lost>>
      BY <2>4 DEF NextState, outcome
    <3> QED
      BY <2>1, <3>2, <3>3, <3>4
  <2>5. CASE Retry
    <3>1. Post(current, attempt + 1) /\ UNCHANGED <<acked, dropped, lost>>
      BY <2>5 DEF Retry, outcome
    <3>2. current \in SUBSET Events /\ current \cap (acked \cup dropped \cup lost) = {}
      BY <1>1 DEF Delivered, Conserved, NoEventTwice, TypeOK
    <3>3. \A e \in Events \ current : posted'[e] = posted[e]
      BY <2>1, <3>1, <3>2, PostEffect
    <3> QED
      BY <2>1, <3>1, <3>2, <3>3
  <2>6. ASSUME NEW r \in wire, Apply(r) \/ Discard(r) PROVE Final
    BY <2>6 DEF Apply, Discard, outcome
  <2> QED
    BY <1>1, <2>2, <2>3, <2>4, <2>5, <2>6, StepKinds
<1> HIDE DEF Final
<1>2. Spec => [][Final]_vars
  <2>1. Delivered /\ [Next]_vars => [Final]_vars
    BY <1>1
  <2> QED
    BY <2>1, AlwaysDelivered, PTL DEF Spec
<1> QED
  BY <1>2 DEF Final, SettledIsFinal

-----------------------------------------------------------------------------
(* Refinement.                                                             *)

\* A step that changes none of the abstract variables.
LEMMA UnobservedStep ==
  ASSUME UNCHANGED <<admitted, applied, acked, dropped, lost>>
  PROVE  UNCHANGED Delivery!vars
  BY DEF Delivery!vars

\* Every step of the pipeline is a step of FlowDelivery, or leaves it alone.
LEMMA StepRefines == Delivered /\ [Next]_vars => [Delivery!Next]_(Delivery!vars)
<1> SUFFICES ASSUME Delivered, [Next]_vars PROVE [Delivery!Next]_(Delivery!vars)
  OBVIOUS
<1>0. TypeOK /\ NoEventTwice /\ Accounted /\ Requests
  BY DEF Delivered, Conserved
<1>1. ASSUME NEW e \in Events, CollectEvent(e) PROVE [Delivery!Next]_(Delivery!vars)
  <2>1. e \notin admitted
    BY <1>0, <1>1 DEF CollectEvent, Accounted
  <2>2. UNCHANGED <<applied, acked, dropped, lost>>
    BY <1>1 DEF CollectEvent, backend, outcome
  <2>3. CASE admitted' = admitted \cup {e}
    <3>1. Delivery!Admit(e)
      BY <2>1, <2>2, <2>3 DEF Delivery!Admit
    <3> QED
      BY <3>1 DEF Delivery!Next
  <2>4. CASE admitted' = admitted
    BY <2>2, <2>4, UnobservedStep
  <2> QED
    BY <1>1, <2>3, <2>4 DEF CollectEvent
<1>2. CASE Exit
  <2>1. /\ Held \in SUBSET Events
        /\ lost' = lost \cup Held /\ UNCHANGED <<admitted, applied, acked, dropped>>
    BY <1>0, <1>2 DEF Exit, Held, Queued, EventsOf, TypeOK, Flows
  <2>2. Held \subseteq admitted \ (acked \cup (dropped \cup lost))
    BY <1>0 DEF Accounted, NoEventTwice, Held
  <2>3. Delivery!Abandon(Held)
    BY <2>1, <2>2 DEF Delivery!Abandon, Delivery!Open
  <2> QED
    BY <2>1, <2>3 DEF Delivery!Next
<1>3. CASE GiveUp
  <2>1. /\ current \in SUBSET Events
        /\ dropped' = dropped \cup current /\ UNCHANGED <<admitted, applied, acked, lost>>
    BY <1>0, <1>3 DEF GiveUp, TypeOK
  <2>2. current \subseteq admitted \ (acked \cup (dropped \cup lost))
    BY <1>0 DEF Accounted, NoEventTwice, Held
  <2>3. Delivery!Abandon(current)
    BY <2>1, <2>2 DEF Delivery!Abandon, Delivery!Open
  <2> QED
    BY <2>1, <2>3 DEF Delivery!Next
<1>4. CASE PostSucceeds
  <2>1. /\ current \in SUBSET Events
        /\ acked' = acked \cup current /\ UNCHANGED <<admitted, applied, dropped, lost>>
    BY <1>0, <1>4 DEF PostSucceeds, TypeOK
  <2>2. current \subseteq admitted \ (acked \cup (dropped \cup lost))
    BY <1>0 DEF Accounted, NoEventTwice, Held
  <2>3. \A e \in current : applied[e] > 0
    <3>1. \A e \in current : applied[e] \in Nat /\ applied[e] >= 1
      BY <1>0, <1>4, <2>1 DEF PostSucceeds, Delivered, Answers, TypeOK
    <3> QED
      BY <3>1
  <2>4. Delivery!Confirm(current)
    BY <2>1, <2>2, <2>3 DEF Delivery!Confirm, Delivery!Open
  <2> QED
    BY <2>1, <2>4 DEF Delivery!Next
<1>5. ASSUME NEW r \in wire, Apply(r) PROVE [Delivery!Next]_(Delivery!vars)
  <2>1. /\ r.evs \in SUBSET Events
        /\ applied' = [e \in Events |-> IF e \in r.evs THEN applied[e] + 1 ELSE applied[e]]
        /\ UNCHANGED <<admitted, acked, dropped, lost>>
    BY <1>0, <1>5 DEF Apply, TypeOK, Request, outcome
  <2>2. r.evs \subseteq admitted
    BY <1>0 DEF Requests, Accounted, Held, Settled
  <2>3. \A e \in r.evs : applied[e] < MaxAttempts
    <3> SUFFICES ASSUME NEW e \in r.evs PROVE applied[e] < MaxAttempts
      OBVIOUS
    <3>1. IsFiniteSet(InFlight(e)) /\ Cardinality(InFlight(e)) \in Nat
      BY <1>0, InFlightFinite
    <3>2. Cardinality(InFlight(e)) # 0
      BY <3>1, FS_EmptySet DEF InFlight
    <3>3. /\ applied[e] + Cardinality(InFlight(e)) <= posted[e]
          /\ posted[e] <= MaxAttempts /\ applied[e] \in Nat /\ posted[e] \in Nat
      BY <1>0, <2>1 DEF Delivered, Counts, Posts, TypeOK
    <3>4. MaxAttempts \in Nat
      BY BoundsAssumption DEF BoundsAssumption
    <3> QED
      BY <3>1, <3>2, <3>3, <3>4
  <2>4. Delivery!Count(r.evs)
    BY <2>1, <2>2, <2>3 DEF Delivery!Count
  <2> QED
    BY <2>1, <2>4 DEF Delivery!Next
<1>6. ASSUME NEW r \in wire, Discard(r) PROVE [Delivery!Next]_(Delivery!vars)
  BY <1>6, UnobservedStep DEF Discard, outcome
<1>7. CASE FlowTick \/ Signal \/ ReceiveBatch \/ SenderReturn \/ BatchDone \/ PostFails
  BY <1>7, UnobservedStep
  DEF FlowTick, Signal, ReceiveBatch, SenderReturn, BatchDone, PostFails, backend, outcome
<1>8. CASE NextState \/ Retry
  BY <1>8, UnobservedStep DEF NextState, Retry, outcome
<1>9. ASSUME NEW ch, ChannelClosed(ch) PROVE [Delivery!Next]_(Delivery!vars)
  BY <1>9, UnobservedStep DEF ChannelClosed, backend, outcome
<1>10. CASE UNCHANGED vars
  BY <1>10, UnobservedStep DEF vars, backend, outcome
<1> QED
  BY <1>1, <1>2, <1>3, <1>4, <1>5, <1>6, <1>7, <1>8, <1>9, <1>10
  DEF Next, MainLoop, Sender, Network

\* The delivery path implements FlowDelivery: per event zero to MaxAttempts counts,
\* confirmed only when counted, settled once (main.go:97-164, 306-321).
THEOREM Refinement == Spec => ImplementsDelivery
<1>1. Init => Delivery!Init
  BY DEF Init, Delivery!Init
<1> QED
  BY <1>1, StepRefines, AlwaysDelivered, PTL DEF Spec, ImplementsDelivery, Delivery!Spec
=============================================================================
