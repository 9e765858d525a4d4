----------------------------- MODULE FlowState -----------------------------
(***************************************************************************)
(* The counters of one flow: State.Apply and State.Merge of                *)
(* src/agent/internal/flow/store.go and the reducers they call (bytes,     *)
(* packets, connection, rtt, retrans and http under                        *)
(* src/agent/internal/features).                                           *)
(*                                                                         *)
(* A window is built from events; it may be cut in two and merged again.   *)
(* The machine keeps the whole window (whole) beside the two parts, and    *)
(* the log of events for the reference definitions.  A mean is a float64   *)
(* in the code; here it is Scale times the mean, which is exact as long as *)
(* every number of samples up to MaxEvents divides Scale.  Counters cannot *)
(* overflow their 64 bits within a window.                                 *)
(***************************************************************************)
EXTENDS Integers, Sequences, FiniteSetsExt, SequencesExt

CONSTANTS
  MetricEvents,  \* pipeline.FlowMetric records that can meet in one window
  Protocols,     \* protocols to check
  Directions,    \* directions to check
  MaxEvents,     \* bound: events of a window
  Scale          \* a common multiple of 1..MaxEvents

ASSUME ScaleAssumption ==
  /\ MaxEvents \in Nat /\ Scale \in Nat
  /\ \A n \in 1..MaxEvents : Scale % n = 0

ASSUME MetricsAssumption == \A e \in MetricEvents :
  /\ {e.SrcPort, e.Bytes, e.Packets, e.Connections, e.Requests, e.Errors, e.Retransmissions,
      e.RTT, e.AppDelay, e.HTTPStatus} \subseteq Int
  /\ {e.FirstSeen, e.LastSeen} \subseteq Nat

VARIABLES
  protocol, direction,  \* part of the flow key, the same for all events
  log,                  \* the events, in the order they were applied
  cut,                  \* the first cut events went into first, the others into second
  whole, first, second

vars == <<protocol, direction, log, cut, whole, first, second>>

-----------------------------------------------------------------------------
(* Reducers.  The zero value of a time is 0.                               *)

NoRTT == [current |-> 0, min |-> 0, max |-> 0, avg |-> 0, samples |-> 0]

Empty ==
  [SrcPort |-> 0, Sent |-> 0, Received |-> 0, Packets |-> 0,
   OpenCount |-> 0, ErrorCount |-> 0, RequestHint |-> 0, Retrans |-> 0,
   RTT |-> NoRTT, Delay |-> [avg |-> 0, samples |-> 0],
   HTTP |-> [class |-> [c \in 1..5 |-> 0], last |-> 0],
   FirstSeen |-> 0, LastSeen |-> 0]

nonNegative(n) == IF n < 0 THEN 0 ELSE n

InferRequestCount(bytes, connections, errors) ==
  IF errors > 0 THEN 0
  ELSE IF connections > 0 THEN connections
  ELSE IF bytes > 0 /\ protocol \in {"udp", "icmp"} /\ direction \in {"ingress", "egress"} THEN 1
  ELSE 0

\* connection.Apply: the count of the event, or else what can be inferred from it.
RequestsOf(e) ==
  IF nonNegative(e.Requests) > 0 THEN e.Requests
  ELSE InferRequestCount(e.Bytes, nonNegative(e.Connections), nonNegative(e.Errors))

\* Faulty mean: divided by the number of samples before this one.
NewMean_OldCount(avg, samples, value) ==
  avg + (Scale * value - avg) \div (IF samples = 1 THEN 1 ELSE samples - 1)

\* avg += (value - avg) / samples, with the new number of samples
NewMean(avg, samples, value) == avg + (Scale * value - avg) \div samples

ApplyRTT(m, value) ==
  IF value <= 0 THEN m
  ELSE [current |-> value,
        min |-> IF m.samples = 0 \/ value < m.min THEN value ELSE m.min,
        max |-> IF value > m.max THEN value ELSE m.max,
        samples |-> m.samples + 1,
        avg |-> NewMean(m.avg, m.samples + 1, value)]

applyAppDelay(m, value) ==
  IF value <= 0 THEN m
  ELSE [samples |-> m.samples + 1, avg |-> NewMean(m.avg, m.samples + 1, value)]

ApplyStatus(h, status) ==
  IF status < 100 \/ status > 599 THEN h
  ELSE [class |-> [h.class EXCEPT ![status \div 100] = @ + 1], last |-> status]

Earliest(a, b) == IF a = 0 \/ (b # 0 /\ b < a) THEN b ELSE a

Latest(a, b) == IF b > a THEN b ELSE a

Apply(s, e) ==
  [SrcPort |-> IF s.SrcPort = 0 /\ e.SrcPort > 0 THEN e.SrcPort ELSE s.SrcPort,
   Sent |-> s.Sent + IF direction = "ingress" THEN 0 ELSE nonNegative(e.Bytes),
   Received |-> s.Received + IF direction = "ingress" THEN nonNegative(e.Bytes) ELSE 0,
   Packets |-> s.Packets + nonNegative(e.Packets),
   OpenCount |-> s.OpenCount + nonNegative(e.Connections),
   ErrorCount |-> s.ErrorCount + nonNegative(e.Errors),
   RequestHint |-> s.RequestHint + RequestsOf(e),
   Retrans |-> s.Retrans + nonNegative(e.Retransmissions),
   RTT |-> ApplyRTT(s.RTT, e.RTT),
   Delay |-> applyAppDelay(s.Delay, e.AppDelay),
   HTTP |-> ApplyStatus(s.HTTP, e.HTTPStatus),
   FirstSeen |-> Earliest(s.FirstSeen, e.FirstSeen),
   LastSeen |-> Latest(s.LastSeen, e.LastSeen)]

-----------------------------------------------------------------------------
(* Merging.                                                                *)

MergeMean(m, n) == (m.avg * m.samples + n.avg * n.samples) \div (m.samples + n.samples)

\* Faulty merge: the minimum of the first part is kept.
mergeRTT_KeepsMin(m, n) ==
  IF n.samples = 0 THEN m
  ELSE IF m.samples = 0 THEN n
  ELSE [current |-> n.current, min |-> m.min, max |-> Latest(m.max, n.max),
        samples |-> m.samples + n.samples, avg |-> MergeMean(m, n)]

mergeRTT(m, n) ==
  IF n.samples = 0 THEN m
  ELSE IF m.samples = 0 THEN n
  ELSE [current |-> n.current,
        min |-> IF m.min = 0 \/ (n.min > 0 /\ n.min < m.min) THEN n.min ELSE m.min,
        max |-> IF n.max > m.max THEN n.max ELSE m.max,
        samples |-> m.samples + n.samples,
        avg |-> MergeMean(m, n)]

mergeAppDelay(m, n) ==
  IF n.samples = 0 THEN m
  ELSE [samples |-> m.samples + n.samples, avg |-> MergeMean(m, n)]

MergeStatus(h, n) ==
  [class |-> [c \in 1..5 |-> h.class[c] + n.class[c]],
   last |-> IF n.last # 0 THEN n.last ELSE h.last]

Merge(s, n) ==
  [SrcPort |-> IF s.SrcPort = 0 /\ n.SrcPort > 0 THEN n.SrcPort ELSE s.SrcPort,
   Sent |-> s.Sent + n.Sent,
   Received |-> s.Received + n.Received,
   Packets |-> s.Packets + n.Packets,
   OpenCount |-> s.OpenCount + n.OpenCount,
   ErrorCount |-> s.ErrorCount + n.ErrorCount,
   RequestHint |-> s.RequestHint + n.RequestHint,
   Retrans |-> s.Retrans + n.Retrans,
   RTT |-> mergeRTT(s.RTT, n.RTT),
   Delay |-> mergeAppDelay(s.Delay, n.Delay),
   HTTP |-> MergeStatus(s.HTTP, n.HTTP),
   FirstSeen |-> Earliest(s.FirstSeen, n.FirstSeen),
   LastSeen |-> Latest(s.LastSeen, n.LastSeen)]

-----------------------------------------------------------------------------
Init ==
  /\ protocol \in Protocols
  /\ direction \in Directions
  /\ log = <<>>
  /\ cut = 0
  /\ whole = Empty
  /\ first = Empty
  /\ second = Empty

\* The window is still the first part.
AddFirst(e) ==
  /\ cut = Len(log) /\ Len(log) < MaxEvents
  /\ log' = Append(log, e)
  /\ cut' = cut + 1
  /\ whole' = Apply(whole, e)
  /\ first' = Apply(first, e)
  /\ UNCHANGED <<protocol, direction, second>>

\* The first part has been set aside; events go to the second.
AddSecond(e) ==
  /\ Len(log) < MaxEvents
  /\ log' = Append(log, e)
  /\ whole' = Apply(whole, e)
  /\ second' = Apply(second, e)
  /\ UNCHANGED <<protocol, direction, cut, first>>

Next == \E e \in MetricEvents : AddFirst(e) \/ AddSecond(e)

Spec == Init /\ [][Next]_vars

-----------------------------------------------------------------------------
(* Properties.                                                             *)

\* The sum of the samples, one event at a time.
PlusRTT(sum, e) == sum + nonNegative(e.RTT)

\* Cutting a window anywhere and merging the parts gives the window: retaining a
\* batch and merging it with later traffic changes no number the agent reports
\* (store.go:32-47, 93-160; status.go:46-58).
MergeIsConcatenation == Merge(first, second) = whole

\* The incremental RTT statistics are those of the samples in the log: mean, extremes
\* and last value, with non-positive samples ignored (rtt/reducer.go:3-16).
RTTIsReference ==
  LET sampled == {i \in DOMAIN log : log[i].RTT > 0}
      values  == {log[i].RTT : i \in sampled}
  IN
  IF sampled = {} THEN whole.RTT = NoRTT
  ELSE /\ whole.RTT.samples = Cardinality(sampled)
       /\ whole.RTT.avg * Cardinality(sampled) = Scale * FoldLeft(PlusRTT, 0, log)
       /\ whole.RTT.min = Min(values)
       /\ whole.RTT.max = Max(values)
       /\ whole.RTT.current = log[Max(sampled)].RTT
=============================================================================
