-------------------------- MODULE FlowStateProofs --------------------------
(***************************************************************************)
(* Proofs about FlowState, for any events, any length of a window and any  *)
(* place where it is cut.                                                  *)
(*                                                                         *)
(* The first part shows that an event may be applied before or after a     *)
(* merge, which lets FlowPipeline represent a flow.State by the set of its *)
(* events.  The second follows the RTT statistics event by event.          *)
(***************************************************************************)
EXTENDS FlowState, TLAPS, FiniteSetTheorems, SequenceTheorems, WellFoundedInduction

-----------------------------------------------------------------------------
(* The counters of a flow.State: means.                                    *)

\* m is the mean of samples that add up to total.
Mean(m, total) ==
  /\ m.avg \in Int /\ m.samples \in Nat /\ total \in Int
  /\ m.avg * m.samples = Scale * total
  /\ m.samples = 0 => m.avg = 0 /\ total = 0

\* The quotient of a multiple.
LEMMA ExactDivision ==
  ASSUME NEW n \in Nat \ {0}, NEW q \in Int
  PROVE  (n * q) \div n = q
OBVIOUS

\* Every number of samples divides Scale.
LEMMA ScaleDivided ==
  ASSUME NEW n \in 1..MaxEvents
  PROVE  \E k \in Int : Scale = n * k
<1>1. Scale \in Int /\ n \in Nat \ {0} /\ Scale % n = 0
  BY ScaleAssumption
<1> QED
  BY <1>1

\* Two means of as many samples with the same total are the same number.
LEMMA SameMean ==
  ASSUME NEW m, NEW n, NEW total, Mean(m, total), Mean(n, total), m.samples = n.samples
  PROVE  m.avg = n.avg
<1>1. ASSUME NEW a \in Int, NEW b \in Int, NEW k \in Nat \ {0}, a * k = b * k PROVE a = b
  BY <1>1
<1>2. CASE m.samples = 0
  BY <1>2 DEF Mean
<1>3. CASE m.samples # 0
  BY <1>1, <1>3 DEF Mean
<1> QED
  BY <1>2, <1>3

\* avg += (value - avg) / samples is the mean with one sample more.
LEMMA NewMeanExact ==
  ASSUME NEW m, NEW total, Mean(m, total), m.samples < MaxEvents, NEW value \in Int,
         NEW r, r.samples = m.samples + 1, r.avg = NewMean(m.avg, m.samples + 1, value)
  PROVE  Mean(r, total + value)
<1> DEFINE n == m.samples
           avg == m.avg
<1>1. /\ n \in Nat /\ avg \in Int /\ total \in Int /\ n + 1 \in 1..MaxEvents /\ Scale \in Int
      /\ avg * n = Scale * total /\ (n = 0 => avg = 0 /\ total = 0)
  BY ScaleAssumption DEF Mean
<1>2. PICK b \in Int : Scale = (n + 1) * b
  BY <1>1, ScaleDivided, Zenon
<1>3. \E d \in Int : avg = (n + 1) * (d * total) /\ b * total = n * (d * total)
  <2>1. CASE n = 0
    BY <1>1, <2>1
  <2>2. CASE n # 0
    <3>1. n \in 1..MaxEvents
      BY <1>1, <2>2, ScaleAssumption
    <3>2. PICK a \in Int : Scale = n * a
      BY <3>1, ScaleDivided, Zenon
    <3> HIDE DEF n, avg
    <3> DEFINE d == a - b
    <3>3. b = n * d /\ a = (n + 1) * d
      BY <1>1, <1>2, <3>2
    <3>4. n * avg = n * (a * total)
      BY <1>1, <3>2
    <3>5. avg = a * total
      BY <1>1, <2>2, <3>4
    <3>6. avg = (n + 1) * (d * total) /\ b * total = n * (d * total)
      BY <1>1, <3>3, <3>5
    <3> QED
      BY <3>6
  <2> QED
    BY <2>1, <2>2
<1>4. PICK d \in Int : avg = (n + 1) * (d * total) /\ b * total = n * (d * total)
  BY <1>3
<1>5. r.avg = avg + (Scale * value - avg) \div (n + 1) /\ r.samples = n + 1
  BY DEF NewMean
<1> HIDE DEF n, avg
<1>6. Scale * value - avg = (n + 1) * (b * value - d * total)
  BY <1>1, <1>2, <1>4
<1>7. (Scale * value - avg) \div (n + 1) = b * value - d * total
  BY <1>1, <1>6, ExactDivision
<1>8. r.avg = b * total + b * value
  BY <1>1, <1>4, <1>5, <1>7
<1>9. r.avg * (n + 1) = Scale * (total + value)
  BY <1>1, <1>2, <1>8
<1> QED
  BY <1>1, <1>5, <1>8, <1>9 DEF Mean

\* The weighted mean of two means is the mean of all their samples.
LEMMA MergeMeanExact ==
  ASSUME NEW m, NEW n, NEW t, NEW u, Mean(m, t), Mean(n, u), m.samples + n.samples \in 1..MaxEvents,
         NEW r, r.samples = m.samples + n.samples, r.avg = MergeMean(m, n)
  PROVE  Mean(r, t + u)
<1> DEFINE k == m.samples + n.samples
<1>1. k \in Nat \ {0} /\ t \in Int /\ u \in Int /\ Scale \in Int
  BY ScaleAssumption DEF Mean
<1>2. PICK b \in Int : Scale = k * b
  BY ScaleDivided, Zenon
<1>3. m.avg * m.samples + n.avg * n.samples = Scale * t + Scale * u
  BY DEF Mean
<1>4. r.avg = (Scale * t + Scale * u) \div k /\ r.samples = k
  BY <1>3 DEF MergeMean
<1> HIDE DEF k
<1>5. Scale * t + Scale * u = k * (b * (t + u))
  BY <1>1, <1>2
<1>6. r.avg = b * (t + u)
  BY <1>1, <1>4, <1>5, ExactDivision
<1>7. r.avg * k = Scale * (t + u)
  BY <1>1, <1>2, <1>6
<1> QED
  BY <1>1, <1>4, <1>6, <1>7 DEF Mean
-----------------------------------------------------------------------------
(* The counters of a flow.State: what Apply and Merge keep.                *)

DelayOK(m) ==
  /\ m = [avg |-> m.avg, samples |-> m.samples]
  /\ \E total : Mean(m, total)

RTTOK(m) ==
  /\ m = [current |-> m.current, min |-> m.min, max |-> m.max, avg |-> m.avg, samples |-> m.samples]
  /\ \E total : Mean(m, total)
  /\ m.current \in Nat /\ m.min \in Nat /\ m.max \in Nat
  /\ m.samples = 0 => m = NoRTT
  /\ m.samples # 0 => m.min > 0

HTTPOK(h) ==
  /\ h = [class |-> h.class, last |-> h.last]
  /\ h.class \in [1..5 -> Int] /\ h.last \in Nat

StateOK(s) ==
  /\ s = [SrcPort |-> s.SrcPort, Sent |-> s.Sent, Received |-> s.Received, Packets |-> s.Packets,
          OpenCount |-> s.OpenCount, ErrorCount |-> s.ErrorCount, RequestHint |-> s.RequestHint,
          Retrans |-> s.Retrans, RTT |-> s.RTT, Delay |-> s.Delay, HTTP |-> s.HTTP,
          FirstSeen |-> s.FirstSeen, LastSeen |-> s.LastSeen]
  /\ s.SrcPort \in Nat /\ s.FirstSeen \in Nat /\ s.LastSeen \in Nat
  /\ s.Sent \in Int /\ s.Received \in Int /\ s.Packets \in Int
  /\ s.OpenCount \in Int /\ s.ErrorCount \in Int /\ s.RequestHint \in Int /\ s.Retrans \in Int
  /\ RTTOK(s.RTT) /\ DelayOK(s.Delay) /\ HTTPOK(s.HTTP)

\* One more delay sample.
LEMMA DelayApplied ==
  ASSUME NEW m, DelayOK(m), m.samples < MaxEvents, NEW value \in Int
  PROVE  LET new == applyAppDelay(m, value)
         IN  /\ DelayOK(new)
             /\ new.samples = IF value <= 0 THEN m.samples ELSE m.samples + 1
             /\ \A total : value > 0 /\ Mean(m, total) => Mean(new, total + value)
<1> DEFINE new == applyAppDelay(m, value)
<1>1. CASE value <= 0
  BY <1>1 DEF applyAppDelay
<1>2. CASE ~(value <= 0)
  <2>1. new = [samples |-> m.samples + 1, avg |-> NewMean(m.avg, m.samples + 1, value)]
    BY <1>2 DEF applyAppDelay
  <2> HIDE DEF new
  <2>2. new.samples = m.samples + 1 /\ new.avg = NewMean(m.avg, m.samples + 1, value)
        /\ new = [avg |-> new.avg, samples |-> new.samples]
    BY <2>1
  <2>3. \A total : Mean(m, total) => Mean(new, total + value)
    BY <2>2, NewMeanExact
  <2>4. DelayOK(new)
    BY <2>2, <2>3, Zenon DEF DelayOK
  <2> QED
    BY <1>2, <2>2, <2>3, <2>4 DEF new
<1> QED
  BY <1>1, <1>2

\* Two sets of delay samples in one.
LEMMA DelayMerged ==
  ASSUME NEW m, NEW n, DelayOK(m), DelayOK(n), m.samples + n.samples <= MaxEvents
  PROVE  LET new == mergeAppDelay(m, n)
         IN  /\ DelayOK(new)
             /\ new.samples = m.samples + n.samples
             /\ \A t, u : Mean(m, t) /\ Mean(n, u) => Mean(new, t + u)
<1> DEFINE new == mergeAppDelay(m, n)
<1>1. PICK t0, u0 : Mean(m, t0) /\ Mean(n, u0)
  BY DEF DelayOK
<1>2. m.samples \in Nat /\ n.samples \in Nat
  BY <1>1 DEF Mean
<1>3. CASE n.samples = 0
  <2>1. new = m
    BY <1>3 DEF mergeAppDelay
  <2>2. \A t, u : Mean(m, t) /\ Mean(n, u) => t + u = t
    BY <1>3 DEF Mean
  <2>3. \A t, u : Mean(m, t) /\ Mean(n, u) => Mean(new, t + u)
    BY <2>1, <2>2
  <2>4. new.samples = m.samples + n.samples
    BY <1>2, <1>3, <2>1
  <2> QED
    BY <2>1, <2>3, <2>4
<1>4. CASE n.samples # 0
  <2>1. new = [samples |-> m.samples + n.samples, avg |-> MergeMean(m, n)]
    BY <1>4 DEF mergeAppDelay
  <2> HIDE DEF new
  <2>2. new.samples = m.samples + n.samples /\ new.avg = MergeMean(m, n)
        /\ new = [avg |-> new.avg, samples |-> new.samples]
    BY <2>1
  <2>3. m.samples + n.samples \in 1..MaxEvents
    BY <1>2, <1>4, ScaleAssumption
  <2>4. \A t, u : Mean(m, t) /\ Mean(n, u) => Mean(new, t + u)
    BY <2>2, <2>3, MergeMeanExact
  <2>5. DelayOK(new)
    BY <1>1, <2>2, <2>4, Zenon DEF DelayOK
  <2> QED
    BY <2>2, <2>4, <2>5 DEF new
<1> QED
  BY <1>3, <1>4

\* A sample may be added before or after the merge (delay/reducer.go).
LEMMA DelayMergeApply ==
  ASSUME NEW m, NEW n, DelayOK(m), DelayOK(n), m.samples + n.samples < MaxEvents, NEW value \in Int
  PROVE  mergeAppDelay(m, applyAppDelay(n, value)) = applyAppDelay(mergeAppDelay(m, n), value)
<1>1. PICK t, u : Mean(m, t) /\ Mean(n, u)
  BY DEF DelayOK
<1>2. m.samples \in Nat /\ n.samples \in Nat /\ MaxEvents \in Nat /\ t \in Int /\ u \in Int
  BY <1>1, ScaleAssumption DEF Mean
<1>3. CASE value <= 0
  BY <1>3 DEF applyAppDelay
<1>4. CASE value > 0
  <2> DEFINE n1 == applyAppDelay(n, value)
             p == mergeAppDelay(m, n)
             left == mergeAppDelay(m, n1)
             right == applyAppDelay(p, value)
  <2>1. n.samples < MaxEvents /\ m.samples + n.samples <= MaxEvents
    BY <1>2
  <2>2. DelayOK(n1) /\ n1.samples = n.samples + 1 /\ Mean(n1, u + value)
    BY <1>1, <1>4, <2>1, DelayApplied
  <2>3. DelayOK(p) /\ p.samples = m.samples + n.samples /\ Mean(p, t + u)
    BY <1>1, <2>1, DelayMerged
  <2>4. m.samples + n1.samples <= MaxEvents /\ p.samples < MaxEvents
    BY <1>2, <2>2, <2>3
  <2> HIDE DEF n1, p
  <2>5. DelayOK(left) /\ left.samples = m.samples + n1.samples /\ Mean(left, t + (u + value))
    BY <1>1, <2>2, <2>4, DelayMerged
  <2>6. DelayOK(right) /\ right.samples = p.samples + 1 /\ Mean(right, (t + u) + value)
    BY <1>4, <2>3, <2>4, DelayApplied
  <2> HIDE DEF left, right
  <2>7. t + (u + value) = (t + u) + value /\ left.samples = right.samples
    BY <1>2, <2>2, <2>3, <2>5, <2>6
  <2>8. left.avg = right.avg
    BY <2>5, <2>6, <2>7, SameMean
  <2>9. left = right
    BY <2>5, <2>6, <2>7, <2>8 DEF DelayOK
  <2> QED
    BY <2>9 DEF left, right, n1, p
<1> QED
  BY <1>3, <1>4

\* One more RTT sample.
LEMMA RTTApplied ==
  ASSUME NEW m, RTTOK(m), m.samples < MaxEvents, NEW value \in Int
  PROVE  LET new == ApplyRTT(m, value)
         IN  /\ RTTOK(new)
             /\ new.samples = IF value <= 0 THEN m.samples ELSE m.samples + 1
             /\ \A total : value > 0 /\ Mean(m, total) => Mean(new, total + value)
             /\ value > 0 => /\ new.current = value
                             /\ new.min = IF m.samples = 0 \/ value < m.min THEN value ELSE m.min
                             /\ new.max = IF value > m.max THEN value ELSE m.max
<1> DEFINE new == ApplyRTT(m, value)
<1>1. CASE value <= 0
  BY <1>1 DEF ApplyRTT
<1>2. CASE ~(value <= 0)
  <2>1. new = [current |-> value,
               min |-> IF m.samples = 0 \/ value < m.min THEN value ELSE m.min,
               max |-> IF value > m.max THEN value ELSE m.max,
               samples |-> m.samples + 1,
               avg |-> NewMean(m.avg, m.samples + 1, value)]
    BY <1>2 DEF ApplyRTT
  <2> HIDE DEF new
  <2>2. /\ new = [current |-> new.current, min |-> new.min, max |-> new.max, avg |-> new.avg,
                  samples |-> new.samples]
        /\ new.samples = m.samples + 1 /\ new.avg = NewMean(m.avg, m.samples + 1, value)
        /\ new.current = value
        /\ new.min = IF m.samples = 0 \/ value < m.min THEN value ELSE m.min
        /\ new.max = IF value > m.max THEN value ELSE m.max
    BY <2>1
  <2>3. \A total : Mean(m, total) => Mean(new, total + value)
    BY <2>2, NewMeanExact
  <2>4. \E total : Mean(new, total)
    BY <2>3, Zenon DEF RTTOK
  <2>5. m.samples \in Nat /\ m.min \in Nat /\ m.max \in Nat /\ (m.samples # 0 => m.min > 0)
    BY DEF RTTOK, Mean
  <2>6. /\ new.current \in Nat /\ new.min \in Nat /\ new.max \in Nat
        /\ new.samples # 0 /\ new.min > 0
    BY <1>2, <2>2, <2>5
  <2>7. RTTOK(new)
    BY <2>2, <2>4, <2>6, Zenon DEF RTTOK
  <2> QED
    BY <1>2, <2>2, <2>3, <2>7 DEF new
<1> QED
  BY <1>1, <1>2

\* Two sets of RTT samples in one.
LEMMA RTTMerged ==
  ASSUME NEW m, NEW n, RTTOK(m), RTTOK(n), m.samples + n.samples <= MaxEvents
  PROVE  LET new == mergeRTT(m, n)
         IN  /\ RTTOK(new)
             /\ new.samples = m.samples + n.samples
             /\ \A t, u : Mean(m, t) /\ Mean(n, u) => Mean(new, t + u)
<1> DEFINE new == mergeRTT(m, n)
<1>1. PICK t0, u0 : Mean(m, t0) /\ Mean(n, u0)
  BY DEF RTTOK
<1>2. m.samples \in Nat /\ n.samples \in Nat
  BY <1>1 DEF Mean
<1>3. CASE n.samples = 0
  <2>1. new = m
    BY <1>3 DEF mergeRTT
  <2>2. \A t, u : Mean(m, t) /\ Mean(n, u) => t + u = t
    BY <1>3 DEF Mean
  <2>3. new.samples = m.samples + n.samples
    BY <1>2, <1>3, <2>1
  <2> QED
    BY <2>1, <2>2, <2>3
<1>4. CASE n.samples # 0 /\ m.samples = 0
  <2>1. new = n
    BY <1>4 DEF mergeRTT
  <2>2. \A t, u : Mean(m, t) /\ Mean(n, u) => t + u = u
    BY <1>4 DEF Mean
  <2>3. new.samples = m.samples + n.samples
    BY <1>2, <1>4, <2>1
  <2> QED
    BY <2>1, <2>2, <2>3
<1>5. CASE n.samples # 0 /\ m.samples # 0
  <2>1. new = [current |-> n.current,
               min |-> IF m.min = 0 \/ (n.min > 0 /\ n.min < m.min) THEN n.min ELSE m.min,
               max |-> IF n.max > m.max THEN n.max ELSE m.max,
               samples |-> m.samples + n.samples,
               avg |-> MergeMean(m, n)]
    BY <1>5 DEF mergeRTT
  <2> HIDE DEF new
  <2>2. /\ new = [current |-> new.current, min |-> new.min, max |-> new.max, avg |-> new.avg,
                  samples |-> new.samples]
        /\ new.samples = m.samples + n.samples /\ new.avg = MergeMean(m, n)
        /\ new.current = n.current
        /\ new.min \in {m.min, n.min} /\ new.max \in {m.max, n.max}
    BY <2>1
  <2>3. m.samples + n.samples \in 1..MaxEvents
    BY <1>2, <1>5, ScaleAssumption
  <2>4. \A t, u : Mean(m, t) /\ Mean(n, u) => Mean(new, t + u)
    BY <2>2, <2>3, MergeMeanExact
  <2>5. \E total : Mean(new, total)
    BY <1>1, <2>4
  <2>6. /\ m.min \in Nat /\ m.max \in Nat /\ m.min > 0
        /\ n.current \in Nat /\ n.min \in Nat /\ n.max \in Nat /\ n.min > 0
    BY <1>5 DEF RTTOK
  <2>7. /\ new.current \in Nat /\ new.min \in Nat /\ new.max \in Nat
        /\ new.samples # 0 /\ new.min > 0
    BY <2>2, <2>3, <2>6
  <2>8. RTTOK(new)
    BY <2>2, <2>5, <2>7, Zenon DEF RTTOK
  <2> QED
    BY <2>2, <2>4, <2>8 DEF new
<1> QED
  BY <1>3, <1>4, <1>5

\* A sample may be added before or after the merge (rtt/reducer.go:3-16).
LEMMA RTTMergeApply ==
  ASSUME NEW m, NEW n, RTTOK(m), RTTOK(n), m.samples + n.samples < MaxEvents, NEW value \in Int
  PROVE  mergeRTT(m, ApplyRTT(n, value)) = ApplyRTT(mergeRTT(m, n), value)
<1>1. PICK t, u : Mean(m, t) /\ Mean(n, u)
  BY DEF RTTOK
<1>2. m.samples \in Nat /\ n.samples \in Nat /\ MaxEvents \in Nat /\ t \in Int /\ u \in Int
  BY <1>1, ScaleAssumption DEF Mean
<1>3. CASE value <= 0
  BY <1>3 DEF ApplyRTT
<1>4. ASSUME value > 0
      PROVE  mergeRTT(m, ApplyRTT(n, value)) = ApplyRTT(mergeRTT(m, n), value)
  <2> DEFINE n1 == ApplyRTT(n, value)
             p == mergeRTT(m, n)
             left == mergeRTT(m, n1)
             right == ApplyRTT(p, value)
  <2>1. n.samples < MaxEvents /\ m.samples + n.samples <= MaxEvents /\ ~(value <= 0)
    BY <1>2, <1>4
  <2>2. /\ RTTOK(n1) /\ n1.samples = n.samples + 1 /\ Mean(n1, u + value)
        /\ n1.current = value /\ n1.max = (IF value > n.max THEN value ELSE n.max)
        /\ n1.min = IF n.samples = 0 \/ value < n.min THEN value ELSE n.min
    BY <1>1, <1>4, <2>1, RTTApplied
  <2>3. RTTOK(p) /\ p.samples = m.samples + n.samples /\ Mean(p, t + u)
    BY <1>1, <2>1, RTTMerged
  <2>4. m.samples + n1.samples <= MaxEvents /\ p.samples < MaxEvents /\ n1.samples # 0
    BY <1>2, <2>2, <2>3
  <2>5. CASE m.samples = 0
    <3>1. left = n1
      BY <2>4, <2>5 DEF mergeRTT
    <3>2. p = n
      BY <2>5 DEF mergeRTT, RTTOK
    <3> QED
      BY <3>1, <3>2
  <2>6. CASE m.samples # 0
    <3>1. left = [current |-> n1.current,
                  min |-> IF m.min = 0 \/ (n1.min > 0 /\ n1.min < m.min) THEN n1.min ELSE m.min,
                  max |-> IF n1.max > m.max THEN n1.max ELSE m.max,
                  samples |-> m.samples + n1.samples,
                  avg |-> MergeMean(m, n1)]
      BY <2>4, <2>6 DEF mergeRTT
    <3>2. /\ p.min = IF n.samples # 0 /\ n.min < m.min THEN n.min ELSE m.min
          /\ p.max = IF n.samples # 0 /\ n.max > m.max THEN n.max ELSE m.max
      <4>1. CASE n.samples = 0
        BY <4>1 DEF mergeRTT
      <4>2. CASE n.samples # 0
        BY <2>6, <4>2 DEF mergeRTT, RTTOK
      <4> QED
        BY <4>1, <4>2
    <3> HIDE DEF n1, p
    <3>3. RTTOK(left) /\ left.samples = m.samples + n1.samples /\ Mean(left, t + (u + value))
      BY <1>1, <2>2, <2>4, RTTMerged
    <3>4. /\ RTTOK(right) /\ right.samples = p.samples + 1 /\ Mean(right, (t + u) + value)
          /\ right.current = value /\ right.max = (IF value > p.max THEN value ELSE p.max)
          /\ right.min = IF p.samples = 0 \/ value < p.min THEN value ELSE p.min
      BY <1>4, <2>1, <2>3, <2>4, RTTApplied
    <3> HIDE DEF left, right
    <3>5. t + (u + value) = (t + u) + value /\ left.samples = right.samples
      BY <1>2, <2>2, <2>3, <3>3, <3>4
    <3>6. left.avg = right.avg
      BY <3>3, <3>4, <3>5, SameMean
    <3>7. /\ m.min \in Nat /\ m.min > 0 /\ m.max \in Nat /\ n.min \in Nat /\ n.max \in Nat
          /\ n.samples # 0 => n.min > 0
          /\ n.samples = 0 => n.max = 0
      BY <2>6 DEF RTTOK, NoRTT
    <3>8. left.current = value
      BY <2>2, <3>1
    <3>9. left.min = right.min
      BY <1>2, <1>4, <2>2, <2>3, <2>6, <3>1, <3>2, <3>4, <3>7, SMTT(30)
    <3>10. left.max = right.max
      BY <1>2, <1>4, <2>2, <2>3, <2>6, <3>1, <3>2, <3>4, <3>7, SMTT(30)
    <3>11. left = right
      BY <3>3, <3>4, <3>5, <3>6, <3>8, <3>9, <3>10, Zenon DEF RTTOK
    <3> QED
      BY <3>11 DEF left, right, n1, p
  <2> QED
    BY <2>5, <2>6
<1> QED
  BY <1>3, <1>4

\* The counters of status classes (http/reducer.go).
LEMMA HTTPFacts ==
  ASSUME NEW h, NEW n, HTTPOK(h), HTTPOK(n), NEW status \in Int
  PROVE  /\ HTTPOK(ApplyStatus(h, status))
         /\ HTTPOK(MergeStatus(h, n))
         /\ MergeStatus(h, ApplyStatus(n, status)) = ApplyStatus(MergeStatus(h, n), status)
<1>1. h.class \in [1..5 -> Int] /\ n.class \in [1..5 -> Int] /\ h.last \in Nat /\ n.last \in Nat
  BY DEF HTTPOK
<1>2. HTTPOK(MergeStatus(h, n))
  BY <1>1 DEF MergeStatus, HTTPOK
<1>3. CASE status < 100 \/ status > 599
  BY <1>2, <1>3 DEF ApplyStatus
<1>4. CASE ~(status < 100 \/ status > 599)
  <2> DEFINE c == status \div 100
  <2>1. c \in 1..5 /\ status \in Nat /\ status # 0
    BY <1>4
  <2> HIDE DEF c
  <2>2. ASSUME NEW g
        PROVE  /\ ApplyStatus(g, status) = [class |-> [g.class EXCEPT ![c] = @ + 1], last |-> status]
               /\ ApplyStatus(g, status).class = [g.class EXCEPT ![c] = @ + 1]
               /\ ApplyStatus(g, status).last = status
    BY <1>4 DEF ApplyStatus, c
  <2>3. HTTPOK(ApplyStatus(h, status))
    <3> DEFINE more == [h.class EXCEPT ![c] = @ + 1]
               new == ApplyStatus(h, status)
    <3>1. more \in [1..5 -> Int]
      BY <1>1, <2>1
    <3>2. new = [class |-> more, last |-> status] /\ new.class = more /\ new.last = status
      BY <2>2
    <3> HIDE DEF more, new
    <3>3. HTTPOK(new)
      BY <2>1, <3>1, <3>2 DEF HTTPOK
    <3> QED
      BY <3>3 DEF new
  <2> DEFINE sum == [k \in 1..5 |-> h.class[k] + n.class[k]]
             added == [n.class EXCEPT ![c] = @ + 1]
  <2>4. [k \in 1..5 |-> h.class[k] + added[k]] = [sum EXCEPT ![c] = @ + 1]
    BY <1>1, <2>1
  <2>5. MergeStatus(h, ApplyStatus(n, status))
          = [class |-> [k \in 1..5 |-> h.class[k] + added[k]], last |-> status]
    <3> DEFINE new == ApplyStatus(n, status)
    <3>1. new.class = added /\ new.last = status
      BY <2>2
    <3> HIDE DEF new, added
    <3>2. MergeStatus(h, new) = [class |-> [k \in 1..5 |-> h.class[k] + added[k]], last |-> status]
      BY <2>1, <3>1 DEF MergeStatus
    <3> QED
      BY <3>2 DEF new
  <2>6. ApplyStatus(MergeStatus(h, n), status) = [class |-> [sum EXCEPT ![c] = @ + 1], last |-> status]
    <3> DEFINE both == MergeStatus(h, n)
    <3>1. both.class = sum
      BY DEF MergeStatus
    <3> HIDE DEF both, sum
    <3>2. ApplyStatus(both, status) = [class |-> [both.class EXCEPT ![c] = @ + 1], last |-> status]
      BY <2>2, Zenon
    <3>3. ApplyStatus(both, status) = [class |-> [sum EXCEPT ![c] = @ + 1], last |-> status]
      BY <3>1, <3>2
    <3> QED
      BY <3>3 DEF both
  <2> QED
    BY <1>2, <2>3, <2>4, <2>5, <2>6
<1> QED
  BY <1>3, <1>4

\* First and last times, and the port that is kept.
LEMMA TimeFacts ==
  /\ \A a, b \in Nat : Earliest(a, b) \in Nat /\ Latest(a, b) \in Nat
  /\ \A a \in Nat : Earliest(a, 0) = a /\ Latest(a, 0) = a
  /\ \A a, b, c \in Nat : /\ Earliest(a, Earliest(b, c)) = Earliest(Earliest(a, b), c)
                          /\ Latest(a, Latest(b, c)) = Latest(Latest(a, b), c)
BY DEF Earliest, Latest

\* Three times.
LEMMA TimesAssociate ==
  ASSUME NEW a \in Nat, NEW b \in Nat, NEW c \in Nat
  PROVE  /\ Earliest(a, Earliest(b, c)) = Earliest(Earliest(a, b), c)
         /\ Latest(a, Latest(b, c)) = Latest(Latest(a, b), c)
BY TimeFacts

\* What an event adds is a number.
LEMMA EventFacts ==
  ASSUME NEW e \in MetricEvents
  PROVE  /\ {e.SrcPort, e.Bytes, e.Packets, e.Connections, e.Requests, e.Errors, e.Retransmissions,
             e.RTT, e.AppDelay, e.HTTPStatus} \subseteq Int
         /\ e.FirstSeen \in Nat /\ e.LastSeen \in Nat
         /\ \A n \in Int : nonNegative(n) \in Nat
         /\ RequestsOf(e) \in Int
<1>1. /\ {e.SrcPort, e.Bytes, e.Packets, e.Connections, e.Requests, e.Errors, e.Retransmissions,
          e.RTT, e.AppDelay, e.HTTPStatus} \subseteq Int
      /\ e.FirstSeen \in Nat /\ e.LastSeen \in Nat
  BY MetricsAssumption
<1>2. \A n \in Int : nonNegative(n) \in Nat
  BY DEF nonNegative
<1>3. RequestsOf(e) \in Int
  BY <1>1, <1>2 DEF RequestsOf, InferRequestCount
<1> QED
  BY <1>1, <1>2, <1>3

\* The state after an event (store.go:61-91).
LEMMA Applied ==
  ASSUME NEW s, StateOK(s), s.RTT.samples < MaxEvents, s.Delay.samples < MaxEvents,
         NEW e \in MetricEvents
  PROVE  LET new == Apply(s, e)
         IN  /\ StateOK(new)
             /\ new.RTT.samples <= s.RTT.samples + 1 /\ new.Delay.samples <= s.Delay.samples + 1
<1> DEFINE new == Apply(s, e)
<1>1. e.RTT \in Int /\ e.AppDelay \in Int /\ e.HTTPStatus \in Int /\ e.SrcPort \in Int
  BY EventFacts
<1>2. RTTOK(s.RTT) /\ DelayOK(s.Delay) /\ HTTPOK(s.HTTP)
  BY DEF StateOK
<1>3. RTTOK(ApplyRTT(s.RTT, e.RTT)) /\ ApplyRTT(s.RTT, e.RTT).samples \in {s.RTT.samples, s.RTT.samples + 1}
  BY <1>1, <1>2, RTTApplied
<1>4. /\ DelayOK(applyAppDelay(s.Delay, e.AppDelay))
      /\ applyAppDelay(s.Delay, e.AppDelay).samples \in {s.Delay.samples, s.Delay.samples + 1}
  BY <1>1, <1>2, DelayApplied
<1>5. HTTPOK(ApplyStatus(s.HTTP, e.HTTPStatus))
  BY <1>1, <1>2, HTTPFacts
<1>6. s.RTT.samples \in Nat /\ s.Delay.samples \in Nat
  BY <1>2 DEF RTTOK, DelayOK, Mean
<1>7. /\ new.RTT = ApplyRTT(s.RTT, e.RTT) /\ new.Delay = applyAppDelay(s.Delay, e.AppDelay)
      /\ new.HTTP = ApplyStatus(s.HTTP, e.HTTPStatus)
      /\ new.FirstSeen = Earliest(s.FirstSeen, e.FirstSeen)
      /\ new.LastSeen = Latest(s.LastSeen, e.LastSeen)
      /\ new.SrcPort = IF s.SrcPort = 0 /\ e.SrcPort > 0 THEN e.SrcPort ELSE s.SrcPort
  BY DEF Apply
<1>8. new.FirstSeen \in Nat /\ new.LastSeen \in Nat /\ new.SrcPort \in Nat
  <2>1. s.FirstSeen \in Nat /\ s.LastSeen \in Nat /\ s.SrcPort \in Nat /\ e.FirstSeen \in Nat /\ e.LastSeen \in Nat
    BY EventFacts DEF StateOK
  <2>2. Earliest(s.FirstSeen, e.FirstSeen) \in Nat /\ Latest(s.LastSeen, e.LastSeen) \in Nat
    BY <2>1, TimeFacts, Zenon
  <2> HIDE DEF new
  <2> QED
    BY <1>1, <1>7, <2>1, <2>2
<1>9. /\ new.Sent \in Int /\ new.Received \in Int /\ new.Packets \in Int /\ new.OpenCount \in Int
      /\ new.ErrorCount \in Int /\ new.RequestHint \in Int /\ new.Retrans \in Int
  <2>1. /\ nonNegative(e.Bytes) \in Int /\ nonNegative(e.Packets) \in Int
        /\ nonNegative(e.Connections) \in Int /\ nonNegative(e.Errors) \in Int
        /\ nonNegative(e.Retransmissions) \in Int /\ RequestsOf(e) \in Int
    BY EventFacts
  <2>2. /\ s.Sent \in Int /\ s.Received \in Int /\ s.Packets \in Int /\ s.OpenCount \in Int
        /\ s.ErrorCount \in Int /\ s.RequestHint \in Int /\ s.Retrans \in Int
    BY DEF StateOK
  <2>3. /\ new.Sent = s.Sent + (IF direction = "ingress" THEN 0 ELSE nonNegative(e.Bytes))
        /\ new.Received = s.Received + (IF direction = "ingress" THEN nonNegative(e.Bytes) ELSE 0)
        /\ new.Packets = s.Packets + nonNegative(e.Packets)
        /\ new.OpenCount = s.OpenCount + nonNegative(e.Connections)
        /\ new.ErrorCount = s.ErrorCount + nonNegative(e.Errors)
        /\ new.RequestHint = s.RequestHint + RequestsOf(e)
        /\ new.Retrans = s.Retrans + nonNegative(e.Retransmissions)
    BY DEF Apply
  <2> HIDE DEF new
  <2> QED
    BY <2>1, <2>2, <2>3
<1>10. new = [SrcPort |-> new.SrcPort, Sent |-> new.Sent, Received |-> new.Received,
              Packets |-> new.Packets, OpenCount |-> new.OpenCount, ErrorCount |-> new.ErrorCount,
              RequestHint |-> new.RequestHint, Retrans |-> new.Retrans, RTT |-> new.RTT,
              Delay |-> new.Delay, HTTP |-> new.HTTP, FirstSeen |-> new.FirstSeen,
              LastSeen |-> new.LastSeen]
  BY DEF Apply
<1> HIDE DEF new
<1>11. StateOK(new)
  BY <1>3, <1>4, <1>5, <1>7, <1>8, <1>9, <1>10, Zenon DEF StateOK
<1>12. new.RTT.samples <= s.RTT.samples + 1 /\ new.Delay.samples <= s.Delay.samples + 1
  BY <1>3, <1>4, <1>6, <1>7, SMTT(30)
<1> QED
  BY <1>11, <1>12 DEF new

\* An event may be applied before or after the merge (store.go:61-160).
LEMMA MergeApply ==
  ASSUME NEW s, NEW n, StateOK(s), StateOK(n), NEW e \in MetricEvents,
         s.RTT.samples + n.RTT.samples < MaxEvents, s.Delay.samples + n.Delay.samples < MaxEvents
  PROVE  Merge(s, Apply(n, e)) = Apply(Merge(s, n), e)
<1> DEFINE n1 == Apply(n, e)
           p == Merge(s, n)
           left == Merge(s, n1)
           right == Apply(p, e)
<1>1. /\ e.RTT \in Int /\ e.AppDelay \in Int /\ e.HTTPStatus \in Int /\ e.SrcPort \in Int
      /\ e.FirstSeen \in Nat /\ e.LastSeen \in Nat
      /\ nonNegative(e.Bytes) \in Int /\ nonNegative(e.Packets) \in Int
      /\ nonNegative(e.Connections) \in Int /\ nonNegative(e.Errors) \in Int
      /\ nonNegative(e.Retransmissions) \in Int /\ RequestsOf(e) \in Int
  BY EventFacts
<1>2. /\ n1.RTT = ApplyRTT(n.RTT, e.RTT) /\ n1.Delay = applyAppDelay(n.Delay, e.AppDelay)
      /\ n1.HTTP = ApplyStatus(n.HTTP, e.HTTPStatus)
      /\ n1.FirstSeen = Earliest(n.FirstSeen, e.FirstSeen)
      /\ n1.LastSeen = Latest(n.LastSeen, e.LastSeen)
      /\ n1.SrcPort = (IF n.SrcPort = 0 /\ e.SrcPort > 0 THEN e.SrcPort ELSE n.SrcPort)
      /\ n1.Sent = n.Sent + (IF direction = "ingress" THEN 0 ELSE nonNegative(e.Bytes))
      /\ n1.Received = n.Received + (IF direction = "ingress" THEN nonNegative(e.Bytes) ELSE 0)
      /\ n1.Packets = n.Packets + nonNegative(e.Packets)
      /\ n1.OpenCount = n.OpenCount + nonNegative(e.Connections)
      /\ n1.ErrorCount = n.ErrorCount + nonNegative(e.Errors)
      /\ n1.RequestHint = n.RequestHint + RequestsOf(e)
      /\ n1.Retrans = n.Retrans + nonNegative(e.Retransmissions)
  BY DEF Apply
<1>3. /\ p.RTT = mergeRTT(s.RTT, n.RTT) /\ p.Delay = mergeAppDelay(s.Delay, n.Delay)
      /\ p.HTTP = MergeStatus(s.HTTP, n.HTTP)
      /\ p.FirstSeen = Earliest(s.FirstSeen, n.FirstSeen)
      /\ p.LastSeen = Latest(s.LastSeen, n.LastSeen)
      /\ p.SrcPort = (IF s.SrcPort = 0 /\ n.SrcPort > 0 THEN n.SrcPort ELSE s.SrcPort)
      /\ p.Sent = s.Sent + n.Sent /\ p.Received = s.Received + n.Received
      /\ p.Packets = s.Packets + n.Packets /\ p.OpenCount = s.OpenCount + n.OpenCount
      /\ p.ErrorCount = s.ErrorCount + n.ErrorCount
      /\ p.RequestHint = s.RequestHint + n.RequestHint /\ p.Retrans = s.Retrans + n.Retrans
  BY DEF Merge
<1> HIDE DEF n1, p
<1>4. mergeRTT(s.RTT, n1.RTT) = ApplyRTT(p.RTT, e.RTT)
  <2>1. RTTOK(s.RTT) /\ RTTOK(n.RTT)
    BY Zenon DEF StateOK
  <2>2. mergeRTT(s.RTT, ApplyRTT(n.RTT, e.RTT)) = ApplyRTT(mergeRTT(s.RTT, n.RTT), e.RTT)
    BY <1>1, <2>1, RTTMergeApply, SMTT(30)
  <2> QED
    BY <1>2, <1>3, <2>2, Zenon
<1>5. mergeAppDelay(s.Delay, n1.Delay) = applyAppDelay(p.Delay, e.AppDelay)
  <2>1. DelayOK(s.Delay) /\ DelayOK(n.Delay)
    BY Zenon DEF StateOK
  <2>2. mergeAppDelay(s.Delay, applyAppDelay(n.Delay, e.AppDelay))
          = applyAppDelay(mergeAppDelay(s.Delay, n.Delay), e.AppDelay)
    BY <1>1, <2>1, DelayMergeApply
  <2> QED
    BY <1>2, <1>3, <2>2, Zenon
<1>6. MergeStatus(s.HTTP, n1.HTTP) = ApplyStatus(p.HTTP, e.HTTPStatus)
  <2>1. HTTPOK(s.HTTP) /\ HTTPOK(n.HTTP)
    BY Zenon DEF StateOK
  <2>2. MergeStatus(s.HTTP, ApplyStatus(n.HTTP, e.HTTPStatus))
          = ApplyStatus(MergeStatus(s.HTTP, n.HTTP), e.HTTPStatus)
    BY <1>1, <2>1, HTTPFacts
  <2> QED
    BY <1>2, <1>3, <2>2, Zenon
<1>7. /\ Earliest(s.FirstSeen, n1.FirstSeen) = Earliest(p.FirstSeen, e.FirstSeen)
      /\ Latest(s.LastSeen, n1.LastSeen) = Latest(p.LastSeen, e.LastSeen)
  <2>1. s.FirstSeen \in Nat /\ s.LastSeen \in Nat /\ n.FirstSeen \in Nat /\ n.LastSeen \in Nat
    BY DEF StateOK
  <2>2. e.FirstSeen \in Nat /\ e.LastSeen \in Nat
    BY <1>1
  <2>3. Earliest(s.FirstSeen, Earliest(n.FirstSeen, e.FirstSeen))
          = Earliest(Earliest(s.FirstSeen, n.FirstSeen), e.FirstSeen)
    BY <2>1, <2>2, TimesAssociate
  <2>4. Latest(s.LastSeen, Latest(n.LastSeen, e.LastSeen))
          = Latest(Latest(s.LastSeen, n.LastSeen), e.LastSeen)
    BY <2>1, <2>2, TimesAssociate
  <2> QED
    BY <1>2, <1>3, <2>3, <2>4, Zenon
<1>8. (IF s.SrcPort = 0 /\ n1.SrcPort > 0 THEN n1.SrcPort ELSE s.SrcPort)
        = (IF p.SrcPort = 0 /\ e.SrcPort > 0 THEN e.SrcPort ELSE p.SrcPort)
  <2>1. s.SrcPort \in Nat /\ n.SrcPort \in Nat
    BY DEF StateOK
  <2> QED
    BY <1>1, <1>2, <1>3, <2>1
<1>9. /\ s.Sent + n1.Sent = p.Sent + (IF direction = "ingress" THEN 0 ELSE nonNegative(e.Bytes))
      /\ s.Received + n1.Received
           = p.Received + (IF direction = "ingress" THEN nonNegative(e.Bytes) ELSE 0)
      /\ s.Packets + n1.Packets = p.Packets + nonNegative(e.Packets)
      /\ s.OpenCount + n1.OpenCount = p.OpenCount + nonNegative(e.Connections)
      /\ s.ErrorCount + n1.ErrorCount = p.ErrorCount + nonNegative(e.Errors)
      /\ s.RequestHint + n1.RequestHint = p.RequestHint + RequestsOf(e)
      /\ s.Retrans + n1.Retrans = p.Retrans + nonNegative(e.Retransmissions)
  <2>1. /\ s.Sent \in Int /\ s.Received \in Int /\ s.Packets \in Int /\ s.OpenCount \in Int
        /\ s.ErrorCount \in Int /\ s.RequestHint \in Int /\ s.Retrans \in Int
    BY Zenon DEF StateOK
  <2>2. /\ n.Sent \in Int /\ n.Received \in Int /\ n.Packets \in Int /\ n.OpenCount \in Int
        /\ n.ErrorCount \in Int /\ n.RequestHint \in Int /\ n.Retrans \in Int
    BY Zenon DEF StateOK
  <2> QED
    BY <1>1, <1>2, <1>3, <2>1, <2>2, SMTT(30)
<1>10. left = right
  BY <1>4, <1>5, <1>6, <1>7, <1>8, <1>9, Zenon DEF Merge, Apply
<1> QED
  BY <1>10 DEF n1, p

\* The zero State: it is one, and merging it changes nothing.
LEMMA EmptyFacts ==
  /\ StateOK(Empty) /\ Empty.RTT = NoRTT /\ Empty.RTT.samples = 0 /\ Empty.Delay.samples = 0
  /\ \A s : StateOK(s) => Merge(s, Empty) = s
<1>1. /\ Empty.RTT = NoRTT /\ NoRTT.samples = 0 /\ Empty.Delay = [avg |-> 0, samples |-> 0]
      /\ Empty.HTTP = [class |-> [c \in 1..5 |-> 0], last |-> 0]
      /\ Empty.SrcPort = 0 /\ Empty.FirstSeen = 0 /\ Empty.LastSeen = 0
      /\ Empty.Sent = 0 /\ Empty.Received = 0 /\ Empty.Packets = 0 /\ Empty.OpenCount = 0
      /\ Empty.ErrorCount = 0 /\ Empty.RequestHint = 0 /\ Empty.Retrans = 0
  BY DEF Empty, NoRTT
<1>2. \A m : m.avg = 0 /\ m.samples = 0 => Mean(m, 0)
  BY ScaleAssumption DEF Mean
<1>3. RTTOK(NoRTT)
  <2>1. \E total : Mean(NoRTT, total)
    BY <1>2 DEF NoRTT
  <2> QED
    BY <2>1 DEF RTTOK, NoRTT
<1>4. DelayOK(Empty.Delay) /\ Empty.Delay.samples = 0
  BY <1>1, <1>2 DEF DelayOK
<1>5. HTTPOK(Empty.HTTP)
  BY <1>1 DEF HTTPOK
<1>6. Empty = [SrcPort |-> Empty.SrcPort, Sent |-> Empty.Sent, Received |-> Empty.Received,
               Packets |-> Empty.Packets, OpenCount |-> Empty.OpenCount,
               ErrorCount |-> Empty.ErrorCount, RequestHint |-> Empty.RequestHint,
               Retrans |-> Empty.Retrans, RTT |-> Empty.RTT, Delay |-> Empty.Delay,
               HTTP |-> Empty.HTTP, FirstSeen |-> Empty.FirstSeen, LastSeen |-> Empty.LastSeen]
  BY DEF Empty
<1>7. StateOK(Empty)
  BY <1>1, <1>3, <1>4, <1>5, <1>6 DEF StateOK
<1>8. ASSUME NEW s, StateOK(s) PROVE Merge(s, Empty) = s
  <2>1. mergeRTT(s.RTT, Empty.RTT) = s.RTT /\ mergeAppDelay(s.Delay, Empty.Delay) = s.Delay
    BY <1>1, <1>4 DEF mergeRTT, mergeAppDelay
  <2>2. MergeStatus(s.HTTP, Empty.HTTP) = s.HTTP
    <3>1. /\ s.HTTP = [class |-> s.HTTP.class, last |-> s.HTTP.last]
          /\ s.HTTP.class \in [1..5 -> Int]
      BY <1>8 DEF StateOK, HTTPOK
    <3>2. [c \in 1..5 |-> s.HTTP.class[c] + Empty.HTTP.class[c]] = s.HTTP.class
      BY <1>1, <3>1
    <3> QED
      BY <1>1, <3>1, <3>2 DEF MergeStatus
  <2>3. Earliest(s.FirstSeen, Empty.FirstSeen) = s.FirstSeen /\ Latest(s.LastSeen, Empty.LastSeen) = s.LastSeen
    BY <1>1, <1>8, TimeFacts DEF StateOK
  <2>4. /\ s.Sent + 0 = s.Sent /\ s.Received + 0 = s.Received /\ s.Packets + 0 = s.Packets
        /\ s.OpenCount + 0 = s.OpenCount /\ s.ErrorCount + 0 = s.ErrorCount
        /\ s.RequestHint + 0 = s.RequestHint /\ s.Retrans + 0 = s.Retrans
    BY <1>8 DEF StateOK
  <2>5. (IF s.SrcPort = 0 /\ Empty.SrcPort > 0 THEN Empty.SrcPort ELSE s.SrcPort) = s.SrcPort
    BY <1>1
  <2> QED
    BY <1>1, <1>8, <2>1, <2>2, <2>3, <2>4, <2>5, Zenon DEF Merge, StateOK
<1> QED
  BY <1>1, <1>4, <1>7, <1>8, SMTT(30)
-----------------------------------------------------------------------------
(* A window that is cut in two.                                            *)

\* The parts have no more samples than events, and no event is in the second part
\* before the cut.
WindowInv ==
  /\ log \in Seq(MetricEvents) /\ Len(log) <= MaxEvents
  /\ cut \in Nat /\ cut <= Len(log)
  /\ cut = Len(log) => second = Empty
  /\ StateOK(first) /\ first.RTT.samples <= cut /\ first.Delay.samples <= cut
  /\ StateOK(second) /\ second.RTT.samples <= Len(log) - cut /\ second.Delay.samples <= Len(log) - cut
  /\ MergeIsConcatenation

\* Samples are counted.
LEMMA SampleCounts ==
  ASSUME NEW s, StateOK(s) PROVE s.RTT.samples \in Nat /\ s.Delay.samples \in Nat
BY DEF StateOK, RTTOK, DelayOK, Mean

\* An event before the cut: nothing has to be merged yet.
LEMMA FirstKeeps ==
  ASSUME WindowInv, NEW e \in MetricEvents, AddFirst(e)
  PROVE  WindowInv'
<1>1. /\ log \in Seq(MetricEvents) /\ cut = Len(log) /\ Len(log) < MaxEvents /\ second = Empty
      /\ StateOK(first) /\ first.RTT.samples <= cut /\ first.Delay.samples <= cut
      /\ log' = Append(log, e) /\ cut' = cut + 1 /\ second' = second
      /\ whole' = Apply(whole, e) /\ first' = Apply(first, e)
  BY DEF WindowInv, AddFirst
<1>2. /\ log' \in Seq(MetricEvents) /\ Len(log') = Len(log) + 1 /\ Len(log) \in Nat /\ MaxEvents \in Nat
  BY <1>1, ScaleAssumption
<1>3. first.RTT.samples \in Nat /\ first.Delay.samples \in Nat
  BY <1>1, SampleCounts
<1>4. first.RTT.samples < MaxEvents /\ first.Delay.samples < MaxEvents
  BY <1>1, <1>2, <1>3
<1>5. /\ StateOK(first') /\ first'.RTT.samples <= first.RTT.samples + 1
      /\ first'.Delay.samples <= first.Delay.samples + 1
  BY <1>1, <1>4, Applied
<1>6. first'.RTT.samples \in Nat /\ first'.Delay.samples \in Nat
  BY <1>5, SampleCounts
<1>7. first'.RTT.samples <= cut' /\ first'.Delay.samples <= cut'
  <2>1. \A a, b, c \in Nat : a <= c /\ b <= a + 1 => b <= c + 1
    OBVIOUS
  <2>2. first.RTT.samples <= cut /\ first.Delay.samples <= cut /\ cut \in Nat /\ cut' = cut + 1
    BY <1>1, <1>2, Zenon
  <2> QED
    BY <1>3, <1>5, <1>6, <2>1, <2>2, Zenon
<1>8. MergeIsConcatenation'
  <2>1. first = whole
    BY <1>1, EmptyFacts DEF WindowInv, MergeIsConcatenation
  <2>2. Merge(first', Empty) = first'
    BY <1>5, EmptyFacts
  <2> QED
    BY <1>1, <2>1, <2>2 DEF MergeIsConcatenation
<1>9. StateOK(second') /\ second'.RTT.samples <= Len(log') - cut' /\ second'.Delay.samples <= Len(log') - cut'
  BY <1>1, <1>2, EmptyFacts
<1>10. cut' \in Nat /\ cut' <= Len(log') /\ Len(log') <= MaxEvents
  BY <1>1, <1>2
<1> QED
  BY <1>1, <1>2, <1>5, <1>7, <1>8, <1>9, <1>10, Zenon DEF WindowInv

\* An event after the cut is applied to the second part.
LEMMA SecondKeeps ==
  ASSUME WindowInv, NEW e \in MetricEvents, AddSecond(e)
  PROVE  WindowInv'
<1>1. /\ log \in Seq(MetricEvents) /\ Len(log) < MaxEvents /\ cut \in Nat /\ cut <= Len(log)
      /\ StateOK(first) /\ first.RTT.samples <= cut /\ first.Delay.samples <= cut
      /\ StateOK(second)
      /\ second.RTT.samples <= Len(log) - cut /\ second.Delay.samples <= Len(log) - cut
      /\ log' = Append(log, e) /\ cut' = cut /\ first' = first
      /\ whole' = Apply(whole, e) /\ second' = Apply(second, e) /\ Merge(first, second) = whole
      /\ UNCHANGED <<protocol, direction>>
  BY DEF WindowInv, AddSecond, MergeIsConcatenation
<1>2. /\ log' \in Seq(MetricEvents) /\ Len(log') = Len(log) + 1 /\ Len(log) \in Nat /\ MaxEvents \in Nat
  BY <1>1, ScaleAssumption
<1>3. /\ first.RTT.samples \in Nat /\ first.Delay.samples \in Nat
      /\ second.RTT.samples \in Nat /\ second.Delay.samples \in Nat
  BY <1>1, SampleCounts
<1>4. /\ second.RTT.samples < MaxEvents /\ second.Delay.samples < MaxEvents
      /\ first.RTT.samples + second.RTT.samples < MaxEvents
      /\ first.Delay.samples + second.Delay.samples < MaxEvents
  <2>1. \A a, b, c, n, m \in Nat : a <= c /\ b <= n - c /\ c <= n /\ n < m => b < m /\ a + b < m
    OBVIOUS
  <2>2. /\ first.RTT.samples <= cut /\ first.Delay.samples <= cut
        /\ second.RTT.samples <= Len(log) - cut /\ second.Delay.samples <= Len(log) - cut
        /\ cut \in Nat /\ cut <= Len(log) /\ Len(log) < MaxEvents
    BY <1>1, Zenon
  <2> QED
    BY <1>2, <1>3, <2>1, <2>2, Zenon
<1>5. /\ StateOK(second') /\ second'.RTT.samples <= second.RTT.samples + 1
      /\ second'.Delay.samples <= second.Delay.samples + 1
  BY <1>1, <1>4, Applied
<1>6. second'.RTT.samples \in Nat /\ second'.Delay.samples \in Nat
  BY <1>5, SampleCounts
<1>7. second'.RTT.samples <= Len(log') - cut' /\ second'.Delay.samples <= Len(log') - cut'
  <2>1. second.RTT.samples <= Len(log) - cut /\ second.Delay.samples <= Len(log) - cut /\ cut \in Nat
    BY <1>1
  <2>2. Len(log') - cut' = (Len(log) - cut) + 1 /\ Len(log) - cut \in Int
    BY <1>1, <1>2
  <2>3. \A a, b \in Nat, d \in Int : a <= d /\ b <= a + 1 => b <= d + 1
    OBVIOUS
  <2>4. second'.RTT.samples <= (Len(log) - cut) + 1 /\ second'.Delay.samples <= (Len(log) - cut) + 1
    BY <1>3, <1>5, <1>6, <2>1, <2>2, <2>3, Zenon
  <2> QED
    BY <2>2, <2>4, Zenon
<1>8. Merge(first, Apply(second, e)) = Apply(Merge(first, second), e)
  BY <1>1, <1>4, MergeApply
<1>9. MergeIsConcatenation'
  BY <1>1, <1>8 DEF MergeIsConcatenation
<1>10. cut' \in Nat /\ cut' < Len(log') /\ Len(log') <= MaxEvents
  BY <1>1, <1>2
<1>11. StateOK(first')
  BY <1>1
<1>12. cut' \in Nat /\ cut' <= Len(log') /\ cut' # Len(log') /\ Len(log') <= MaxEvents
  BY <1>2, <1>10
<1>13. first'.RTT.samples <= cut' /\ first'.Delay.samples <= cut'
  BY <1>1
<1> QED
  BY <1>2, <1>5, <1>7, <1>9, <1>11, <1>12, <1>13, Zenon DEF WindowInv

\* Cutting a window anywhere and merging the parts gives the window, for any number of
\* events of any kind: what FlowPipeline takes for granted when it represents a State by
\* the set of its events (store.go:32-47, 61-160).
THEOREM MergedWindows == Spec => []MergeIsConcatenation
<1>1. Init => WindowInv
  <2> SUFFICES ASSUME Init PROVE WindowInv
    OBVIOUS
  <2>1. Merge(Empty, Empty) = Empty
    BY EmptyFacts
  <2> QED
    BY <2>1, EmptyFacts, ScaleAssumption DEF Init, WindowInv, MergeIsConcatenation
<1>2. WindowInv /\ [Next]_vars => WindowInv'
  <2> SUFFICES ASSUME WindowInv, [Next]_vars PROVE WindowInv'
    OBVIOUS
  <2>1. CASE UNCHANGED vars
    <3>1. log' = log /\ cut' = cut /\ whole' = whole /\ first' = first /\ second' = second
      BY <2>1 DEF vars
    <3> QED
      BY <3>1 DEF WindowInv, MergeIsConcatenation
  <2>2. CASE Next
    BY <2>2, FirstKeeps, SecondKeeps DEF Next
  <2> QED
    BY <2>1, <2>2
<1>3. WindowInv => MergeIsConcatenation
  BY DEF WindowInv
<1> QED
  BY <1>1, <1>2, <1>3, PTL DEF Spec
-----------------------------------------------------------------------------
(* The sum of the samples of a log.                                        *)

\* A set of numbers that is not empty has a least element.
LEMMA LeastNumber ==
  ASSUME NEW T \in SUBSET Nat, T # {}
  PROVE  \E m \in T : \A k \in T : m <= k
<1> DEFINE Less == {ss \in Nat \X Nat : ss[1] < ss[2]}
<1>1. IsWellFoundedOn(Less, Nat)
  BY NatLessThanWellFounded, Zenon DEF OpToRel
<1>2. \E m \in T : \A k \in T : <<k, m>> \notin Less
  <2> HIDE DEF Less
  <2> QED
    BY <1>1, WFMin, Zenon
<1>3. \A m, k \in Nat : <<k, m>> \notin Less => m <= k
  OBVIOUS
<1> HIDE DEF Less
<1> QED
  BY <1>2, <1>3, Zenon

\* Induction for a set of numbers.
LEMMA SetInduction ==
  ASSUME NEW S, 0 \in S, \A n \in Nat : n \in S => n + 1 \in S
  PROVE  Nat \subseteq S
<1> SUFFICES ASSUME Nat \ S # {} PROVE FALSE
  OBVIOUS
<1>1. PICK m \in Nat \ S : \A k \in Nat \ S : m <= k
  BY LeastNumber, Zenon
<1>2. m # 0 /\ m - 1 \in Nat
  OBVIOUS
<1>3. m - 1 \in S
  BY <1>1, <1>2
<1> QED
  BY <1>2, <1>3

\* What Max takes from a set of positions.
LEMMA MaxFacts ==
  ASSUME NEW n \in Nat, NEW s \in SUBSET (1..n), s # {}
  PROVE  Max(s) \in s /\ \A y \in s : Max(s) >= y
<1> DEFINE T == {n - x : x \in s}
<1>1. T \in SUBSET Nat /\ T # {}
  <2>1. \A x \in s : n - x \in Nat
    OBVIOUS
  <2> QED
    BY <2>1, Zenon
<1>2. PICK m \in T : \A k \in T : m <= k
  BY <1>1, LeastNumber, Zenon
<1>3. PICK x \in s : m = n - x
  BY <1>2
<1>4. \A y \in s : n - x <= n - y
  BY <1>2, <1>3, Zenon
<1>5. \A y \in s : x >= y
  BY <1>3, <1>4
<1> QED
  BY <1>3, <1>5, Zenon DEF Max

\* The function FoldLeft iterates over the sets of the first n positions of q.
Iterates(f, q, n) ==
  f = [s \in SUBSET (1..n) |-> IF s = {} THEN 0
                               ELSE PlusRTT(f[s \ {Max(s)}], q[Max(s)])]

\* FoldLeft is this function's value for all positions.
LEMMA FoldIsIterate ==
  ASSUME NEW n \in Nat, NEW q, DOMAIN q = 1..n
  PROVE  FoldLeft(PlusRTT, 0, q) = (CHOOSE f : Iterates(f, q, n))[1..n]
BY DEF FoldLeft, MapThenFoldSet, Iterates

\* The function exists: from n positions to n + 1, a set that has the new position
\* applies its step last.
LEMMA IterateExists ==
  ASSUME NEW q
  PROVE  \A n \in Nat : \E f : Iterates(f, q, n)
<1> DEFINE S == {n \in Nat : \E f : Iterates(f, q, n)}
<1>1. 0 \in S
  <2> DEFINE f == [s \in SUBSET (1..0) |-> 0]
  <2>1. SUBSET (1..0) = {{}}
    OBVIOUS
  <2>2. Iterates(f, q, 0)
    BY <2>1 DEF Iterates
  <2> QED
    BY <2>2
<1>2. ASSUME NEW n \in Nat, n \in S PROVE n + 1 \in S
  <2>1. PICK f : Iterates(f, q, n)
    BY <1>2
  <2> DEFINE g == [s \in SUBSET (1..(n + 1)) |->
                     IF n + 1 \in s THEN PlusRTT(f[s \ {n + 1}], q[n + 1]) ELSE f[s]]
             body(s) == IF s = {} THEN 0 ELSE PlusRTT(g[s \ {Max(s)}], q[Max(s)])
  <2>2. ASSUME NEW s \in SUBSET (1..(n + 1)) PROVE g[s] = body(s)
    <3>1. CASE n + 1 \in s
      <4>1. Max(s) = n + 1
        <5>1. n + 1 \in Nat /\ s # {}
          BY <3>1
        <5>2. Max(s) \in s /\ \A y \in s : Max(s) >= y
          BY <5>1, MaxFacts, Zenon
        <5>3. Max(s) \in 1..(n + 1) /\ Max(s) >= n + 1
          BY <3>1, <5>2, Zenon
        <5> QED
          BY <5>3
      <4>2. s \ {n + 1} \in SUBSET (1..(n + 1)) /\ n + 1 \notin s \ {n + 1} /\ s # {}
        BY <3>1
      <4>3. g[s \ {n + 1}] = f[s \ {n + 1}]
        BY <4>2
      <4>4. g[s] = PlusRTT(f[s \ {n + 1}], q[n + 1])
        BY <3>1
      <4> HIDE DEF g
      <4> QED
        BY <4>1, <4>2, <4>3, <4>4
    <3>2. CASE n + 1 \notin s
      <4>1. s \in SUBSET (1..n)
        BY <3>2
      <4>2. g[s] = f[s]
        BY <3>2
      <4>3. f[s] = IF s = {} THEN 0 ELSE PlusRTT(f[s \ {Max(s)}], q[Max(s)])
        BY <2>1, <4>1, Zenon DEF Iterates
      <4>4. s # {} => g[s \ {Max(s)}] = f[s \ {Max(s)}]
        BY <3>2, <4>1, Zenon
      <4> HIDE DEF g
      <4> QED
        BY <4>2, <4>3, <4>4
    <3> QED
      BY <3>1, <3>2
  <2>3. g = [s \in SUBSET (1..(n + 1)) |-> g[s]]
    OBVIOUS
  <2>4. Iterates(g, q, n + 1)
    <3> HIDE DEF g
    <3> QED
      BY <2>2, <2>3, Zenon DEF Iterates
  <2> QED
    BY <2>4
<1> HIDE DEF S
<1>3. Nat \subseteq S
  BY <1>1, <1>2, SetInduction
<1> QED
  BY <1>3 DEF S

\* The fold goes through the prefixes of q, one event a step.
LEMMA FoldPrefixes ==
  ASSUME NEW n \in Nat, NEW q, DOMAIN q = 1..n
  PROVE  \E sums : /\ sums[0] = 0
                   /\ \A i \in 0..n : i < n => sums[i + 1] = PlusRTT(sums[i], q[i + 1])
                   /\ FoldLeft(PlusRTT, 0, q) = sums[n]
<1> DEFINE f == CHOOSE f : Iterates(f, q, n)
<1>1. Iterates(f, q, n)
  BY IterateExists
<1>2. FoldLeft(PlusRTT, 0, q) = f[1..n]
  BY FoldIsIterate
<1> HIDE DEF f
<1>3. f[1..0] = 0
  <2>1. 1..0 = {} /\ {} \in SUBSET (1..n)
    OBVIOUS
  <2> QED
    BY <1>1, <2>1 DEF Iterates
<1>4. ASSUME NEW i \in 0..n, i < n
      PROVE  f[1..(i + 1)] = PlusRTT(f[1..i], q[i + 1])
  <2> DEFINE s == 1..(i + 1)
  <2>1. s \in SUBSET (1..n) /\ s # {} /\ i + 1 \in s /\ s \ {i + 1} = 1..i
    <3>1. i \in Nat /\ i + 1 <= n
      BY <1>4
    <3>2. \A y \in s : y \in 1..n
      BY <3>1
    <3>3. i + 1 \in s
      BY <3>1
    <3>4. s \ {i + 1} = 1..i
      BY <3>1
    <3> QED
      BY <3>2, <3>3, <3>4, Zenon
  <2>2. \A y \in s : y <= i + 1
    OBVIOUS
  <2> HIDE DEF s
  <2>3. Max(s) \in s /\ Max(s) >= i + 1
    BY <2>1, MaxFacts, Zenon
  <2>4. Max(s) = i + 1
    <3>1. Max(s) \in 1..n
      BY <2>1, <2>3
    <3> QED
      BY <2>2, <2>3, <3>1
  <2>5. f[s] = PlusRTT(f[s \ {Max(s)}], q[Max(s)])
    BY <1>1, <2>1, Zenon DEF Iterates
  <2> QED
    BY <2>1, <2>4, <2>5, Zenon DEF s
<1> DEFINE sums == [i \in 0..n |-> f[1..i]]
<1>5. sums[0] = 0 /\ sums[n] = f[1..n]
  BY <1>3
<1>6. \A i \in 0..n : i < n => sums[i + 1] = PlusRTT(sums[i], q[i + 1])
  BY <1>4
<1> HIDE DEF sums
<1> QED
  BY <1>2, <1>5, <1>6, Zenon

\* One more event adds its sample to the sum.
LEMMA SumExtend ==
  ASSUME NEW n \in Nat, NEW q, NEW r, DOMAIN q = 1..n, DOMAIN r = 1..(n + 1),
         \A i \in 1..n : r[i] = q[i]
  PROVE  FoldLeft(PlusRTT, 0, r) = PlusRTT(FoldLeft(PlusRTT, 0, q), r[n + 1])
<1>2. PICK a : /\ a[0] = 0
               /\ \A i \in 0..n : i < n => a[i + 1] = PlusRTT(a[i], q[i + 1])
               /\ FoldLeft(PlusRTT, 0, q) = a[n]
  BY FoldPrefixes, Zenon
<1>3. PICK b : /\ b[0] = 0
               /\ \A i \in 0..(n + 1) : i < n + 1 => b[i + 1] = PlusRTT(b[i], r[i + 1])
               /\ FoldLeft(PlusRTT, 0, r) = b[n + 1]
  <2>1. n + 1 \in Nat
    OBVIOUS
  <2> QED
    BY <2>1, FoldPrefixes, Zenon
<1> DEFINE S == {i \in Nat : i <= n => a[i] = b[i]}
<1>4. 0 \in S
  BY <1>2, <1>3
<1>5. ASSUME NEW i \in Nat, i \in S PROVE i + 1 \in S
  <2> SUFFICES ASSUME i + 1 <= n PROVE a[i + 1] = b[i + 1]
    OBVIOUS
  <2>1. i \in 0..n /\ i < n /\ i \in 0..(n + 1) /\ i < n + 1 /\ i + 1 \in 1..n /\ i <= n
    OBVIOUS
  <2>2. a[i] = b[i]
    BY <1>5, <2>1
  <2> HIDE DEF S
  <2>3. a[i + 1] = PlusRTT(a[i], q[i + 1]) /\ b[i + 1] = PlusRTT(b[i], r[i + 1]) /\ r[i + 1] = q[i + 1]
    BY <1>2, <1>3, <2>1, Zenon
  <2> QED
    BY <2>2, <2>3, Zenon
<1>6. n \in S
  <2> HIDE DEF S
  <2>1. Nat \subseteq S
    BY <1>4, <1>5, SetInduction
  <2> QED
    BY <2>1
<1>7. a[n] = b[n]
  BY <1>6
<1>8. n \in 0..(n + 1) /\ n < n + 1
  OBVIOUS
<1>9. b[n + 1] = PlusRTT(b[n], r[n + 1])
  BY <1>3, <1>8, Zenon
<1> QED
  BY <1>2, <1>3, <1>7, <1>9, Zenon

\* For a log.
LEMMA SumAppend ==
  ASSUME NEW q \in Seq(MetricEvents), NEW e \in MetricEvents
  PROVE  FoldLeft(PlusRTT, 0, Append(q, e)) = PlusRTT(FoldLeft(PlusRTT, 0, q), e)
<1>1. /\ Len(q) \in Nat /\ DOMAIN q = 1..Len(q) /\ DOMAIN Append(q, e) = 1..(Len(q) + 1)
      /\ \A i \in 1..Len(q) : Append(q, e)[i] = q[i]
      /\ Append(q, e)[Len(q) + 1] = e
  OBVIOUS
<1>2. FoldLeft(PlusRTT, 0, Append(q, e)) = PlusRTT(FoldLeft(PlusRTT, 0, q), Append(q, e)[Len(q) + 1])
  BY <1>1, SumExtend, Zenon
<1> QED
  BY <1>1, <1>2, Zenon
-----------------------------------------------------------------------------
(* The RTT statistics of a window.                                         *)

Sampled(q) == {i \in DOMAIN q : q[i].RTT > 0}

\* m are the statistics of the samples in q.
Statistics(m, q) ==
  /\ RTTOK(m) /\ Mean(m, FoldLeft(PlusRTT, 0, q))
  /\ m.samples = Cardinality(Sampled(q))
  /\ \A i \in Sampled(q) : m.min <= q[i].RTT /\ q[i].RTT <= m.max
  /\ Sampled(q) # {} => /\ \E i \in Sampled(q) : q[i].RTT = m.min
                        /\ \E i \in Sampled(q) : q[i].RTT = m.max
                        /\ \E i \in Sampled(q) : /\ \A j \in Sampled(q) : j <= i
                                                 /\ q[i].RTT = m.current

\* A log has no more samples than events.
LEMMA SampledFacts ==
  ASSUME NEW q \in Seq(MetricEvents)
  PROVE  /\ IsFiniteSet(Sampled(q)) /\ Cardinality(Sampled(q)) \in Nat
         /\ Cardinality(Sampled(q)) <= Len(q)
         /\ \A i \in Sampled(q) : i \in 1..Len(q) /\ q[i].RTT \in Int /\ q[i].RTT > 0
<1>1. Len(q) \in Nat /\ DOMAIN q = 1..Len(q) /\ \A i \in 1..Len(q) : q[i] \in MetricEvents
  OBVIOUS
<1>2. IsFiniteSet(1..Len(q)) /\ Cardinality(1..Len(q)) = Len(q)
  <2>1. 1 \in Int /\ Len(q) \in Int
    BY <1>1
  <2>2. /\ IsFiniteSet(1..Len(q))
        /\ Cardinality(1..Len(q)) = IF 1 > Len(q) THEN 0 ELSE Len(q) - 1 + 1
    BY <2>1, FS_Interval, Zenon
  <2> QED
    BY <1>1, <2>2
<1>3. Sampled(q) \subseteq 1..Len(q)
  BY <1>1 DEF Sampled
<1>4. /\ IsFiniteSet(Sampled(q)) /\ Cardinality(Sampled(q)) <= Cardinality(1..Len(q))
  BY <1>2, <1>3, FS_Subset, Zenon
<1>5. Cardinality(Sampled(q)) \in Nat
  BY <1>4, FS_CardinalityType
<1>6. \A i \in Sampled(q) : i \in 1..Len(q) /\ q[i].RTT \in Int /\ q[i].RTT > 0
  BY <1>1, <1>3, EventFacts, Zenon DEF Sampled
<1> QED
  BY <1>2, <1>4, <1>5, <1>6

\* One more event, with or without a sample (rtt/reducer.go:3-16).
LEMMA StatisticsApplied ==
  ASSUME NEW m, NEW q \in Seq(MetricEvents), NEW e \in MetricEvents, Len(q) < MaxEvents,
         Statistics(m, q)
  PROVE  Statistics(ApplyRTT(m, e.RTT), Append(q, e))
<1> DEFINE new == ApplyRTT(m, e.RTT)
           r == Append(q, e)
           k == Len(q) + 1
           total == FoldLeft(PlusRTT, 0, q)
           S == Sampled(q)
           T == Sampled(r)
<1>1. /\ k \in Nat /\ DOMAIN q = 1..Len(q) /\ DOMAIN r = (1..Len(q)) \cup {k}
      /\ k \notin 1..Len(q) /\ \A i \in 1..Len(q) : i < k /\ i \in Int
      /\ \A i \in 1..Len(q) : r[i] = q[i]
      /\ r[k] = e
  OBVIOUS
<1>2. /\ IsFiniteSet(S) /\ Cardinality(S) \in Nat /\ Cardinality(S) <= Len(q)
      /\ \A i \in S : i \in 1..Len(q) /\ q[i].RTT \in Int /\ q[i].RTT > 0
  BY SampledFacts
<1>3. e.RTT \in Int /\ Len(q) \in Nat /\ MaxEvents \in Nat
  BY EventFacts, ScaleAssumption
<1>4. /\ RTTOK(m) /\ Mean(m, total) /\ m.samples = Cardinality(S) /\ total \in Int
      /\ \A i \in S : m.min <= q[i].RTT /\ q[i].RTT <= m.max
      /\ S # {} => /\ \E i \in S : q[i].RTT = m.min
                   /\ \E i \in S : q[i].RTT = m.max
                   /\ \E i \in S : (\A j \in S : j <= i) /\ q[i].RTT = m.current
  BY DEF Statistics, Mean
<1>5. m.samples < MaxEvents /\ m.samples \in Nat
  BY <1>2, <1>3, <1>4
<1>6. FoldLeft(PlusRTT, 0, r) = total + nonNegative(e.RTT)
  BY SumAppend DEF PlusRTT
<1>7. /\ RTTOK(new)
      /\ new.samples = IF e.RTT <= 0 THEN m.samples ELSE m.samples + 1
      /\ e.RTT > 0 => /\ Mean(new, total + e.RTT)
                      /\ new.current = e.RTT
                      /\ new.min = IF m.samples = 0 \/ e.RTT < m.min THEN e.RTT ELSE m.min
                      /\ new.max = IF e.RTT > m.max THEN e.RTT ELSE m.max
  <2>1. /\ RTTOK(new)
        /\ new.samples = IF e.RTT <= 0 THEN m.samples ELSE m.samples + 1
        /\ \A sum : e.RTT > 0 /\ Mean(m, sum) => Mean(new, sum + e.RTT)
        /\ e.RTT > 0 => /\ new.current = e.RTT
                        /\ new.min = IF m.samples = 0 \/ e.RTT < m.min THEN e.RTT ELSE m.min
                        /\ new.max = IF e.RTT > m.max THEN e.RTT ELSE m.max
    BY <1>3, <1>4, <1>5, RTTApplied, Zenon
  <2> HIDE DEF new, total
  <2> QED
    BY <1>4, <2>1, Zenon
<1>8. e.RTT <= 0 => new = m
  BY DEF ApplyRTT
<1>9. T = IF e.RTT > 0 THEN S \cup {k} ELSE S
  BY <1>1 DEF Sampled
<1>10. m.min \in Nat /\ m.max \in Nat /\ (m.samples = 0 => m.max = 0)
  BY <1>4 DEF RTTOK, NoRTT
<1> HIDE DEF new, r, k, total, S, T
<1>11. CASE e.RTT <= 0
  <2>1. T = S /\ new = m /\ FoldLeft(PlusRTT, 0, r) = total
    BY <1>3, <1>4, <1>6, <1>8, <1>9, <1>11 DEF nonNegative
  <2>2. \A i \in S : r[i] = q[i]
    BY <1>1, <1>2
  <2>3. Statistics(m, r)
    BY <1>4, <2>1, <2>2 DEF Statistics, T
  <2> QED
    BY <2>1, <2>3 DEF new, r
<1>12. CASE e.RTT > 0
  <2>1. /\ T = S \cup {k} /\ ~(e.RTT <= 0) /\ k \notin S
        /\ FoldLeft(PlusRTT, 0, r) = total + e.RTT /\ r[k].RTT = e.RTT
    BY <1>1, <1>2, <1>3, <1>6, <1>9, <1>12, SMTT(30) DEF nonNegative
  <2>2. \A i \in S : r[i] = q[i] /\ i <= k
    BY <1>1, <1>2
  <2>3. new.samples = Cardinality(T)
    <3>1. Cardinality(S \cup {k}) = Cardinality(S) + 1
      BY <1>2, <2>1, FS_AddElement, Zenon
    <3> QED
      BY <1>4, <1>7, <2>1, <3>1
  <2>4. CASE S = {}
    <3>1. m.samples = 0
      BY <1>4, <2>4, FS_EmptySet
    <3>2. new.min = e.RTT /\ new.max = e.RTT /\ new.current = e.RTT
      BY <1>3, <1>7, <1>10, <1>12, <3>1
    <3>3. T = {k}
      BY <2>1, <2>4
    <3>4. \A i \in T : new.min <= r[i].RTT /\ r[i].RTT <= new.max
      BY <1>3, <2>1, <3>2, <3>3
    <3>5. k \in T /\ r[k].RTT = new.min /\ r[k].RTT = new.max /\ r[k].RTT = new.current
      BY <2>1, <3>2, <3>3
    <3>6. \A j \in T : j <= k
      BY <1>1, <3>3
    <3>7. RTTOK(new) /\ Mean(new, FoldLeft(PlusRTT, 0, r))
      BY <1>7, <1>12, <2>1
    <3> QED
      BY <2>3, <3>4, <3>5, <3>6, <3>7, Zenon DEF Statistics, T, new, r
  <2>5. CASE S # {}
    <3>1. m.samples # 0
      BY <1>2, <1>4, <2>5, FS_EmptySet
    <3>2. /\ new.min = (IF e.RTT < m.min THEN e.RTT ELSE m.min)
          /\ new.max = (IF e.RTT > m.max THEN e.RTT ELSE m.max)
          /\ new.current = e.RTT
      BY <1>7, <1>12, <3>1
    <3>3. ASSUME NEW i \in T PROVE new.min <= r[i].RTT /\ r[i].RTT <= new.max
      <4>1. CASE i = k
        BY <1>3, <1>10, <2>1, <3>2, <4>1, SMTT(30)
      <4>2. CASE i \in S
        <5>1. r[i].RTT = q[i].RTT /\ q[i].RTT \in Int /\ m.min <= q[i].RTT /\ q[i].RTT <= m.max
          BY <1>2, <1>4, <2>2, <4>2, SMTT(30)
        <5> QED
          BY <1>3, <1>10, <3>2, <5>1
      <4> QED
        BY <2>1, <3>3, <4>1, <4>2, SMTT(30)
    <3>4. \E i \in T : r[i].RTT = new.min
      BY <1>4, <2>1, <2>2, <2>5, <3>2, SMTT(30)
    <3>5. \E i \in T : r[i].RTT = new.max
      BY <1>4, <2>1, <2>2, <2>5, <3>2, SMTT(30)
    <3>6. \E i \in T : (\A j \in T : j <= i) /\ r[i].RTT = new.current
      <4>1. \A j \in T : j <= k
        BY <1>1, <2>1, <2>2
      <4> QED
        BY <2>1, <3>2, <4>1
    <3>7. RTTOK(new) /\ Mean(new, FoldLeft(PlusRTT, 0, r))
      BY <1>7, <1>12, <2>1
    <3> QED
      BY <2>3, <3>3, <3>4, <3>5, <3>6, <3>7, Zenon DEF Statistics, T, new, r
  <2> QED
    BY <2>4, <2>5
<1> QED
  BY <1>3, <1>11, <1>12
\* What Min takes from a set of numbers with a least element.
LEMMA MinIs ==
  ASSUME NEW v \in SUBSET Int, NEW x \in v, \A y \in v : x <= y
  PROVE  Min(v) = x
<1>1. Min(v) \in v /\ \A y \in v : Min(v) <= y
  BY Zenon DEF Min
<1>2. Min(v) \in Int /\ x \in Int /\ Min(v) <= x /\ x <= Min(v)
  BY <1>1, Zenon
<1> QED
  BY <1>2

\* What Max takes from a set of numbers with a greatest element.
LEMMA MaxIs ==
  ASSUME NEW v \in SUBSET Int, NEW x \in v, \A y \in v : y <= x
  PROVE  Max(v) = x
<1>1. \A y \in v : x >= y
  OBVIOUS
<1>2. Max(v) \in v /\ \A y \in v : Max(v) >= y
  BY <1>1, Zenon DEF Max
<1>3. Max(v) \in Int /\ x \in Int /\ Max(v) >= x /\ Max(v) <= x
  BY <1>2, Zenon
<1> QED
  BY <1>3

StatisticsInv ==
  /\ log \in Seq(MetricEvents) /\ Len(log) <= MaxEvents
  /\ Statistics(whole.RTT, log)

\* The statistics are the reference's.
LEMMA StatisticsMeanReference == StatisticsInv => RTTIsReference
<1> SUFFICES ASSUME StatisticsInv PROVE RTTIsReference
  OBVIOUS
<1> DEFINE S == Sampled(log)
           values == {log[i].RTT : i \in S}
           m == whole.RTT
<1>1. /\ IsFiniteSet(S) /\ \A i \in S : i \in 1..Len(log) /\ log[i].RTT \in Int
  BY SampledFacts DEF StatisticsInv
<1>2. /\ RTTOK(m) /\ Mean(m, FoldLeft(PlusRTT, 0, log)) /\ m.samples = Cardinality(S)
      /\ \A i \in S : m.min <= log[i].RTT /\ log[i].RTT <= m.max
      /\ S # {} => /\ \E i \in S : log[i].RTT = m.min
                   /\ \E i \in S : log[i].RTT = m.max
                   /\ \E i \in S : (\A j \in S : j <= i) /\ log[i].RTT = m.current
  BY DEF StatisticsInv, Statistics
<1>3. values \in SUBSET Int
  BY <1>1
<1> HIDE DEF S, m
<1>4. CASE S = {}
  <2>1. m = NoRTT
    BY <1>2, <1>4, FS_EmptySet DEF RTTOK
  <2> QED
    BY <1>4, <2>1 DEF RTTIsReference, S, Sampled, m
<1>5. CASE S # {}
  <2>1. Min(values) = m.min
    <3>1. m.min \in values /\ \A y \in values : m.min <= y
      BY <1>2, <1>5
    <3> HIDE DEF values
    <3> QED
      BY <1>3, <3>1, MinIs, Zenon
  <2>2. Max(values) = m.max
    <3>1. m.max \in values /\ \A y \in values : y <= m.max
      BY <1>2, <1>5
    <3> HIDE DEF values
    <3> QED
      BY <1>3, <3>1, MaxIs, Zenon
  <2>3. log[Max(S)].RTT = m.current
    <3>1. PICK i \in S : (\A j \in S : j <= i) /\ log[i].RTT = m.current
      BY <1>2, <1>5, Zenon
    <3>2. S \in SUBSET Int
      BY <1>1
    <3>3. Max(S) = i
      BY <3>1, <3>2, MaxIs
    <3> QED
      BY <3>1, <3>3
  <2>4. m.samples = Cardinality(S) /\ m.avg * m.samples = Scale * FoldLeft(PlusRTT, 0, log)
    BY <1>2 DEF Mean
  <2>5. m.avg * Cardinality(S) = Scale * FoldLeft(PlusRTT, 0, log)
    BY <2>4, Zenon
  <2> QED
    BY <1>5, <2>1, <2>2, <2>3, <2>4, <2>5, Zenon DEF RTTIsReference, S, Sampled, m
<1> QED
  BY <1>4, <1>5

\* An event goes to the whole window and to the log.
LEMMA NextStatistics == StatisticsInv /\ [Next]_vars => StatisticsInv'
<1> SUFFICES ASSUME StatisticsInv, [Next]_vars PROVE StatisticsInv'
  OBVIOUS
<1>1. CASE log' = log /\ whole' = whole
  BY <1>1, Zenon DEF StatisticsInv, Statistics, Sampled, RTTOK, Mean
<1>2. ASSUME NEW e \in MetricEvents, Len(log) < MaxEvents, log' = Append(log, e), whole' = Apply(whole, e)
      PROVE  StatisticsInv'
  <2>1. log \in Seq(MetricEvents) /\ Statistics(whole.RTT, log)
    BY DEF StatisticsInv
  <2>2. whole'.RTT = ApplyRTT(whole.RTT, e.RTT)
    BY <1>2 DEF Apply
  <2>3. Statistics(ApplyRTT(whole.RTT, e.RTT), Append(log, e))
    BY <1>2, <2>1, StatisticsApplied
  <2>4. log' \in Seq(MetricEvents) /\ Len(log') <= MaxEvents
    BY <1>2, <2>1, ScaleAssumption
  <2>5. Statistics(whole'.RTT, log')
    BY <1>2, <2>2, <2>3, Zenon
  <2> QED
    BY <2>4, <2>5 DEF StatisticsInv
<1> QED
  BY <1>1, <1>2 DEF Next, AddFirst, AddSecond, vars

\* The incremental RTT statistics of a window are those of its samples, for any events
\* (rtt/reducer.go:3-16): the running mean, the extremes and the last sample.
THEOREM RTTStatistics == Spec => []RTTIsReference
<1>1. Init => StatisticsInv
  <2> SUFFICES ASSUME Init PROVE StatisticsInv
    OBVIOUS
  <2>1. log = <<>> /\ whole.RTT = NoRTT
    BY DEF Init, Empty
  <2>2. Sampled(<<>>) = {}
    BY DEF Sampled
  <2>3. FoldLeft(PlusRTT, 0, <<>>) = 0
    <3>1. 0 \in Nat /\ DOMAIN <<>> = 1..0
      OBVIOUS
    <3> QED
      BY <3>1, FoldPrefixes, Zenon
  <2>4. RTTOK(NoRTT) /\ Mean(NoRTT, 0) /\ NoRTT.samples = 0
    BY ScaleAssumption DEF RTTOK, Mean, NoRTT
  <2>5. Cardinality({}) = 0
    BY FS_EmptySet
  <2>6. Statistics(NoRTT, <<>>)
    BY <2>2, <2>3, <2>4, <2>5 DEF Statistics
  <2> QED
    BY <2>1, <2>6, ScaleAssumption DEF StatisticsInv
<1> QED
  BY <1>1, NextStatistics, StatisticsMeanReference, PTL DEF Spec
=============================================================================
