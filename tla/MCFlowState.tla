---------------------------- MODULE MCFlowState ----------------------------
(***************************************************************************)
(* Instances of FlowState for TLC: the kinds of event the collectors emit. *)
(***************************************************************************)
EXTENDS FlowState

Metric(port, bytes, conns, errors, rtt, delay, status, seen) ==
  [SrcPort |-> port, Bytes |-> bytes, Packets |-> 1, Connections |-> conns, Requests |-> 0,
   Errors |-> errors, Retransmissions |-> IF rtt > 5 THEN 1 ELSE 0, RTT |-> rtt,
   AppDelay |-> delay, HTTPStatus |-> status, FirstSeen |-> seen, LastSeen |-> seen]

\* A connection attempt, a reset, responses with a status line, RTT samples of
\* different sizes, and a packet without anything special.
MCMetricEvents ==
  { Metric(40001, 60, 1, 0, 0, 0, 0, 2),
    Metric(40002, 40, 0, 1, 0, 0, 0, 3),
    Metric(40001, 500, 0, 0, 0, 3, 200, 4),
    Metric(40001, 300, 0, 0, 0, 1, 503, 1),
    Metric(0, 0, 0, 0, 4, 0, 0, 2),
    Metric(40003, 0, 0, 0, 9, 2, 0, 3),
    Metric(40001, 1400, 0, 0, 1, 0, 0, 5) }
=============================================================================
