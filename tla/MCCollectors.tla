---------------------------- MODULE MCCollectors ----------------------------
(***************************************************************************)
(* Instances of Collectors for TLC: what happens in a life of the agent.   *)
(***************************************************************************)
EXTENDS Collectors

\* A single thread.
One == {CHOOSE t \in Threads : TRUE}

\* Two threads on one socket; one thread that sends and receives; errors; a signal;
\* an error and a signal.
MCWorkloads == {
  [threads |-> Threads, calls |-> 3, optional |-> tcpMetricAttachments, icmp |-> 0, errors |-> 0, signal |-> FALSE],
  [threads |-> One, calls |-> 3, optional |-> tcpMetricAttachments, icmp |-> 0, errors |-> 0, signal |-> FALSE],
  [threads |-> One, calls |-> 2, optional |-> {}, icmp |-> 1, errors |-> 1, signal |-> FALSE],
  [threads |-> One, calls |-> 2, optional |-> {}, icmp |-> 1, errors |-> 0, signal |-> TRUE],
  [threads |-> One, calls |-> 1, optional |-> {}, icmp |-> 0, errors |-> 1, signal |-> TRUE]}
=============================================================================
