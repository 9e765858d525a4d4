--------------------------- MODULE MCFlowPipeline ---------------------------
(***************************************************************************)
(* Instances of FlowPipeline for TLC.  Two events share a flow key (their  *)
(* source ports differ, which is not part of the key), one is on another   *)
(* key, one is the agent's own traffic to the backend.                     *)
(***************************************************************************)
EXTENDS FlowPipeline

Metric(src, dst, sport, dport, dir) ==
  [SrcIP |-> src, DstIP |-> dst, SrcPort |-> sport, DstPort |-> dport, Protocol |-> "tcp",
   Direction |-> dir, Interface |-> "eth0"]

e1 == Metric("vm1", "vm2", 40001, 443, "egress")
e2 == Metric("vm1", "vm2", 40002, 443, "egress")
e3 == Metric("vm1", "vm3", 40003, 80, "egress")
e4 == Metric("vm1", "backend", 40004, 8080, "egress")

MCEvents == {e1, e2, e3, e4}

\* Three events are the least with which two keys are merged back while the channel
\* is full; own traffic is looked at beside one other event.
MCCaptures == {{e1, e2, e3}, {e1, e4}}

MCControlPlane == {"backend"}
MCIgnorePorts == {18081}
MCAllowCIDRs == {}
MCDenyCIDRs == {"vm9"}
MCLocalOnly == {"127.0.0.1"}
=============================================================================
