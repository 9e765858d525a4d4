------------------------------- MODULE Views -------------------------------
(***************************************************************************)
(* The two views of the dashboard over the same tables: what the topology  *)
(* graph and the connection list show of a VM pair while VMs come and go,  *)
(* talk and are probed.                                                    *)
(***************************************************************************)
EXTENDS ConnectionView, GraphView

\* A traffic edge between two VMs follows a conversation with the source as client,
\* whichever of the two agents reported it; the probes' own connections are never shown
\* as traffic (Ingest, normalizeGraphRow, hideFlow, IgnoredPorts, IGNORE_PORTS).
EdgesFollowConversations ==
  \A e \in TrafficEdges("any") :
    e.source[1] = "vm" /\ e.target[1] = "vm" =>
      \E x \in traffic : x.app /\ x.client = e.source[2] /\ x.server = e.target[2]

\* A probe that failed within the active window makes the edge of its pair failed, and
\* the edge then names the port of a failed probe, although a probe of another port may
\* have succeeded since.
FailureIsShown ==
  \A p \in ProbeRows("any") : ~p.ok /\ p.age = Active =>
    \A e \in ReachabilityEdges("any", <<p.src, p.dst>>) :
      /\ e.failed
      /\ \E q \in ProbeRows("any") : <<q.src, q.dst, q.port>> = <<p.src, p.dst, e.port>> /\ ~q.ok

\* The two views agree: what the graph shows as failed the connection list does not
\* show as healthy, inactive or unknown.
FailedEdgeIsUnhealthy ==
  \A pair \in ReachabilityPairs("any") : \A e \in ReachabilityEdges("any", pair) :
    e.failed => Health(Key(pair[1], pair[2], e.port)) \in {"failed", "degraded", "blocked"}

\* With a requested status the graph has no VM of another status, neither by itself
\* nor as the end of an old flow or probe ("A historical flow must not resurrect a
\* registered VM that is absent").
RequestedStatusOnly ==
  \A status \in {"online", "offline"} : \A v \in Nodes(status) : v \in vms /\ Status(v) = status

\* A deleted VM leaves nothing behind in the views: no connection or edge names it, and
\* a probe result that arrives late is not shown for it.
NothingOfTheDeleted ==
  /\ \A k \in Views : {k.src, k.dst} \subseteq vms
  /\ Nodes("any") \subseteq vms

\* orbit-critical-probing.md: slow is a "successful RTT ... above threshold"; a
\* connection is shown as degraded only if its probe succeeded.
SlowMeansReachable ==
  \A k \in Views : Health(k) = "degraded" => \E p \in Probed(k) : p.ok
=============================================================================
