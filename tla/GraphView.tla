------------------------------ MODULE GraphView ------------------------------
(***************************************************************************)
(* The topology graph (Get in src/backend/internal/service/                *)
(* graph_service.go, with visibility.go) as a function of the tables of    *)
(* Probing, for a requested status ("any" where the request leaves it      *)
(* empty) and no other filter.  The three queries of Get are taken at one  *)
(* moment.  Of an edge its ends, its scope and, for reachability, its      *)
(* state are kept.                                                         *)
(***************************************************************************)
EXTENDS Probing, SequencesExt

CONSTANT ExcludedPorts    \* GRAPH_EXCLUDED_PORTS

Status(v) == IF v = NULL THEN NULL ELSE IF seen[v] = 0 THEN "online" ELSE "offline"

\* The nodes of registered VMs: visibleVM.
VisibleVMs(status) == {v \in vms : status = "any" \/ Status(v) = status}

Requested(status, src, dst) == status = "any" \/ status \in {Status(src), Status(dst)}

\* The flow query.
FlowRows(status) == {f \in flows : f.age <= Window /\ Requested(status, f.src, f.dst)}

isEphemeralPort(port) == port >= 32768

preferredGraphPort(current, next) ==
  IF current = 0 \/ (isEphemeralPort(current) /\ ~isEphemeralPort(next)) THEN next ELSE current

\* shouldFlipServiceResponse and normalizeGraphRow: what a server reports of a connection
\* is turned into the client's direction.
normalizeGraphRow(f) ==
  IF isEphemeralPort(f.sport) \/ ~isEphemeralPort(f.dport) THEN f
  ELSE [f EXCEPT !.src = f.dst, !.dst = f.src, !.sip = f.ip, !.ip = f.sip,
                 !.sport = f.dport, !.dport = f.sport]

\* hideFlow
Hidden(f) == {f.sport, f.dport} \cap (ExcludedPorts \cup IgnoredPorts) # {}

\* Faulty filter: an invisible VM is shown again by its flows.
MayShow_Anything(v, status) == TRUE

\* A registered VM that is not visible is not shown because of a flow or probe.
MayShow(v, status) == v \in vms => v \in VisibleVMs(status)

\* The rows that become traffic edges, with the ids of their nodes.
TrafficEdges(status) ==
  {[source |-> IF f.src # NULL THEN <<"vm", f.src>> ELSE <<"unknown_source", f.sip>>,
    target |-> IF f.dst # NULL THEN <<"vm", f.dst>> ELSE <<f.scope, f.ip>>,
    scope  |-> f.scope] :
   f \in {g \in {normalizeGraphRow(h) : h \in FlowRows(status)} :
            /\ ~Hidden(g) /\ g.sip # g.ip
            /\ MayShow(g.src, status) /\ MayShow(g.dst, status)}}

\* connectionProbeRows, the probe rows that become part of a reachability edge.
ProbeRows(status) ==
  {p \in probes : /\ p.age <= TTL /\ p.dst \in vms /\ Requested(status, p.src, p.dst)
                  /\ MayShow(p.src, status) /\ MayShow(p.dst, status)}

\* The order of the query, newest first; rows of one class come in any order.
Orders(rows) == {q \in SetToSeqs(rows) : \A i, j \in DOMAIN q : i < j => q[i].age <= q[j].age}

\* Faulty fold: a success takes an earlier failure back.
ReachabilityStep_Clears(edge, p) ==
  [edge EXCEPT !.failed = ~p.ok, !.errAge = IF p.ok THEN Old ELSE p.age]

\* One probe row is folded into the edge of its pair.
ReachabilityStep(edge, p) ==
  [edge EXCEPT
     !.port      = IF ~p.ok THEN p.port
                   ELSE IF edge.failed THEN @ ELSE preferredGraphPort(@, p.port),
     !.reachable = @ \/ p.ok,
     !.failed    = @ \/ ~p.ok,
     !.errAge    = IF ~p.ok /\ p.age < @ THEN p.age ELSE @]

\* The reachability edge of the rows q of one pair, with setEdgeActivity.
ReachabilityEdge(q) ==
  LET edge == FoldLeft(ReachabilityStep,
                       [port |-> 0, reachable |-> FALSE, failed |-> FALSE, errAge |-> Old], q)
  IN  [edge EXCEPT !.failed = edge.errAge = Active]

\* The pairs with a reachability edge, and the forms the edge can take.
ReachabilityPairs(status) == {<<p.src, p.dst>> : p \in ProbeRows(status)}
ReachabilityEdges(status, pair) ==
  {ReachabilityEdge(q) : q \in Orders({p \in ProbeRows(status) : <<p.src, p.dst>> = pair})}

\* VM nodes: visible VMs, and those the edges brought in.
Nodes(status) ==
  VisibleVMs(status)
    \cup {n[2] : n \in {m \in UNION {{e.source, e.target} : e \in TrafficEdges(status)} : m[1] = "vm"}}
    \cup UNION {{p.src, p.dst} : p \in ProbeRows(status)}
=============================================================================
