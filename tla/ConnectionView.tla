--------------------------- MODULE ConnectionView ---------------------------
(***************************************************************************)
(* The connection list (src/backend/internal/service/                      *)
(* connection_state_service.go), without a filter, as a function of the    *)
(* tables of Probing.                                                      *)
(* A connection is a source, a destination and a port.  A VM has one       *)
(* address here, so the observed rows of a connection form one group and   *)
(* there is at most one probe row.                                         *)
(***************************************************************************)
EXTENDS Probing

\* connectionStateKey
Key(src, dst, port) == [src |-> src, dst |-> dst, port |-> port]

\* listObserved: rows of the window whose two VMs are registered.
listObserved == {f \in flows : f.age <= Window /\ {f.src, f.dst} \subseteq vms}

\* Faulty query: the destination need not be registered.
listProbes_NoJoin == {p \in probes : p.age <= Window}

\* listProbes
listProbes == {p \in probes : p.age <= Window /\ p.dst \in vms}

Observed(k) == {f \in listObserved : Key(f.src, f.dst, f.dport) = k}
Probed(k)   == {p \in listProbes : Key(p.src, p.dst, p.port) = k}

\* listIntents and listConfigurations, for connection k.
Intent(k) == IF Key(declared.src, declared.dst, declared.port) = k THEN declared.intent ELSE NULL
Config(k) == IF Key(declared.src, declared.dst, declared.port) = k THEN declared.config ELSE NULL

\* The keys of the views List builds.
Views ==
  {Key(f.src, f.dst, f.dport) : f \in listObserved} \cup {Key(p.src, p.dst, p.port) : p \in listProbes}
    \cup {k \in {Key(declared.src, declared.dst, declared.port)} : Intent(k) # NULL \/ Config(k) # NULL}

\* Faulty evidence: only the last traffic counts, not a failed probe.
Failed_TrafficOnly(k) == \E f \in Observed(k) : f.err

\* Failed or ErrorCount > 0: a failed probe, or an error ever counted in an observed row.
Failed(k) == (\E f \in Observed(k) : f.err) \/ (\E p \in Probed(k) : ~p.ok)

\* Reachable, Active or RequestCount > 0.
Live(k) == (\E p \in Probed(k) : p.ok) \/ (\E f \in Observed(k) : f.age = Active \/ f.req)

\* HealthState as finalizeConnectionView leaves it: later assignments win.
Health(k) ==
  IF Config(k) \in {"denied", "blocked"} \/ Intent(k) = "blocked" THEN "blocked"
  ELSE IF \E p \in Probed(k) : p.slow THEN "degraded"
  ELSE IF Failed(k) THEN "failed"
  ELSE IF Live(k) THEN "healthy"
  ELSE IF Observed(k) \cup Probed(k) # {} \/ Intent(k) # NULL THEN "inactive"
  ELSE "unknown"
=============================================================================
