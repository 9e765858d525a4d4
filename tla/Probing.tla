------------------------------ MODULE Probing ------------------------------
(***************************************************************************)
(* Connectivity probing and the tables the dashboard's views are built     *)
(* from: the agent's probe loop (src/agent/internal/probe/probe.go),       *)
(* Targets and RecordProbe (connection_service.go), the probe ports of the *)
(* VM inventory (vm_inventory.go), and as much of registration, ingestion  *)
(* and the reaper as changes flows, probes and VMs                         *)
(* (src/backend/internal/service, migrations 001 and 007).                 *)
(*                                                                         *)
(* A VM stands for its agent and its address.  Time is the age of a row,   *)
(* in classes: within FLOW_ACTIVE_WINDOW, within connectionProbeGraphTTL,  *)
(* within the windows of the views and of Targets, and older.  A silent VM *)
(* expires in the third class: VM_DELETE_AFTER exceeds five minutes.       *)
(***************************************************************************)
EXTENDS Naturals, FiniteSets, Sequences

CONSTANTS
  VMs, NULL,
  Probers,          \* VMs whose agent probes (CONNECTIVITY_PROBE_ENABLED)
  Conversations,    \* <<client, server>>: pairs that exchange application traffic
  AgentIgnorePorts, \* IGNORE_PORTS of the agents
  Workloads         \* bounds, one record for a behaviour: VMs that may stop, inventories (VM ->
                    \* its probe_port, 0 without one), what may be declared of a connection,
                    \* the kinds of flows ("plain", "request", "error"), and the number of
                    \* registrations, flows and probes recorded

VARIABLES
  load,        \* the workload of this behaviour
  alive,       \* VMs that run
  vms,         \* registered VMs: rows of vms and agents
  seen,        \* VM -> age of its last_seen
  inventory,   \* the inventory the backend was started with
  declared,    \* rows of connection_intents and connection_configurations
  traffic,     \* TCP conversations that took place, [client, server, port, app]
  flows,       \* rows of network_flows
  todo,        \* prober -> targets of this round still to be probed
  result,      \* prober -> result not yet delivered, or NULL
  probes,      \* rows of connection_probes
  work         \* registrations, flows and probes recorded so far

vars == <<load, alive, vms, seen, inventory, declared, traffic, flows, todo, result, probes, work>>

Active == 0
TTL    == 1
Window == 2
Old    == 3

probeDefaultPort == 18081
AppPort          == 443
EphemeralPort    == 40000

\* Conversations are between VMs, an inventory gives every VM a port or 0, and the agents
\* ignore the port they listen on for probes (IGNORE_PORTS and its defaults).
ASSUME ProbingAssumption ==
  /\ NULL \notin VMs /\ Probers \subseteq VMs
  /\ Conversations \subseteq VMs \X VMs
  /\ probeDefaultPort \in AgentIgnorePorts
  /\ \A w \in Workloads : w.inventories \subseteq [VMs -> Nat]

Nothing == [src |-> NULL, dst |-> NULL, port |-> 0, intent |-> NULL, config |-> NULL]

\* Every VM runs and is registered.
Init ==
  /\ alive = VMs /\ vms = VMs
  /\ seen = [v \in VMs |-> 0]
  /\ load \in Workloads
  /\ inventory \in load.inventories
  /\ declared = Nothing
  /\ traffic = {[client |-> c[1], server |-> c[2], port |-> AppPort, app |-> TRUE] : c \in Conversations}
  /\ flows = {} /\ probes = {}
  /\ todo = [v \in Probers |-> {}]
  /\ result = [v \in Probers |-> NULL]
  /\ work = 0

-----------------------------------------------------------------------------
(* Machines, registration, reaper.                                         *)

\* Register: the VM's row exists, and unresolved flows to its address point to it
\* (resolveUnknownHost).
Register(v) ==
  /\ v \notin alive \/ v \notin vms
  /\ work < load.work /\ work' = work + 1
  /\ alive' = alive \cup {v}
  /\ vms' = vms \cup {v}
  /\ seen' = [seen EXCEPT ![v] = 0]
  /\ flows' = {IF f.src # NULL /\ f.dst = NULL /\ f.ip = v
               THEN [f EXCEPT !.dst = v, !.scope = "internal"] ELSE f : f \in flows}
  /\ UNCHANGED <<load, inventory, declared, traffic, todo, result, probes>>

\* The machine stops; what it has sent may still be handled.
Die(v) ==
  /\ v \in alive \cap load.mortal
  /\ alive' = alive \ {v}
  /\ todo' = [p \in Probers |-> IF p = v THEN {} ELSE todo[p]]
  /\ UNCHANGED <<load, vms, seen, inventory, declared, traffic, flows, result, probes, work>>

\* Time passes; a running agent's heartbeats keep its row fresh.
Tick ==
  LET Older(rows) == {[r EXCEPT !.age = IF @ < Old THEN @ + 1 ELSE Old] : r \in rows} IN
  /\ seen' = [v \in VMs |-> IF v \in alive THEN 0 ELSE IF seen[v] < Old THEN seen[v] + 1 ELSE Old]
  /\ flows' = Older(flows)
  /\ probes' = Older(probes)
  /\ UNCHANGED <<load, alive, vms, inventory, declared, traffic, todo, result, work>>

Expired == {v \in vms : seen[v] >= Window}

\* Faulty schema: the reference to a deleted VM stays.
SetNull_Keeps(v, gone) == v

\* What a foreign key declared ON DELETE SET NULL makes of a reference to a VM.
SetNull(v, gone) == IF v \in gone THEN NULL ELSE v

\* connection_probes: rows of a deleted source go (CASCADE), a deleted destination is
\* set to NULL.
ProbesAfter(gone) == {[p EXCEPT !.dst = SetNull(@, gone)] : p \in {q \in probes : q.src \notin gone}}

ProbeKey(p) == <<p.src, p.dst, p.ip, p.port>>

\* uq_connection_probes_pair, NULLS NOT DISTINCT.
Unique(rows) == \A p, q \in rows : ProbeKey(p) = ProbeKey(q) => p = q

\* DeleteExpired: all expired VMs with everything that refers to them, or nothing when
\* a foreign key action violates the unique index and the transaction fails.
DeleteExpired ==
  /\ Expired # {}
  /\ Cardinality({p \in probes : p.src \notin Expired}) = Cardinality(ProbesAfter(Expired))
  /\ Unique(ProbesAfter(Expired))
  /\ vms' = vms \ Expired
  /\ probes' = ProbesAfter(Expired)
  /\ flows' = {[f EXCEPT !.src = SetNull(@, Expired), !.dst = SetNull(@, Expired)] : f \in flows}
  /\ declared' = IF {declared.src, declared.dst} \cap Expired = {} THEN declared ELSE Nothing
  /\ UNCHANGED <<load, alive, seen, inventory, traffic, todo, result, work>>

\* An operator declares an intent or a configuration between two registered VMs.
Declare(d) ==
  /\ {d.src, d.dst} \subseteq vms
  /\ declared' = d
  /\ UNCHANGED <<load, alive, vms, seen, inventory, traffic, flows, todo, result, probes, work>>

-----------------------------------------------------------------------------
(* Inventory.                                                              *)

ProbeForIP(v) == IF inventory[v] > 0 THEN inventory[v] ELSE probeDefaultPort

\* Faulty visibility: the probe ports are not among the ignored ones.
IgnoredPorts_NoProbes == {}

\* The ports the backend adds to GRAPH_EXCLUDED_PORTS at its start.
IgnoredPorts == {inventory[v] : v \in VMs} \ {0}

\* The backend is started again with an inventory that has more entries.
Restart(inv) ==
  /\ \A v \in VMs : inventory[v] # 0 => inv[v] = inventory[v]
  /\ inv # inventory
  /\ inventory' = inv
  /\ UNCHANGED <<load, alive, vms, seen, declared, traffic, flows, todo, result, probes, work>>

-----------------------------------------------------------------------------
(* Traffic and ingestion.                                                  *)

\* Ingest of what the agent of v saw of x, unless its ports are ignored: the source is
\* always the reporting VM, the destination is resolved by address.  Errors and requests
\* are counted for ever in the row of source, destination, addresses, port and scope.
Ingest(v, x, kind) ==
  LET client == v = x.client
      ip  == IF client THEN x.server ELSE x.client
      row == [src |-> v, dst |-> IF ip \in vms THEN ip ELSE NULL, sip |-> v, ip |-> ip,
              sport |-> IF client THEN EphemeralPort ELSE x.port,
              dport |-> IF client THEN x.port ELSE EphemeralPort,
              scope |-> IF ip \in vms THEN "internal" ELSE "unregistered",
              err |-> kind = "error", req |-> kind = "request", age |-> Active]
      old == {f \in flows : <<f.src, f.dst, f.ip, f.dport, f.scope>> =
                            <<row.src, row.dst, row.ip, row.dport, row.scope>>}
  IN
  /\ v \in {x.client, x.server} /\ v \in alive \cap vms
  /\ x.port \notin AgentIgnorePorts
  /\ work < load.work /\ work' = work + 1
  /\ \/ old = {} /\ flows' = flows \cup {row}
     \/ \E f \in old : flows' = (flows \ {f}) \cup
          {[f EXCEPT !.age = Active, !.err = @ \/ row.err, !.req = @ \/ row.req]}
  /\ seen' = [seen EXCEPT ![v] = 0]
  /\ UNCHANGED <<load, alive, vms, inventory, declared, traffic, todo, result, probes>>

-----------------------------------------------------------------------------
(* Probing.                                                                *)

\* The VMs that share an internal flow with v in the history window.
Targets(v) ==
  {[ip |-> p, port |-> ProbeForIP(p)] :
     p \in {q \in vms \ {v} : \E f \in flows : f.age <= Window /\ {f.src, f.dst} = {v, q}}}

\* probeTargets: a round starts with the targets the backend names ...
FetchTargets(v) ==
  /\ v \in alive \cap vms /\ todo[v] = {} /\ result[v] = NULL
  /\ todo' = [todo EXCEPT ![v] = Targets(v)]
  /\ UNCHANGED <<load, alive, vms, seen, inventory, declared, traffic, flows, result, probes, work>>

\* ... which are probed one after the other.  The connection succeeds, is refused, or
\* times out; rtt_ms is the time it took in each case.
ProbeTarget(v, t, ok, slow) ==
  /\ v \in alive /\ t \in todo[v] /\ result[v] = NULL
  /\ ok => t.ip \in alive
  /\ todo' = [todo EXCEPT ![v] = @ \ {t}]
  /\ result' = [result EXCEPT ![v] = [ip |-> t.ip, port |-> t.port, ok |-> ok, slow |-> slow]]
  /\ traffic' = traffic \cup {[client |-> v, server |-> t.ip, port |-> t.port, app |-> FALSE]}
  /\ UNCHANGED <<load, alive, vms, seen, inventory, declared, flows, probes, work>>

\* RecordProbe: the target is resolved when the result arrives, the row of this source,
\* target, address and port replaced; the prober's own row is touched.
RecordProbe(v) ==
  LET r == result[v]
      row == [src |-> v, dst |-> IF r.ip \in vms THEN r.ip ELSE NULL, ip |-> r.ip, port |-> r.port,
              ok |-> r.ok, slow |-> r.slow, age |-> Active]
  IN
  /\ r # NULL /\ v \in vms
  /\ work < load.work /\ work' = work + 1
  /\ probes' = {p \in probes : ProbeKey(p) # ProbeKey(row)} \cup {row}
  /\ seen' = [seen EXCEPT ![v] = 0]
  /\ result' = [result EXCEPT ![v] = NULL]
  /\ UNCHANGED <<load, alive, vms, inventory, declared, traffic, flows, todo>>

\* The request fails; the result is only logged.
LoseResult(v) ==
  /\ result[v] # NULL
  /\ result' = [result EXCEPT ![v] = NULL]
  /\ UNCHANGED <<load, alive, vms, seen, inventory, declared, traffic, flows, todo, probes, work>>

-----------------------------------------------------------------------------
Next ==
  \/ \E v \in VMs : Register(v) \/ Die(v)
  \/ Tick \/ DeleteExpired
  \/ \E d \in load.declarations : Declare(d)
  \/ \E inv \in load.inventories : Restart(inv)
  \/ \E v \in VMs, x \in traffic, kind \in load.kinds : Ingest(v, x, kind)
  \/ \E v \in Probers : \/ FetchTargets(v) \/ RecordProbe(v) \/ LoseResult(v)
                        \/ \E t \in todo[v], ok, slow \in BOOLEAN : ProbeTarget(v, t, ok, slow)

Spec == Init /\ [][Next]_vars

\* Time passes and the reaper's ticker fires.
FairSpec == Spec /\ WF_vars(Tick) /\ WF_vars(DeleteExpired)

-----------------------------------------------------------------------------
\* Type correctness: flows and probe rows refer to VMs that exist or to none
\* (001_init.sql:45-49, 007_connection_probes.sql:4-5).
TypeOK ==
  /\ alive \subseteq VMs /\ vms \subseteq VMs
  /\ seen \in [VMs -> 0..Old]
  /\ inventory \in load.inventories
  /\ \A f \in flows : /\ {f.src, f.dst} \subseteq vms \cup {NULL}
                      /\ f.age \in 0..Old
  /\ \A p \in probes : p.src \in vms /\ p.dst \in vms \cup {NULL} /\ p.age \in 0..Old
  /\ \A v \in Probers : \A t \in todo[v] : t.ip \in VMs \ {v}

\* contracts/data-schema.md:248: DeleteExpired "Deletes agent-discovered `vms` and
\* their `agents` rows after the window", so a VM that stays silent is deleted in the end.
ExpiredIsDeleted == \A v \in VMs : v \notin alive ~> (v \in alive \/ v \notin vms)
=============================================================================
