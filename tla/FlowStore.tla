----------------------------- MODULE FlowStore -----------------------------
(***************************************************************************)
(* The flow buckets of the backend: FlowService.Ingest aggregates windows  *)
(* into network_flows (src/backend/internal/service/flow_service.go),      *)
(* Register re-points buckets at a VM that has become known                *)
(* (agent_service.go), DeleteExpired sets their references to NULL through *)
(* the foreign keys, and a restart applies every migration again           *)
(* (src/backend/internal/db).                                              *)
(*                                                                         *)
(* A VM, its agent and its address are one model value: who is matched     *)
(* with which row, and when a VM expires, is the subject of AgentRegistry. *)
(* Protocol, port and direction are the same in all buckets; all VMs       *)
(* belong to one tenant.  A counter is the set of windows it has added up. *)
(* Transactions run at READ COMMITTED: a statement sees what is committed  *)
(* when it starts.                                                         *)
(***************************************************************************)
EXTENDS Naturals, Sequences, FiniteSets, SequencesExt

CONSTANTS
  VMs,                        \* addresses on which an agent may register
  Outside,                    \* peers that never register
  None,                       \* SQL NULL
  unregisteredInternalScope,  \* cfg.UnregisteredInternalScope
  MaxIngests,                 \* bound: Ingest transactions
  MaxRegisters,               \* bound: registrations of a VM
  MaxReaps, MaxRestarts       \* bounds: expired VMs, restarts of the backend

ASSUME ScopeAssumption ==
  /\ unregisteredInternalScope \in {"external_private", "unknown_internal"}
  /\ None \notin VMs \cup Outside

VARIABLES
  vms,            \* the registered VMs
  flows,          \* table network_flows: a row is never deleted
  unknownHosts,   \* table unknown_internal_hosts: ip -> resolved_vm_id
  externalHosts,  \* table external_hosts: set of ips
  txs,            \* open Ingest transactions
  observed,       \* table flow_observations: the windows recorded, with their bucket
  ingests,        \* Ingest calls so far
  registers,      \* VM -> registrations so far
  reaps, restarts

counters == <<ingests, registers, reaps, restarts>>
hosts    == <<unknownHosts, externalHosts>>
vars     == <<vms, flows, hosts, txs, observed, counters>>

-----------------------------------------------------------------------------
Init ==
  /\ vms = {}
  /\ flows = << >>
  /\ unknownHosts = << >>
  /\ externalHosts = {}
  /\ txs = {}
  /\ observed = {}
  /\ ingests = 0
  /\ registers = [v \in VMs |-> 0]
  /\ reaps = 0
  /\ restarts = 0

Internal == "internal_same_tenant"

\* Classifier.Scope, for peers inside the configured CIDRs and one tenant.
Scope(registered) == IF registered THEN Internal ELSE unregisteredInternalScope

\* Faulty WHERE clause: the addresses are taken to follow from the VMs.
Columns_NoAddresses(row) == <<row.src, row.dst, row.scope>>

\* The columns Ingest selects a bucket by.
Columns(row) == <<row.src, row.dst, row.srcIP, row.dstIP, row.scope>>

\* The text of the advisory lock: the destination VM, or else its address.
lockKey(t) == <<t.src, t.srcIP, IF t.dst # None THEN t.dst ELSE t.dstIP, t.scope>>

Upsert(table, ip, value) ==
  [i \in DOMAIN table \cup {ip} |-> IF i = ip THEN value ELSE table[i]]

-----------------------------------------------------------------------------
(* FlowService.Ingest, for a window of agent s towards address ip.         *)

\* Source, destination and scope are read, without any lock.  Invalid events and
\* unregistered agents are refused.
IngestResolve(s, ip) ==
  LET registered == ip \in vms IN
  /\ ingests < MaxIngests
  /\ s \in vms
  /\ ingests' = ingests + 1
  /\ txs' = txs \cup
       {[n |-> ingests, step |-> "resolved", row |-> 0, src |-> s, srcIP |-> s,
         dstIP |-> ip, dst |-> IF registered THEN ip ELSE None, scope |-> Scope(registered)]}
  /\ UNCHANGED <<vms, flows, hosts, observed, registers, reaps, restarts>>

Advance(t, u) == txs' = (txs \ {t}) \cup {u}

\* The transactions past their upsert of the host tables and their advisory lock.
Locked == {u \in txs : u.step \in {"locked", "selected"}}

\* The row of an unresolved destination in its host table is free.
HostFree(t) == t.dst = None => \A u \in Locked : ~(u.dst = None /\ u.dstIP = t.dstIP)

\* Faulty lock: nobody waits for the key.
IngestLock_NoWait(t) ==
  /\ t.step = "resolved"
  /\ HostFree(t)
  /\ Advance(t, [t EXCEPT !.step = "locked"])
  /\ UNCHANGED <<vms, flows, hosts, observed, counters>>

\* The upsert of an unresolved host, which waits for the row, then
\* pg_advisory_xact_lock, which waits for the key.  Transactions with one key and
\* no destination VM meet at the host row already, so the two are one step.
IngestLock(t) ==
  /\ t.step = "resolved"
  /\ HostFree(t)
  /\ \A u \in Locked : lockKey(u) # lockKey(t)
  /\ Advance(t, [t EXCEPT !.step = "locked"])
  /\ UNCHANGED <<vms, flows, hosts, observed, counters>>

\* SELECT ... LIMIT 1 FOR UPDATE: a matching row that nobody has locked, or none.
IngestSelect(t) ==
  LET match == {i \in DOMAIN flows : Columns(flows[i]) = Columns(t)} IN
  /\ t.step = "locked"
  /\ \/ match = {} /\ Advance(t, [t EXCEPT !.step = "selected"])
     \/ \E i \in match : /\ \A u \in txs : u.row # i
                         /\ Advance(t, [t EXCEPT !.step = "selected", !.row = i])
  /\ UNCHANGED <<vms, flows, hosts, observed, counters>>

\* Faulty UPDATE: the counters are assigned instead of incremented.
Aggregate_Assigns(row, t) == [row EXCEPT !.agent = t.src, !.windows = {t.n}]

\* UPDATE network_flows SET bytes_sent = bytes_sent + $2, ...
Aggregate(row, t) == [row EXCEPT !.agent = t.src, !.windows = @ \cup {t.n}]

NewRow(t) ==
  [agent |-> t.src, src |-> t.src, dst |-> t.dst, srcIP |-> t.srcIP, dstIP |-> t.dstIP,
   scope |-> t.scope, windows |-> {t.n}]

\* INSERT or UPDATE, flow_observations, the host tables, and the commit.  The
\* foreign keys reject a VM that was deleted after it had been read.
IngestCommit(t) ==
  /\ t.step = "selected"
  /\ {t.src, t.dst} \ {None} \subseteq vms
  /\ IF t.row = 0
     THEN /\ flows' = Append(flows, NewRow(t))
          /\ observed' = observed \cup {[window |-> t.n, flow |-> Len(flows) + 1, dstIP |-> t.dstIP]}
     ELSE /\ flows' = [flows EXCEPT ![t.row] = Aggregate(@, t)]
          /\ observed' = observed \cup {[window |-> t.n, flow |-> t.row, dstIP |-> t.dstIP]}
  /\ unknownHosts' = IF t.scope = "unknown_internal" /\ t.dstIP \notin DOMAIN unknownHosts
                     THEN Upsert(unknownHosts, t.dstIP, None) ELSE unknownHosts
  /\ externalHosts' = IF t.scope = "external_private"
                      THEN externalHosts \cup {t.dstIP} ELSE externalHosts
  /\ txs' = txs \ {t}
  /\ UNCHANGED <<vms, counters>>

\* Any statement fails, or the client goes away: the transaction is rolled back.
IngestFails(t) ==
  /\ txs' = txs \ {t}
  /\ UNCHANGED <<vms, flows, hosts, observed, counters>>

-----------------------------------------------------------------------------
(* The other writers of network_flows.  A writer waits for a row that an   *)
(* open transaction has selected FOR UPDATE.                               *)

Unlocked(rows) == \A t \in txs : t.row \notin rows

\* An open Ingest has updated, and so locked, the existing host row of ip.
HostUnlocked(ip) ==
  ip \in DOMAIN unknownHosts => \A t \in Locked : ~(t.scope = "unknown_internal" /\ t.dstIP = ip)

\* The rows resolveUnknownHost updates: an address without VM, a known source.
Unresolved(v) ==
  {i \in DOMAIN flows : flows[i].src # None /\ flows[i].dst = None /\ flows[i].dstIP = v}

\* Faulty re-pointing: the scope is not recomputed.
Repoint_KeepsScope(row, v) == [row EXCEPT !.dst = v]

Repoint(row, v) == [row EXCEPT !.dst = v, !.scope = Internal]

\* Register, the first time or again, with its call of resolveUnknownHost.
Register(v) ==
  /\ registers[v] < MaxRegisters
  /\ HostUnlocked(v) /\ Unlocked(Unresolved(v))
  /\ registers' = [registers EXCEPT ![v] = @ + 1]
  /\ vms' = vms \cup {v}
  /\ flows' = [i \in DOMAIN flows |->
                 IF i \in Unresolved(v) THEN Repoint(flows[i], v) ELSE flows[i]]
  /\ unknownHosts' = IF v \in DOMAIN unknownHosts THEN Upsert(unknownHosts, v, v) ELSE unknownHosts
  /\ UNCHANGED <<externalHosts, txs, observed, ingests, reaps, restarts>>

SetNull(x, v) == IF x = v THEN None ELSE x

\* DeleteExpired removes a VM and its agent; ON DELETE SET NULL does the rest.
DeleteExpired(v) ==
  /\ reaps < MaxReaps
  /\ v \in vms
  /\ HostUnlocked(v)
  /\ Unlocked({i \in DOMAIN flows : v \in {flows[i].agent, flows[i].src, flows[i].dst}})
  /\ reaps' = reaps + 1
  /\ vms' = vms \ {v}
  /\ flows' = [i \in DOMAIN flows |->
                 [flows[i] EXCEPT !.agent = SetNull(@, v), !.src = SetNull(@, v),
                                  !.dst = SetNull(@, v)]]
  /\ unknownHosts' = [ip \in DOMAIN unknownHosts |-> SetNull(unknownHosts[ip], v)]
  /\ UNCHANGED <<externalHosts, txs, observed, ingests, registers, restarts>>

\* Migration 005 rewrites scopes whenever it runs.  The UPDATE of 004 matches no
\* row that Ingest writes: a window with connections has requests.
Migrated(row) ==
  [row EXCEPT !.scope = IF row.scope = "unknown_internal" /\ row.dst = None
                        THEN "external_private" ELSE row.scope]

\* The backend stops, its transactions are rolled back, and Migrate runs again.
Restart ==
  LET open == {ip \in DOMAIN unknownHosts : unknownHosts[ip] = None} IN
  /\ restarts < MaxRestarts
  /\ restarts' = restarts + 1
  /\ txs' = {}
  /\ flows' = [i \in DOMAIN flows |-> Migrated(flows[i])]
  /\ externalHosts' = externalHosts \cup open
  /\ unknownHosts' = [ip \in DOMAIN unknownHosts \ open |-> unknownHosts[ip]]
  /\ UNCHANGED <<vms, observed, ingests, registers, reaps>>

-----------------------------------------------------------------------------
Ingest(t) == IngestLock(t) \/ IngestSelect(t) \/ IngestCommit(t) \/ IngestFails(t)

Next ==
  \/ \E s \in VMs, ip \in VMs \cup Outside : s # ip /\ IngestResolve(s, ip)
  \/ \E t \in txs : Ingest(t)
  \/ \E v \in VMs : Register(v) \/ DeleteExpired(v)
  \/ Restart

Spec == Init /\ [][Next]_vars

-----------------------------------------------------------------------------
(* Properties.                                                             *)

Scopes == {Internal, "external_private", "unknown_internal"}

\* Type correctness; a reference is NULL or, as the foreign keys demand, a VM.
TypeOK ==
  /\ vms \subseteq VMs
  /\ \A i \in DOMAIN flows : /\ {flows[i].agent, flows[i].src, flows[i].dst} \subseteq vms \cup {None}
                             /\ flows[i].scope \in Scopes
  /\ \A ip \in DOMAIN unknownHosts : unknownHosts[ip] \in vms \cup {None}
  /\ \A t \in txs : t.step \in {"resolved", "locked", "selected"} /\ t.row \in 0..Len(flows)

\* "This avoids duplicate graph edges under concurrent ingestion": no two buckets
\* agree on all columns Ingest selects by (flow_service.go:80-97).
NoDuplicateBucket ==
  \A i, j \in DOMAIN flows : Columns(flows[i]) = Columns(flows[j]) => i = j

\* As long as no VM has registered a second time and no restart has rewritten
\* scopes, it does: neither concurrent ingests nor a first registration or an
\* expiry between them make a second bucket for a key (flow_service.go:80-114,
\* agent_service.go:225-236).
NoDuplicateAtFirst ==
  restarts = 0 /\ (\A v \in VMs : registers[v] <= 1) => NoDuplicateBucket

\* Aggregation loses and repeats nothing: the counters of a bucket are the sum of
\* its observations, through re-pointing, expiry and restarts, and every window is
\* in one bucket only (flow_service.go:99-175, data-schema.md:249).
CountersMatchObservations ==
  /\ \A i \in DOMAIN flows : flows[i].windows = {o.window : o \in {p \in observed : p.flow = i}}
  /\ \A o, p \in observed : o.window = p.window => o = p

\* A bucket only ever adds up windows of one peer address, also after its VM
\* references have been re-pointed or set to NULL (flow_service.go:88-94).
OnePeerPerBucket == \A o \in observed : flows[o.flow].dstIP = o.dstIP

\* A bucket is internal exactly when it names a destination VM, as long as no VM
\* expires (classifier.go:57-75, agent_service.go:229-234).
InternalIffResolved ==
  reaps = 0 => \A i \in DOMAIN flows : flows[i].scope = Internal <=> flows[i].dst # None
=============================================================================
