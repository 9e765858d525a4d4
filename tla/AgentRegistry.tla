--------------------------- MODULE AgentRegistry ---------------------------
(***************************************************************************)
(* Registration, heartbeats and expiry: the agents and vms tables of the   *)
(* backend (src/backend/internal/service/agent_service.go), the agents     *)
(* that keep themselves registered (registerUntilReady in                  *)
(* src/agent/cmd/agent/main.go, src/agent/internal/lifecycle) and the      *)
(* status sweep of src/backend/cmd/api/main.go.                            *)
(*                                                                         *)
(* A timestamp is represented by its age in ticks, so that NOW() is age 0. *)
(* Ages stop at MaxAge, past every threshold the code compares them with.  *)
(* A request that its client no longer waits for may still be executed.    *)
(***************************************************************************)
EXTENDS Naturals, FiniteSets, Functions

CONSTANTS
  Agents,          \* ids of the agents that run
  Machine,         \* every agent -> machine_id, or None if /etc/machine-id is unreadable
  MAC,             \* agent -> MAC address of its primary interface
  None,            \* SQL NULL
  OnlineWindow,    \* agentOnlineWindow
  StaleWindow,     \* agentStaleWindow
  DeleteAfter,     \* cfg.VMDeleteAfter; 0 disables DeleteExpired
  RequestTimeout,  \* no handler outlives the HTTP timeout of its client
  Workloads        \* the environments to consider, one of which each behaviour has

ASSUME WindowsAssumption ==
  /\ OnlineWindow \in Nat /\ StaleWindow \in Nat /\ DeleteAfter \in Nat
  /\ RequestTimeout \in Nat /\ RequestTimeout <= StaleWindow  \* 10s and 5m by default
  /\ OnlineWindow < StaleWindow
  /\ DeleteAfter = 0 \/ DeleteAfter > StaleWindow

ASSUME AgentsAssumption ==
  Agents \subseteq DOMAIN Machine /\ \A w \in Workloads : DOMAIN w.departed \subseteq DOMAIN Machine

VARIABLES
  load,      \* addresses: those an agent may be given when it boots; departed: agents
             \* that have gone, and the address their VM row still holds; orphans: bound
             \* on the requests of an agent that nobody waits for
  proc,      \* agent -> where its process is
  addr,      \* agent -> primary address collected at boot
  requests,  \* register and heartbeat requests the backend may still execute
  agents,    \* table agents: id -> row
  vms,       \* table vms: id -> row
  ifaces,    \* table vm_interfaces: row -> age of its updated_at
  sweep,     \* where the sweep goroutine is
  heard      \* agent -> age of the newest request of it the backend has executed

process  == <<proc, addr>>
registry == <<agents, vms, ifaces>>
registryVars == <<process, requests, registry, sweep, heard>>

-----------------------------------------------------------------------------
MaxAge == 1 + IF DeleteAfter > StaleWindow THEN DeleteAfter ELSE StaleWindow

Older(age) == IF age < MaxAge THEN age + 1 ELSE age

\* stableVMID: the agent id is never empty, so MAC and hostname are never used.
stableVMID(a) == IF Machine[a] # None THEN Machine[a] ELSE a

Known == DOMAIN Machine

VMIDs == {stableVMID(a) : a \in Known}

agentStatusForLastSeen(age) ==
  IF age <= OnlineWindow THEN "online" ELSE IF age <= StaleWindow THEN "stale" ELSE "offline"

\* INSERT ... ON CONFLICT (id) DO UPDATE
Upsert(table, id, row) ==
  [i \in DOMAIN table \cup {id} |-> IF i = id THEN row ELSE table[i]]

\* Faulty refresh: the status is left to the sweep.
Touch_KeepsStatus(table, ids, age) ==
  [i \in DOMAIN table |-> IF i \in ids THEN [table[i] EXCEPT !.age = age] ELSE table[i]]

\* UPDATE ... SET status = 'online', last_seen = <age> on the rows ids
Touch(table, ids, age) ==
  [i \in DOMAIN table |->
     IF i \in ids THEN [table[i] EXCEPT !.status = "online", !.age = age] ELSE table[i]]

Coalesce(x, y) == IF x # None THEN x ELSE y

\* ORDER BY last_seen DESC LIMIT 1; equal timestamps leave the choice open.
Latest(ids) == {v \in ids : \A w \in ids : vms[v].age <= vms[w].age}

-----------------------------------------------------------------------------
(* resolveIdentity: the VM rows the registration may be matched with.  The *)
(* fifth query (name and address) only finds what the fourth has found.    *)

ByMachine(a) ==
  Latest({v \in DOMAIN vms : Machine[a] # None /\ vms[v].machine = Machine[a]})

ByAgent(a) == {agents[i].vm : i \in DOMAIN agents \cap {a}}

ByMAC(a) ==
  LET n == {i \in DOMAIN ifaces : i.mac = MAC[a]}
  IN  {i.vm : i \in {j \in n : \A k \in n : ifaces[j] <= ifaces[k]}}

ByIP(ip) == Latest({v \in DOMAIN vms : ip # None /\ vms[v].ip = ip})

\* Faulty order: the address is asked before the stable identifiers.
resolveIdentity_AddressFirst(a, ip) ==
  IF ByIP(ip) # {} THEN ByIP(ip)
  ELSE IF ByMachine(a) # {} THEN ByMachine(a)
  ELSE IF ByAgent(a) # {} THEN ByAgent(a)
  ELSE IF ByMAC(a) # {} THEN ByMAC(a)
  ELSE {stableVMID(a)}

resolveIdentity(a, ip) ==
  IF ByMachine(a) # {} THEN ByMachine(a)
  ELSE IF ByAgent(a) # {} THEN ByAgent(a)
  ELSE IF ByMAC(a) # {} THEN ByMAC(a)
  ELSE IF ByIP(ip) # {} THEN ByIP(ip)
  ELSE {stableVMID(a)}

-----------------------------------------------------------------------------
RegistryInit ==
  /\ load \in Workloads
  /\ proc = [a \in Agents |-> "down"]
  /\ addr = [a \in Agents |-> None]
  /\ requests = {}
  /\ agents = [a \in DOMAIN load.departed |->
                  [vm |-> stableVMID(a), status |-> "offline", age |-> MaxAge]]
  /\ vms = [v \in {stableVMID(a) : a \in DOMAIN load.departed} |->
               LET a == CHOOSE b \in DOMAIN load.departed : stableVMID(b) = v IN
               [machine |-> Machine[a], agent |-> a, ip |-> load.departed[a],
                status |-> "offline", age |-> MaxAge]]
  /\ ifaces = [i \in {[vm |-> stableVMID(a), mac |-> MAC[a], ip |-> load.departed[a]] :
                         a \in DOMAIN load.departed} |-> MaxAge]
  /\ sweep = "wait"
  /\ heard = [a \in Agents |-> MaxAge]

\* step 0: under way; step 1 and on: the handler runs, age is that of its clock.
Request(a, op) ==
  [agent |-> a, op |-> op, ip |-> addr[a], step |-> 0, vm |-> None, age |-> 0, live |-> TRUE]

Orphans(a) == {r \in requests : r.agent = a /\ ~r.live}

\* Faulty recovery: a failed heartbeat is only logged.
ClientError_NoRegister(r, rest) ==
  LET a == r.agent IN
  /\ proc' = [proc EXCEPT ![a] = IF @ = "starting" THEN "start" ELSE "idle"]
  /\ requests' = rest

\* The client gets an error for r: registerUntilReady waits and tries again, a
\* failed heartbeat is followed by a Register, a failed Register by the next tick.
ClientError(r, rest) ==
  LET a == r.agent IN
  /\ proc' = [proc EXCEPT ![a] = CASE @ = "starting"   -> "start"
                                   [] @ = "beating"    -> "recovering"
                                   [] @ = "recovering" -> "idle"]
  /\ requests' = IF proc[a] = "beating" THEN rest \cup {Request(a, "register")} ELSE rest

\* The backend is done with r; a client that still waits for it gets a 200.
Answer(r) ==
  /\ proc' = IF r.live THEN [proc EXCEPT ![r.agent] = "idle"] ELSE proc
  /\ requests' = requests \ {r}

Hear(r) == heard' = [heard EXCEPT ![r.agent] = IF r.age < @ THEN r.age ELSE @]

-----------------------------------------------------------------------------
(* The agent process.                                                      *)

\* identity.Collect runs once; a VM may come back with another address.
Boot(a, ip) ==
  /\ proc[a] = "down"
  /\ proc' = [proc EXCEPT ![a] = "start"]
  /\ addr' = [addr EXCEPT ![a] = ip]
  /\ UNCHANGED <<requests, registry, sweep, heard>>

\* A signal or a crash.
Stop(a) ==
  /\ proc[a] # "down"
  /\ Cardinality({r \in requests : r.agent = a}) <= load.orphans
  /\ proc' = [proc EXCEPT ![a] = "down"]
  /\ requests' = {IF r.agent = a THEN [r EXCEPT !.live = FALSE] ELSE r : r \in requests}
  /\ UNCHANGED <<addr, registry, sweep, heard>>

\* registerUntilReady posts a registration.
RegisterUntilReady(a) ==
  /\ proc[a] = "start"
  /\ proc' = [proc EXCEPT ![a] = "starting"]
  /\ requests' = requests \cup {Request(a, "register")}
  /\ UNCHANGED <<addr, registry, sweep, heard>>

\* lifecycle.Run: the heartbeat ticker fires.
HeartbeatTick(a) ==
  /\ proc[a] = "idle"
  /\ proc' = [proc EXCEPT ![a] = "beating"]
  /\ requests' = requests \cup {Request(a, "heartbeat")}
  /\ UNCHANGED <<addr, registry, sweep, heard>>

\* The client stops waiting; the handler may still run.
ClientTimeout(r) ==
  /\ r.live
  /\ Cardinality(Orphans(r.agent)) < load.orphans
  /\ ClientError(r, (requests \ {r}) \cup {[r EXCEPT !.live = FALSE]})
  /\ UNCHANGED <<addr, registry, sweep, heard>>

\* The request is lost, or its handler fails: a transaction is rolled back, but
\* the first statement of a heartbeat stays.
RequestFails(r) ==
  /\ IF r.live
     THEN ClientError(r, requests \ {r})
     ELSE /\ requests' = requests \ {r}
          /\ proc' = proc
  /\ UNCHANGED <<addr, registry, sweep, heard>>

-----------------------------------------------------------------------------
(* AgentService.                                                           *)

\* Register opens its transaction, whose start is NOW(), and resolves the VM.
RegisterResolve(r) ==
  /\ r.op = "register" /\ r.step = 0
  /\ \E v \in resolveIdentity(r.agent, r.ip) :
       requests' = (requests \ {r}) \cup {[r EXCEPT !.step = 1, !.vm = v, !.age = 0]}
  /\ UNCHANGED <<process, registry, sweep, heard>>

\* The upserts of vms, agents and vm_interfaces, and the commit.
RegisterCommit(r) ==
  LET a == r.agent
      v == r.vm
      iface == [vm |-> v, mac |-> MAC[a], ip |-> r.ip]
      old == IF v \in DOMAIN vms THEN vms[v] ELSE [machine |-> None, ip |-> None]
  IN
  /\ r.op = "register" /\ r.step = 1
  /\ vms' = Upsert(vms, v, [machine |-> Coalesce(Machine[a], old.machine), agent |-> a,
                            ip |-> Coalesce(r.ip, old.ip), status |-> "online", age |-> r.age])
  /\ agents' = Upsert(agents, a, [vm |-> v, status |-> "online", age |-> r.age])
  /\ ifaces' = Upsert(ifaces, iface, r.age)
  /\ Answer(r)
  /\ Hear(r)
  /\ UNCHANGED <<addr, sweep>>

\* Heartbeat reads the clock (seenAt) ...
HeartbeatReceive(r) ==
  /\ r.op = "heartbeat" /\ r.step = 0
  /\ requests' = (requests \ {r}) \cup {[r EXCEPT !.step = 1]}
  /\ UNCHANGED <<process, registry, sweep, heard>>

\* ... updates agents, or fails because the agent is not registered ...
HeartbeatAgents(r) ==
  /\ r.op = "heartbeat" /\ r.step = 1
  /\ IF r.agent \in DOMAIN agents
     THEN /\ agents' = Touch(agents, {r.agent}, r.age)
          /\ requests' = (requests \ {r}) \cup {[r EXCEPT !.step = 2]}
          /\ Hear(r)
          /\ UNCHANGED <<addr, proc, vms, ifaces, sweep>>
     ELSE RequestFails(r)

\* ... and, in a statement of its own, the VM row that names the agent.
HeartbeatVMs(r) ==
  /\ r.op = "heartbeat" /\ r.step = 2
  /\ vms' = Touch(vms, {v \in DOMAIN vms : vms[v].agent = r.agent}, r.age)
  /\ Answer(r)
  /\ UNCHANGED <<addr, agents, ifaces, sweep, heard>>

\* FlowService.Ingest refreshes the agent and the VM it is bound to.
IngestTouch(a, v, age) ==
  /\ agents' = Touch(agents, {a}, age)
  /\ vms' = Touch(vms, {v}, age)
  /\ heard' = [heard EXCEPT ![a] = IF age < @ THEN age ELSE @]

FlowSeen(a) ==
  /\ proc[a] \in {"idle", "beating", "recovering"}
  /\ a \in DOMAIN agents /\ agents[a].vm \in DOMAIN vms
  /\ IngestTouch(a, agents[a].vm, 0)
  /\ UNCHANGED <<process, requests, ifaces, sweep>>

\* Faulty CASE: the last branch is missing.
Restatus_NeverOffline(table) ==
  [i \in DOMAIN table |->
     [table[i] EXCEPT !.status = IF table[i].age <= OnlineWindow THEN "online" ELSE "stale"]]

Restatus(table) ==
  [i \in DOMAIN table |-> [table[i] EXCEPT !.status = agentStatusForLastSeen(table[i].age)]]

UpdateStatuses ==
  /\ sweep = "wait"
  /\ sweep' = "reap"
  /\ agents' = Restatus(agents)
  /\ vms' = Restatus(vms)
  /\ UNCHANGED <<process, requests, ifaces, heard>>

\* The transaction fails; the sweep logs it and goes on to DeleteExpired.
UpdateStatusesFails ==
  /\ sweep = "wait"
  /\ sweep' = "reap"
  /\ UNCHANGED <<process, requests, registry, heard>>

\* Faulty selection: only the VM's own timestamp is compared.
Expired_VMSideOnly ==
  {agents[a].vm : a \in {b \in DOMAIN agents :
     /\ agents[b].vm \in DOMAIN vms
     /\ vms[agents[b].vm].age > DeleteAfter}}

\* Rows of the join that are older than the retention window on both sides.
Expired ==
  {agents[a].vm : a \in {b \in DOMAIN agents :
     /\ agents[b].vm \in DOMAIN vms
     /\ agents[b].age > DeleteAfter /\ vms[agents[b].vm].age > DeleteAfter}}

\* Faulty deletion: the agents rows stay behind.
DeleteExpired_KeepsAgents(skipped) ==
  LET gone == IF DeleteAfter = 0 THEN {} ELSE Expired \ skipped IN
  /\ sweep = "reap"
  /\ sweep' = "wait"
  /\ vms' = Restrict(vms, DOMAIN vms \ gone)
  /\ ifaces' = Restrict(ifaces, {i \in DOMAIN ifaces : i.vm \notin gone})
  /\ UNCHANGED <<process, requests, agents, heard>>

\* SKIP LOCKED leaves out rows another transaction holds; an error leaves all.
DeleteExpired(skipped) ==
  LET gone == IF DeleteAfter = 0 THEN {} ELSE Expired \ skipped IN
  /\ sweep = "reap"
  /\ sweep' = "wait"
  /\ agents' = Restrict(agents, {a \in DOMAIN agents : agents[a].vm \notin gone})
  /\ vms' = Restrict(vms, DOMAIN vms \ gone)
  /\ ifaces' = Restrict(ifaces, {i \in DOMAIN ifaces : i.vm \notin gone})
  /\ UNCHANGED <<process, requests, heard>>

\* Time passes for every row and every running handler.
Tick ==
  /\ \A r \in requests : r.step > 0 => r.age < RequestTimeout
  /\ requests' = {IF r.step > 0 THEN [r EXCEPT !.age = @ + 1] ELSE r : r \in requests}
  /\ agents' = [a \in DOMAIN agents |-> [agents[a] EXCEPT !.age = Older(@)]]
  /\ vms' = [v \in DOMAIN vms |-> [vms[v] EXCEPT !.age = Older(@)]]
  /\ ifaces' = [i \in DOMAIN ifaces |-> Older(ifaces[i])]
  /\ heard' = [a \in Agents |-> Older(heard[a])]
  /\ UNCHANGED <<process, sweep>>

-----------------------------------------------------------------------------
AgentStep(a) ==
  \/ \E ip \in load.addresses[a] : Boot(a, ip)
  \/ Stop(a)
  \/ RegisterUntilReady(a)
  \/ HeartbeatTick(a)
  \/ FlowSeen(a)

Handler(r) ==
  \/ RegisterResolve(r)
  \/ RegisterCommit(r)
  \/ HeartbeatReceive(r)
  \/ HeartbeatAgents(r)
  \/ HeartbeatVMs(r)

Next ==
  /\ \/ \E a \in Agents : AgentStep(a)
     \/ \E r \in requests : Handler(r) \/ ClientTimeout(r) \/ RequestFails(r)
     \/ UpdateStatuses
     \/ UpdateStatusesFails
     \/ \E skipped \in SUBSET DOMAIN vms : DeleteExpired(skipped)
     \/ Tick
  /\ UNCHANGED load

Spec == RegistryInit /\ [][Next]_<<load, registryVars>>

\* Agents retry for ever, handlers end, the sweep and the clock go on; the network
\* lets a registration through, and the database a sweep, again and again.
Fairness ==
  /\ \A a \in Agents :
       /\ WF_registryVars(RegisterUntilReady(a))
       /\ WF_registryVars(HeartbeatTick(a))
       /\ SF_registryVars(\E r \in requests : r.agent = a /\ r.live /\ RegisterResolve(r))
       /\ SF_registryVars(\E r \in requests : r.agent = a /\ r.live /\ RegisterCommit(r))
  /\ WF_registryVars(\E r \in requests : Handler(r) \/ RequestFails(r))
  /\ SF_registryVars(UpdateStatuses)
  /\ WF_registryVars(\E skipped \in SUBSET DOMAIN vms : DeleteExpired(skipped))
  /\ WF_registryVars(Tick)

FairSpec == Spec /\ Fairness

-----------------------------------------------------------------------------
(* Properties.                                                             *)

Statuses == {"online", "stale", "offline"}

\* Type correctness: what the rows and the requests in flight may contain.
TypeOK ==
  /\ proc \in [Agents -> {"down", "start", "starting", "idle", "beating", "recovering"}]
  /\ DOMAIN agents \subseteq Known
  /\ \A a \in DOMAIN agents : /\ agents[a].vm \in VMIDs
                              /\ agents[a].status \in Statuses
                              /\ agents[a].age \in 0..MaxAge
  /\ DOMAIN vms \subseteq VMIDs
  /\ \A v \in DOMAIN vms : /\ vms[v].agent \in Known
                           /\ vms[v].status \in Statuses
                           /\ vms[v].age \in 0..MaxAge
  /\ \A r \in requests : /\ r.agent \in Agents
                         /\ r.step \in 0..2
                         /\ r.age \in 0..RequestTimeout
                         /\ r.step = 1 /\ r.op = "register" => r.vm \in VMIDs

\* agents.vm_id has no foreign key, yet it never dangles: a registration that
\* resolved a VM which DeleteExpired then removed recreates the row, and a reaped
\* VM takes all its agents with it (agent_service.go:93-140, 381-386).
AgentHasVM == \A a \in DOMAIN agents : agents[a].vm \in DOMAIN vms

\* No row is shown stale or offline before its last_seen has left the window,
\* whichever of Register, Heartbeat, Ingest and the sweep wrote it last
\* (agent_service.go:117, 135, 244, 252, 289-296; flow_service.go:177-182).
NeverOfflineEarly ==
  /\ \A a \in DOMAIN agents : /\ agents[a].status = "stale" => agents[a].age > OnlineWindow
                              /\ agents[a].status = "offline" => agents[a].age > StaleWindow
  /\ \A v \in DOMAIN vms : /\ vms[v].status = "stale" => vms[v].age > OnlineWindow
                           /\ vms[v].status = "offline" => vms[v].age > StaleWindow

Silent(a) == heard[a] + RequestTimeout > DeleteAfter

\* "DeleteExpired removes agent-backed VM nodes only after they have missed
\* heartbeats for the configured retention window" (agent_service.go:333-336), up
\* to the time a delayed heartbeat handler can set last_seen back.
ReapedOnlyIfSilent ==
  [][\A a \in Agents \cap (DOMAIN agents \ DOMAIN agents') : Silent(a)]_registryVars

\* The same of an agent whose VM row no other agent is bound to: neither the gap
\* between the two statements of a heartbeat nor a handler that overtakes another
\* lets the sweep take an agent that is heard from (agent_service.go:238-257, 333-392).
OwnVMReapedOnlyIfSilent ==
  [][\A a \in Agents \cap (DOMAIN agents \ DOMAIN agents') :
       (\A b \in DOMAIN agents \ {a} : agents[b].vm # agents[a].vm) => Silent(a)]_registryVars

\* A registered agent keeps its VM: no reboot with a new address, even one that the
\* row of another VM still holds, moves it to another row, as long as no registration
\* outlives its client and overlaps the next one (agent_service.go:175-223).
VMStable ==
  [][load.orphans = 0 =>
       \A a \in DOMAIN agents \cap DOMAIN agents' : agents'[a].vm = agents[a].vm]_registryVars

\* A live agent that has no row, because it was reaped during a partition or has
\* just booted, gets one again (heartbeat.go:20-29, main.go:284-304).
Recovers ==
  \A a \in Agents : proc[a] # "down" ~> a \in DOMAIN agents \/ proc[a] = "down"

\* An agent that has gone is eventually shown offline, or its row is removed
\* (agent_service.go:280-320).
SilentGoesOffline ==
  \A a \in Agents :
    (proc[a] = "down" /\ a \in DOMAIN agents)
      ~> (proc[a] # "down" \/ a \notin DOMAIN agents \/ agents[a].status = "offline")
=============================================================================
