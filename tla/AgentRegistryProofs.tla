------------------------ MODULE AgentRegistryProofs ------------------------
(***************************************************************************)
(* Proofs about module AgentRegistry: for any number of agents, requests   *)
(* that outlive their clients, and any windows, rows do not dangle, are    *)
(* not shown offline early, are not reaped while their agent is heard, and *)
(* an agent keeps its VM where machine ids are distinct.                   *)
(***************************************************************************)
EXTENDS AgentRegistry, FiniteSetTheorems, TLAPS

-----------------------------------------------------------------------------
(* The inductive invariant.                                                *)

\* A row's status is not behind its age.
Timely(row) ==
  /\ row.status \in Statuses /\ row.age \in 0..MaxAge
  /\ row.status = "stale" => row.age > OnlineWindow
  /\ row.status = "offline" => row.age > StaleWindow

AgentRow(row) ==
  /\ row = [vm |-> row.vm, status |-> row.status, age |-> row.age]
  /\ row.vm \in VMIDs
  /\ Timely(row)

VMRow(row) ==
  /\ row = [machine |-> row.machine, agent |-> row.agent, ip |-> row.ip, status |-> row.status,
            age |-> row.age]
  /\ row.agent \in Known
  /\ Timely(row)

Tables ==
  /\ DOMAIN agents \subseteq Known /\ \A a \in DOMAIN agents : AgentRow(agents[a])
  /\ DOMAIN vms \subseteq VMIDs /\ \A v \in DOMAIN vms : VMRow(vms[v])
  /\ \A i \in DOMAIN ifaces : i.vm \in VMIDs

RequestRow(r) ==
  /\ r = [agent |-> r.agent, op |-> r.op, ip |-> r.ip, step |-> r.step, vm |-> r.vm,
          age |-> r.age, live |-> r.live]
  /\ r.agent \in Agents /\ r.step \in 0..2 /\ r.age \in 0..RequestTimeout
  /\ r.step = 1 /\ r.op = "register" => r.vm \in VMIDs

Awaiting == {"starting", "beating", "recovering"}

\* A client waits for one request at a time, and only when it has posted one.
Clients ==
  /\ proc \in [Agents -> Awaiting \cup {"down", "start", "idle"}]
  /\ \A r \in requests : r.live => proc[r.agent] \in Awaiting
  /\ \A r, q \in requests : r.live /\ q.live /\ r.agent = q.agent => r = q

Requests == \A r \in requests : RequestRow(r)

\* A late handler sets last_seen back by no more than the time it may take.
Heard ==
  /\ heard \in [Agents -> 0..MaxAge]
  /\ \A a \in Agents \cap DOMAIN agents : agents[a].age <= heard[a] + RequestTimeout

RegistryInv ==
  /\ Tables
  /\ Requests
  /\ Clients
  /\ AgentHasVM
  /\ Heard
-----------------------------------------------------------------------------
(* Rows.                                                                   *)

\* Ages and thresholds are numbers, and the greatest age is past every threshold.
LEMMA AgeFacts ==
  /\ MaxAge \in Nat /\ MaxAge > StaleWindow /\ MaxAge > OnlineWindow
  /\ RequestTimeout \in 0..MaxAge
  /\ \A age \in 0..MaxAge : /\ Older(age) \in 0..MaxAge /\ Older(age) >= age
                            /\ agentStatusForLastSeen(age) \in Statuses
                            /\ agentStatusForLastSeen(age) = "stale" => age > OnlineWindow
                            /\ agentStatusForLastSeen(age) = "offline" => age > StaleWindow
  BY WindowsAssumption DEF MaxAge, Older, agentStatusForLastSeen, Statuses

\* A row that is refreshed is online.
LEMMA OnlineIsTimely ==
  ASSUME NEW row, row.status = "online", row.age \in 0..MaxAge PROVE Timely(row)
  BY DEF Timely, Statuses

\* What the statements do to a row of agents.
LEMMA AgentRowKept ==
  ASSUME NEW row, AgentRow(row), NEW age \in 0..MaxAge
  PROVE  /\ LET new == [row EXCEPT !.status = "online", !.age = age]
            IN  AgentRow(new) /\ new.vm = row.vm /\ new.age = age
         /\ LET new == [row EXCEPT !.status = agentStatusForLastSeen(row.age)]
            IN  AgentRow(new) /\ new.vm = row.vm /\ new.age = row.age
         /\ LET new == [row EXCEPT !.age = Older(@)]
            IN  AgentRow(new) /\ new.vm = row.vm /\ new.age = Older(row.age)
<1>1. row = [vm |-> row.vm, status |-> row.status, age |-> row.age] /\ row.vm \in VMIDs /\ Timely(row)
  BY DEF AgentRow
<1>2. ASSUME NEW new, new = [row EXCEPT !.status = "online", !.age = age]
      PROVE  AgentRow(new) /\ new.vm = row.vm /\ new.age = age
  <2>1. new = [vm |-> row.vm, status |-> "online", age |-> age]
    BY <1>1, <1>2
  <2> QED
    BY <1>1, <2>1, OnlineIsTimely DEF AgentRow
<1>3. ASSUME NEW new, new = [row EXCEPT !.status = agentStatusForLastSeen(row.age)]
      PROVE  AgentRow(new) /\ new.vm = row.vm /\ new.age = row.age
  <2>1. new = [vm |-> row.vm, status |-> agentStatusForLastSeen(row.age), age |-> row.age]
    BY <1>1, <1>3
  <2> QED
    BY <1>1, <2>1, AgeFacts DEF AgentRow, Timely
<1>4. ASSUME NEW new, new = [row EXCEPT !.age = Older(@)]
      PROVE  AgentRow(new) /\ new.vm = row.vm /\ new.age = Older(row.age)
  <2>1. new = [vm |-> row.vm, status |-> row.status, age |-> Older(row.age)]
    BY <1>1, <1>4
  <2>2. /\ Older(row.age) \in 0..MaxAge /\ Older(row.age) >= row.age /\ row.age \in Nat
        /\ OnlineWindow \in Nat /\ StaleWindow \in Nat
    BY <1>1, AgeFacts, WindowsAssumption DEF Timely
  <2>3. Timely(new)
    BY <1>1, <2>1, <2>2, AgeFacts DEF Timely
  <2> QED
    BY <1>1, <2>1, <2>3 DEF AgentRow
<1> QED
  BY <1>2, <1>3, <1>4

\* The same of a row of vms.
LEMMA VMRowKept ==
  ASSUME NEW row, VMRow(row), NEW age \in 0..MaxAge
  PROVE  /\ VMRow([row EXCEPT !.status = "online", !.age = age])
         /\ VMRow([row EXCEPT !.status = agentStatusForLastSeen(row.age)])
         /\ VMRow([row EXCEPT !.age = Older(@)])
<1>1. /\ row = [machine |-> row.machine, agent |-> row.agent, ip |-> row.ip, status |-> row.status,
                age |-> row.age]
      /\ row.agent \in Known /\ Timely(row)
  BY DEF VMRow
<1>2. ASSUME NEW new, new = [row EXCEPT !.status = "online", !.age = age] PROVE VMRow(new)
  <2>1. new = [machine |-> row.machine, agent |-> row.agent, ip |-> row.ip, status |-> "online",
               age |-> age]
    BY <1>1, <1>2
  <2> QED
    BY <1>1, <2>1, OnlineIsTimely DEF VMRow
<1>3. ASSUME NEW new, new = [row EXCEPT !.status = agentStatusForLastSeen(row.age)] PROVE VMRow(new)
  <2>1. new = [machine |-> row.machine, agent |-> row.agent, ip |-> row.ip,
               status |-> agentStatusForLastSeen(row.age), age |-> row.age]
    BY <1>1, <1>3
  <2> QED
    BY <1>1, <2>1, AgeFacts DEF VMRow, Timely
<1>4. ASSUME NEW new, new = [row EXCEPT !.age = Older(@)] PROVE VMRow(new)
  <2>1. new = [machine |-> row.machine, agent |-> row.agent, ip |-> row.ip, status |-> row.status,
               age |-> Older(row.age)]
    BY <1>1, <1>4
  <2>2. /\ Older(row.age) \in 0..MaxAge /\ Older(row.age) >= row.age /\ row.age \in Nat
        /\ OnlineWindow \in Nat /\ StaleWindow \in Nat
    BY <1>1, AgeFacts, WindowsAssumption DEF Timely
  <2>3. Timely(new)
    BY <1>1, <2>1, <2>2, AgeFacts DEF Timely
  <2> QED
    BY <1>1, <2>1, <2>3 DEF VMRow
<1> QED
  BY <1>2, <1>3, <1>4

-----------------------------------------------------------------------------
(* Tables.                                                                 *)

\* An UPDATE of agents with a new last_seen.
LEMMA TouchAgents ==
  ASSUME Tables, NEW ids, NEW age \in 0..MaxAge
  PROVE  LET new == Touch(agents, ids, age)
         IN  /\ DOMAIN new = DOMAIN agents
             /\ \A a \in DOMAIN agents :
                  /\ AgentRow(new[a]) /\ new[a].vm = agents[a].vm
                  /\ new[a].age = IF a \in ids THEN age ELSE agents[a].age
<1>1. ASSUME NEW a \in DOMAIN agents
      PROVE  LET new == Touch(agents, ids, age)
             IN  /\ AgentRow(new[a]) /\ new[a].vm = agents[a].vm
                 /\ new[a].age = IF a \in ids THEN age ELSE agents[a].age
  <2>1. AgentRow(agents[a])
    BY DEF Tables
  <2>2. CASE a \in ids
    <3>1. Touch(agents, ids, age)[a] = [agents[a] EXCEPT !.status = "online", !.age = age]
      BY <2>2 DEF Touch
    <3>2. LET new == [agents[a] EXCEPT !.status = "online", !.age = age]
          IN  AgentRow(new) /\ new.vm = agents[a].vm /\ new.age = age
      BY <2>1, AgentRowKept
    <3> QED
      BY <2>2, <3>1, <3>2
  <2>3. CASE a \notin ids
    BY <2>1, <2>3 DEF Touch
  <2> QED
    BY <2>2, <2>3
<1> QED
  BY <1>1 DEF Touch

\* An UPDATE of vms with a new last_seen.
LEMMA TouchVMs ==
  ASSUME Tables, NEW ids, NEW age \in 0..MaxAge
  PROVE  LET new == Touch(vms, ids, age)
         IN  DOMAIN new = DOMAIN vms /\ \A v \in DOMAIN vms : VMRow(new[v])
<1>1. ASSUME NEW v \in DOMAIN vms PROVE VMRow(Touch(vms, ids, age)[v])
  <2>1. VMRow(vms[v])
    BY DEF Tables
  <2>2. CASE v \in ids
    BY <2>1, <2>2, VMRowKept DEF Touch
  <2>3. CASE v \notin ids
    BY <2>1, <2>3 DEF Touch
  <2> QED
    BY <2>2, <2>3
<1> QED
  BY <1>1 DEF Touch

\* Statements that neither add nor delete rows keep the tables sound.
LEMMA UpdatedTables ==
  ASSUME Tables, AgentHasVM, DOMAIN agents' = DOMAIN agents, DOMAIN vms' = DOMAIN vms,
         DOMAIN ifaces' = DOMAIN ifaces,
         \A a \in DOMAIN agents : AgentRow(agents'[a]) /\ agents'[a].vm = agents[a].vm,
         \A v \in DOMAIN vms : VMRow(vms'[v])
  PROVE  Tables' /\ AgentHasVM'
<1>1. Tables'
  BY DEF Tables, AgentRow, VMRow, Timely
<1>2. AgentHasVM'
  BY DEF AgentHasVM
<1> QED
  BY <1>1, <1>2

\* A registration is matched with a VM that may exist (agent_service.go:175-223).
LEMMA ResolvedIsVMID ==
  ASSUME Tables, NEW a \in Agents, NEW ip PROVE resolveIdentity(a, ip) \subseteq VMIDs
<1>1. ByMachine(a) \subseteq VMIDs /\ ByIP(ip) \subseteq VMIDs
  BY DEF ByMachine, ByIP, Latest, Tables
<1>2. ByAgent(a) \subseteq VMIDs
  BY DEF ByAgent, Tables, AgentRow
<1>3. ByMAC(a) \subseteq VMIDs
  BY DEF ByMAC, Tables
<1>4. stableVMID(a) \in VMIDs
  BY AgentsAssumption DEF VMIDs, Known
<1> QED
  BY <1>1, <1>2, <1>3, <1>4 DEF resolveIdentity
-----------------------------------------------------------------------------
(* Requests and the clients that wait for them.                            *)

\* What the steps do to a request.
LEMMA RequestKept ==
  ASSUME NEW r, RequestRow(r)
  PROVE  /\ \A q : q = [r EXCEPT !.live = FALSE] =>
              RequestRow(q) /\ q.agent = r.agent /\ ~q.live
         /\ \A q, v : q = [r EXCEPT !.step = 1, !.vm = v, !.age = 0] /\ v \in VMIDs =>
              RequestRow(q) /\ q.agent = r.agent /\ q.live = r.live
         /\ \A q : q \in {[r EXCEPT !.step = 1], [r EXCEPT !.step = 2]} /\ r.op = "heartbeat" =>
              RequestRow(q) /\ q.agent = r.agent /\ q.live = r.live
         /\ \A q : q = [r EXCEPT !.age = @ + 1] /\ r.age < RequestTimeout =>
              RequestRow(q) /\ q.agent = r.agent /\ q.live = r.live
<1> USE WindowsAssumption
<1>0. /\ r = [agent |-> r.agent, op |-> r.op, ip |-> r.ip, step |-> r.step, vm |-> r.vm,
              age |-> r.age, live |-> r.live]
      /\ r.agent \in Agents /\ r.step \in 0..2 /\ r.age \in 0..RequestTimeout
      /\ r.step = 1 /\ r.op = "register" => r.vm \in VMIDs
  BY DEF RequestRow
<1>1. ASSUME NEW q, q = [r EXCEPT !.live = FALSE] PROVE RequestRow(q) /\ q.agent = r.agent /\ ~q.live
  <2>1. q = [agent |-> r.agent, op |-> r.op, ip |-> r.ip, step |-> r.step, vm |-> r.vm,
             age |-> r.age, live |-> FALSE]
    BY <1>0, <1>1
  <2> QED
    <3>1. q.agent = r.agent /\ ~q.live
      BY <2>1
    <3>2. /\ q = [agent |-> q.agent, op |-> q.op, ip |-> q.ip, step |-> q.step, vm |-> q.vm,
                  age |-> q.age, live |-> q.live]
          /\ q.agent = r.agent /\ q.step = r.step /\ q.age = r.age /\ q.op = r.op /\ q.vm = r.vm
      BY <2>1, Zenon
    <3> QED
      BY <1>0, <3>1, <3>2, Zenon DEF RequestRow
<1>2. ASSUME NEW q, NEW v, q = [r EXCEPT !.step = 1, !.vm = v, !.age = 0], v \in VMIDs
      PROVE  RequestRow(q) /\ q.agent = r.agent /\ q.live = r.live
  <2>1. q = [agent |-> r.agent, op |-> r.op, ip |-> r.ip, step |-> 1, vm |-> v,
             age |-> 0, live |-> r.live]
    BY <1>0, <1>2
  <2>2. /\ q = [agent |-> q.agent, op |-> q.op, ip |-> q.ip, step |-> q.step, vm |-> q.vm,
                age |-> q.age, live |-> q.live]
        /\ q.agent = r.agent /\ q.step = 1 /\ q.vm = v /\ q.age = 0 /\ q.live = r.live
    BY <2>1, Zenon
  <2>3. 0 \in 0..RequestTimeout /\ 1 \in 0..2
    OBVIOUS
  <2> QED
    BY <1>0, <1>2, <2>2, <2>3, Zenon DEF RequestRow
<1>3. ASSUME NEW q, q \in {[r EXCEPT !.step = 1], [r EXCEPT !.step = 2]}, r.op = "heartbeat"
      PROVE  RequestRow(q) /\ q.agent = r.agent /\ q.live = r.live
  <2>1. PICK n \in 1..2 : q = [agent |-> r.agent, op |-> r.op, ip |-> r.ip, step |-> n,
                               vm |-> r.vm, age |-> r.age, live |-> r.live]
    BY <1>0, <1>3
  <2> QED
    BY <1>0, <1>3, <2>1 DEF RequestRow
<1>4. ASSUME NEW q, q = [r EXCEPT !.age = @ + 1], r.age < RequestTimeout
      PROVE  RequestRow(q) /\ q.agent = r.agent /\ q.live = r.live
  <2>1. q = [agent |-> r.agent, op |-> r.op, ip |-> r.ip, step |-> r.step, vm |-> r.vm,
             age |-> r.age + 1, live |-> r.live]
    BY <1>0, <1>4
  <2> QED
    BY <1>0, <1>4, <2>1 DEF RequestRow
<1> QED
  BY <1>1, <1>2, <1>3, <1>4

\* A request that is posted.
LEMMA NewRequest ==
  ASSUME NEW a \in Agents, NEW op
  PROVE  RequestRow(Request(a, op)) /\ Request(a, op).agent = a
  BY WindowsAssumption DEF Request, RequestRow

\* A handler's progress concerns no client.
LEMMA ReplaceRequest ==
  ASSUME Clients, Requests, NEW r \in requests, NEW q, RequestRow(q), q.agent = r.agent,
         q.live => r.live, requests' = (requests \ {r}) \cup {q}, proc' = proc
  PROVE  Clients' /\ Requests'
  BY DEF Clients, Requests, RequestRow

\* The client whose request has ended, timed out or been answered waits for no other.
LEMMA NoneElseLive ==
  ASSUME Clients, NEW r \in requests, r.live,
         NEW q \in requests, q # r, q.agent = r.agent
  PROVE  ~q.live
  BY DEF Clients

\* The client of r gets an error (main.go:284-304, heartbeat.go:20-29).
LEMMA ErrorKeepsClients ==
  ASSUME Clients, Requests, NEW r \in requests, r.live,
         NEW rest, \A q \in rest : RequestRow(q) /\ (q.live => q \in requests /\ q # r),
         ClientError(r, rest)
  PROVE  Clients' /\ Requests'
<1> DEFINE a == r.agent
<1>1. a \in Agents /\ proc[a] \in Awaiting /\ proc \in [Agents -> Awaiting \cup {"down", "start", "idle"}]
  BY DEF Clients, Requests, RequestRow
<1>2. \A q \in rest : q.live => q.agent # a /\ proc[q.agent] \in Awaiting /\ q.agent \in Agents
  BY NoneElseLive DEF Clients, RequestRow
<1>3. \A p, q \in rest : p.live /\ q.live /\ p.agent = q.agent => p = q
  BY DEF Clients
<1>4. /\ proc' \in [Agents -> Awaiting \cup {"down", "start", "idle"}]
      /\ \A b \in Agents : b # a => proc'[b] = proc[b]
      /\ proc[a] = "beating" => proc'[a] = "recovering"
  BY <1>1 DEF ClientError, Awaiting
<1>5. CASE proc[a] = "beating"
  <2> DEFINE new == Request(a, "register")
  <2>1. requests' = rest \cup {new} /\ RequestRow(new) /\ new.agent = a
    BY <1>1, <1>5, NewRequest DEF ClientError
  <2> HIDE DEF new
  <2>2. Requests'
    BY <2>1 DEF Requests, RequestRow
  <2>3. \A q \in requests' : q.live => proc'[q.agent] \in Awaiting
    BY <1>1, <1>2, <1>4, <1>5, <2>1 DEF Awaiting
  <2>4. \A p, q \in requests' : p.live /\ q.live /\ p.agent = q.agent => p = q
    BY <1>2, <1>3, <2>1
  <2> QED
    BY <1>4, <2>2, <2>3, <2>4 DEF Clients, Awaiting
<1>6. CASE proc[a] # "beating"
  <2>1. requests' = rest
    BY <1>6 DEF ClientError
  <2>2. Requests'
    BY <2>1 DEF Requests, RequestRow
  <2>3. \A q \in requests' : q.live => proc'[q.agent] \in Awaiting
    BY <1>2, <1>4, <2>1
  <2> QED
    BY <1>3, <1>4, <2>1, <2>2, <2>3 DEF Clients, Awaiting
<1> QED
  BY <1>5, <1>6

\* The request r is done with.
LEMMA AnswerKeepsClients ==
  ASSUME Clients, Requests, NEW r \in requests, Answer(r)
  PROVE  Clients' /\ Requests'
<1>1. r.agent \in Agents /\ requests' = requests \ {r}
  BY DEF Requests, RequestRow, Answer
<1>2. Requests'
  BY <1>1 DEF Requests, RequestRow
<1>3. CASE r.live
  <2>1. proc' = [proc EXCEPT ![r.agent] = "idle"]
    BY <1>3 DEF Answer
  <2>2. \A q \in requests' : q.live => q.agent # r.agent
    BY <1>1, <1>3, NoneElseLive
  <2> QED
    BY <1>1, <1>2, <2>1, <2>2 DEF Clients, Requests, RequestRow, Awaiting
<1>4. CASE ~r.live
  BY <1>1, <1>2, <1>4 DEF Answer, Clients, Awaiting
<1> QED
  BY <1>3, <1>4
-----------------------------------------------------------------------------
(* The agent process.                                                      *)

\* Steps that leave the tables alone.
LEMMA TablesUnchanged ==
  ASSUME Tables, AgentHasVM, Heard, UNCHANGED <<registry, heard>>
  PROVE  Tables' /\ AgentHasVM' /\ Heard'
<1>1. UNCHANGED <<agents, vms, ifaces, heard>>
  BY DEF registry
<1>2. Tables'
  BY <1>1 DEF Tables, AgentRow, VMRow, Timely
<1>3. AgentHasVM' /\ Heard'
  BY <1>1 DEF AgentHasVM, Heard
<1> QED
  BY <1>2, <1>3

\* Boot, RegisterUntilReady, HeartbeatTick: no request of the agent is awaited, or
\* the one it posts is the only one.
LEMMA PostKeepsClients ==
  ASSUME Clients, Requests, NEW a \in Agents, proc[a] \notin Awaiting,
         \/ /\ requests' = requests
            /\ \E s \in Awaiting \cup {"down", "start", "idle"} : proc' = [proc EXCEPT ![a] = s]
         \/ \E op : /\ requests' = requests \cup {Request(a, op)}
                    /\ \E s \in Awaiting : proc' = [proc EXCEPT ![a] = s]
  PROVE  Clients' /\ Requests'
<1>1. \A q \in requests : q.live => q.agent # a /\ q.agent \in Agents
  BY DEF Clients, Requests, RequestRow
<1>2. CASE /\ requests' = requests
           /\ \E s \in Awaiting \cup {"down", "start", "idle"} : proc' = [proc EXCEPT ![a] = s]
  BY <1>1, <1>2 DEF Clients, Requests, RequestRow, Awaiting
<1>3. ASSUME NEW op, requests' = requests \cup {Request(a, op)},
             \E s \in Awaiting : proc' = [proc EXCEPT ![a] = s]
      PROVE  Clients' /\ Requests'
  <2> DEFINE new == Request(a, op)
  <2>1. RequestRow(new) /\ new.agent = a /\ requests' = requests \cup {new}
    BY <1>3, NewRequest
  <2> HIDE DEF new
  <2>2. Requests'
    BY <2>1 DEF Requests, RequestRow
  <2>3. /\ proc' \in [Agents -> Awaiting \cup {"down", "start", "idle"}]
        /\ proc'[a] \in Awaiting /\ \A b \in Agents : b # a => proc'[b] = proc[b]
    BY <1>3 DEF Clients, Awaiting
  <2>4. \A q \in requests' : q.live => proc'[q.agent] \in Awaiting
    BY <1>1, <2>1, <2>3 DEF Clients
  <2>5. \A p, q \in requests' : p.live /\ q.live /\ p.agent = q.agent => p = q
    BY <1>1, <2>1 DEF Clients
  <2> QED
    BY <2>2, <2>3, <2>4, <2>5 DEF Clients, Awaiting
<1> QED
  BY <1>2, <1>3

\* A process that stops leaves its requests behind.
LEMMA StopKeepsClients ==
  ASSUME Clients, Requests, NEW a \in Agents, Stop(a)
  PROVE  Clients' /\ Requests'
<1> DEFINE Left(r) == IF r.agent = a THEN [r EXCEPT !.live = FALSE] ELSE r
<1>1. requests' = {Left(r) : r \in requests} /\ proc' = [proc EXCEPT ![a] = "down"]
  BY DEF Stop
<1>2. \A r \in requests : /\ RequestRow(Left(r)) /\ Left(r).agent = r.agent
                          /\ Left(r).live => r.agent # a /\ Left(r) = r
  <2> SUFFICES ASSUME NEW r \in requests
               PROVE  /\ RequestRow(Left(r)) /\ Left(r).agent = r.agent
                      /\ Left(r).live => r.agent # a /\ Left(r) = r
    OBVIOUS
  <2>1. RequestRow(r)
    BY DEF Requests
  <2>2. CASE r.agent = a
    <3>1. Left(r) = [r EXCEPT !.live = FALSE]
      BY <2>2
    <3> HIDE DEF Left
    <3>2. RequestRow(Left(r)) /\ Left(r).agent = r.agent /\ ~Left(r).live
      BY <2>1, <3>1, RequestKept
    <3> QED
      BY <3>2
  <2>3. CASE r.agent # a
    BY <2>1, <2>3
  <2> QED
    BY <2>2, <2>3
<1> HIDE DEF Left
<1>3. Requests'
  BY <1>1, <1>2 DEF Requests, RequestRow
<1>4. \A q \in requests' : q.live => q \in requests /\ q.agent # a /\ q.agent \in Agents
  BY <1>1, <1>2 DEF RequestRow
<1> QED
  BY <1>1, <1>3, <1>4 DEF Clients, Awaiting

\* No step of an agent other than FlowSeen touches the tables.
LEMMA AgentKeeps ==
  ASSUME RegistryInv, NEW a \in Agents,
         \/ \E ip \in load.addresses[a] : Boot(a, ip)
         \/ Stop(a) \/ RegisterUntilReady(a) \/ HeartbeatTick(a)
  PROVE  RegistryInv'
<1>1. Tables' /\ AgentHasVM' /\ Heard'
  BY TablesUnchanged DEF RegistryInv, Boot, Stop, RegisterUntilReady, HeartbeatTick
<1>2. CASE \E ip \in load.addresses[a] : Boot(a, ip)
  <2>1. Clients' /\ Requests'
    BY <1>2, PostKeepsClients DEF RegistryInv, Boot, Awaiting
  <2> QED
    BY <1>1, <2>1 DEF RegistryInv
<1>3. CASE Stop(a)
  BY <1>1, <1>3, StopKeepsClients DEF RegistryInv
<1>4. CASE RegisterUntilReady(a)
  <2>1. Clients' /\ Requests'
    BY <1>4, PostKeepsClients DEF RegistryInv, RegisterUntilReady, Awaiting
  <2> QED
    BY <1>1, <2>1 DEF RegistryInv
<1>5. CASE HeartbeatTick(a)
  <2>1. Clients' /\ Requests'
    BY <1>5, PostKeepsClients DEF RegistryInv, HeartbeatTick, Awaiting
  <2> QED
    BY <1>1, <2>1 DEF RegistryInv
<1> QED
  BY <1>2, <1>3, <1>4, <1>5

\* Nor do a client that gives up and a request that is lost.
LEMMA FailureKeeps ==
  ASSUME RegistryInv, NEW r \in requests, ClientTimeout(r) \/ RequestFails(r)
  PROVE  RegistryInv'
<1>1. Tables' /\ AgentHasVM' /\ Heard'
  BY TablesUnchanged DEF RegistryInv, ClientTimeout, RequestFails
<1>2. ASSUME ClientTimeout(r) PROVE Clients' /\ Requests'
  <2> DEFINE late == [r EXCEPT !.live = FALSE]
  <2>1. RequestRow(late) /\ ~late.live
    BY RequestKept DEF RegistryInv, Requests
  <2>2. r.live /\ ClientError(r, (requests \ {r}) \cup {late})
    BY <1>2 DEF ClientTimeout
  <2> HIDE DEF late
  <2> DEFINE rest == (requests \ {r}) \cup {late}
  <2>3. \A q \in rest : RequestRow(q) /\ (q.live => q \in requests /\ q # r)
    BY <2>1 DEF RegistryInv, Requests
  <2> HIDE DEF rest
  <2> QED
    BY <2>2, <2>3, ErrorKeepsClients DEF RegistryInv, rest
<1>3. ASSUME RequestFails(r) PROVE Clients' /\ Requests'
  <2>1. CASE r.live
    BY <1>3, <2>1, ErrorKeepsClients DEF RequestFails, RegistryInv, Requests
  <2>2. CASE ~r.live
    BY <1>3, <2>2 DEF RequestFails, RegistryInv, Requests, RequestRow, Clients, Awaiting
  <2> QED
    BY <2>1, <2>2
<1> QED
  BY <1>1, <1>2, <1>3 DEF RegistryInv
-----------------------------------------------------------------------------
(* AgentService.                                                           *)

\* A row that carries the clock of a handler is no older than the handler may be.
LEMMA HearKeepsHeard ==
  ASSUME Heard, Tables, NEW b \in Agents, NEW age \in 0..RequestTimeout,
         heard' = [heard EXCEPT ![b] = IF age < @ THEN age ELSE @],
         DOMAIN agents' \subseteq DOMAIN agents \cup {b},
         b \in DOMAIN agents' => agents'[b].age = age,
         \A a \in DOMAIN agents' \ {b} : agents'[a].age = agents[a].age
  PROVE  Heard'
<1>1. age \in 0..MaxAge /\ RequestTimeout \in Nat /\ age <= RequestTimeout /\ MaxAge \in Nat
  BY AgeFacts, WindowsAssumption
<1>2. /\ heard' \in [Agents -> 0..MaxAge]
      /\ \A a \in Agents \ {b} : heard'[a] = heard[a]
  BY <1>1 DEF Heard
<1>3. \A a \in Agents \cap DOMAIN agents' : agents'[a].age <= heard'[a] + RequestTimeout
  <2> SUFFICES ASSUME NEW a \in Agents \cap DOMAIN agents'
               PROVE  agents'[a].age <= heard'[a] + RequestTimeout
    OBVIOUS
  <2>1. CASE a = b
    <3>1. heard'[a] \in Nat /\ agents'[a].age = age
      BY <1>2, <2>1
    <3> QED
      BY <1>1, <3>1
  <2>2. CASE a # b
    BY <1>2, <2>2 DEF Heard
  <2> QED
    BY <2>1, <2>2
<1> QED
  BY <1>2, <1>3 DEF Heard

\* Register and Heartbeat before their first write.
LEMMA BeginKeeps ==
  ASSUME RegistryInv, NEW r \in requests, RegisterResolve(r) \/ HeartbeatReceive(r)
  PROVE  RegistryInv'
<1>1. Tables' /\ AgentHasVM' /\ Heard'
  BY TablesUnchanged DEF RegistryInv, RegisterResolve, HeartbeatReceive
<1>2. RequestRow(r) /\ r.agent \in Agents
  BY DEF RegistryInv, Requests, RequestRow
<1>3. \E q : /\ RequestRow(q) /\ q.agent = r.agent /\ q.live = r.live
             /\ requests' = (requests \ {r}) \cup {q} /\ proc' = proc
  <2>1. CASE RegisterResolve(r)
    <3>1. PICK v \in resolveIdentity(r.agent, r.ip) :
            requests' = (requests \ {r}) \cup {[r EXCEPT !.step = 1, !.vm = v, !.age = 0]}
      BY <2>1 DEF RegisterResolve
    <3>2. v \in VMIDs /\ proc' = proc
      BY <1>2, <2>1, <3>1, ResolvedIsVMID DEF RegistryInv, RegisterResolve, process
    <3> DEFINE q == [r EXCEPT !.step = 1, !.vm = v, !.age = 0]
    <3>3. RequestRow(q) /\ q.agent = r.agent /\ q.live = r.live
      BY <1>2, <3>2, RequestKept
    <3> HIDE DEF q
    <3>4. requests' = (requests \ {r}) \cup {q}
      BY <3>1 DEF q
    <3> QED
      BY <3>2, <3>3, <3>4
  <2>2. CASE HeartbeatReceive(r)
    <3>1. /\ requests' = (requests \ {r}) \cup {[r EXCEPT !.step = 1]}
          /\ proc' = proc /\ r.op = "heartbeat"
      BY <2>2 DEF HeartbeatReceive, process
    <3> DEFINE q == [r EXCEPT !.step = 1]
    <3>2. RequestRow(q) /\ q.agent = r.agent /\ q.live = r.live
      BY <1>2, <3>1, RequestKept
    <3> HIDE DEF q
    <3>3. requests' = (requests \ {r}) \cup {q}
      BY <3>1 DEF q
    <3> QED
      BY <3>1, <3>2, <3>3
  <2> QED
    BY <2>1, <2>2
<1>4. Clients' /\ Requests'
  BY <1>3, ReplaceRequest DEF RegistryInv
<1> QED
  BY <1>1, <1>4 DEF RegistryInv

\* Register commits: the VM row exists afterwards, whatever the sweep did in between.
LEMMA CommitKeeps ==
  ASSUME RegistryInv, NEW r \in requests, RegisterCommit(r)
  PROVE  RegistryInv'
<1> DEFINE a == r.agent
           v == r.vm
<1>1. a \in Agents /\ a \in Known /\ v \in VMIDs /\ r.age \in 0..RequestTimeout /\ r.age \in 0..MaxAge
  BY AgeFacts, WindowsAssumption, AgentsAssumption
     DEF RegistryInv, Requests, RequestRow, RegisterCommit, Known
<1>2. /\ DOMAIN agents' = DOMAIN agents \cup {a}
      /\ agents'[a] = [vm |-> v, status |-> "online", age |-> r.age]
      /\ \A b \in DOMAIN agents \ {a} : agents'[b] = agents[b]
  BY DEF RegisterCommit, Upsert
<1>3. PICK m, ip : /\ DOMAIN vms' = DOMAIN vms \cup {v}
                   /\ vms'[v] = [machine |-> m, agent |-> a, ip |-> ip, status |-> "online",
                                 age |-> r.age]
                   /\ \A w \in DOMAIN vms \ {v} : vms'[w] = vms[w]
  BY DEF RegisterCommit, Upsert
<1>4. AgentRow(agents'[a])
  BY <1>1, <1>2, OnlineIsTimely DEF AgentRow
<1>5. VMRow(vms'[v])
  BY <1>1, <1>3, OnlineIsTimely DEF VMRow
<1>6. \A i \in DOMAIN ifaces' : i.vm \in VMIDs
  BY <1>1 DEF RegisterCommit, Upsert, RegistryInv, Tables
<1>7. Tables'
  <2>1. DOMAIN agents' \subseteq Known /\ \A b \in DOMAIN agents' : AgentRow(agents'[b])
    BY <1>1, <1>2, <1>4 DEF RegistryInv, Tables
  <2>2. DOMAIN vms' \subseteq VMIDs /\ \A w \in DOMAIN vms' : VMRow(vms'[w])
    BY <1>1, <1>3, <1>5 DEF RegistryInv, Tables
  <2> QED
    BY <1>6, <2>1, <2>2 DEF Tables, AgentRow, VMRow, Timely
<1>8. AgentHasVM'
  BY <1>2, <1>3 DEF RegistryInv, AgentHasVM
<1>9. Heard'
  <2>1. heard' = [heard EXCEPT ![a] = IF r.age < @ THEN r.age ELSE @]
    BY DEF RegisterCommit, Hear
  <2>2. agents'[a].age = r.age /\ \A b \in DOMAIN agents' \ {a} : agents'[b].age = agents[b].age
    BY <1>2
  <2> HIDE DEF a
  <2> QED
    BY <1>1, <1>2, <2>1, <2>2, HearKeepsHeard DEF RegistryInv
<1>10. Clients' /\ Requests'
  BY AnswerKeepsClients DEF RegistryInv, RegisterCommit
<1> QED
  BY <1>7, <1>8, <1>9, <1>10 DEF RegistryInv

\* The two statements of a heartbeat, and the refresh in Ingest.
LEMMA TouchKeeps ==
  ASSUME RegistryInv,
         \/ \E r \in requests : HeartbeatAgents(r) \/ HeartbeatVMs(r)
         \/ \E a \in Agents : FlowSeen(a)
  PROVE  RegistryInv'
<1>1. ASSUME NEW r \in requests, HeartbeatAgents(r) PROVE RegistryInv'
  <2>1. RequestRow(r) /\ r.agent \in Agents /\ r.age \in 0..RequestTimeout /\ r.age \in 0..MaxAge
    BY AgeFacts, WindowsAssumption DEF RegistryInv, Requests, RequestRow
  <2>2. CASE r.agent \notin DOMAIN agents
    BY <1>1, <2>2, FailureKeeps DEF HeartbeatAgents
  <2>3. CASE r.agent \in DOMAIN agents
    <3>1. /\ agents' = Touch(agents, {r.agent}, r.age) /\ r.op = "heartbeat"
          /\ requests' = (requests \ {r}) \cup {[r EXCEPT !.step = 2]}
          /\ Hear(r) /\ UNCHANGED <<proc, vms, ifaces>>
      BY <1>1, <2>3 DEF HeartbeatAgents
    <3>2. /\ DOMAIN agents' = DOMAIN agents
          /\ \A a \in DOMAIN agents :
               /\ AgentRow(agents'[a]) /\ agents'[a].vm = agents[a].vm
               /\ agents'[a].age = IF a \in {r.agent} THEN r.age ELSE agents[a].age
      BY <2>1, <3>1, TouchAgents DEF RegistryInv
    <3>3. Tables' /\ AgentHasVM'
      BY <3>1, <3>2, UpdatedTables DEF RegistryInv, Tables
    <3>4. Heard'
      BY <2>1, <2>3, <3>1, <3>2, HearKeepsHeard DEF RegistryInv, Hear
    <3> DEFINE q == [r EXCEPT !.step = 2]
    <3>5. RequestRow(q) /\ q.agent = r.agent /\ q.live = r.live
      BY <2>1, <3>1, RequestKept
    <3> HIDE DEF q
    <3>6. requests' = (requests \ {r}) \cup {q}
      BY <3>1 DEF q
    <3>7. Clients' /\ Requests'
      BY <3>1, <3>5, <3>6, ReplaceRequest DEF RegistryInv
    <3> QED
      BY <3>3, <3>4, <3>7 DEF RegistryInv
  <2> QED
    BY <2>2, <2>3
<1>2. ASSUME NEW r \in requests, HeartbeatVMs(r) PROVE RegistryInv'
  <2>1. r.age \in 0..MaxAge
    BY AgeFacts, WindowsAssumption DEF RegistryInv, Requests, RequestRow
  <2>2. UNCHANGED <<agents, ifaces, heard>> /\ Answer(r)
        /\ vms' = Touch(vms, {v \in DOMAIN vms : vms[v].agent = r.agent}, r.age)
    BY <1>2 DEF HeartbeatVMs
  <2>3. DOMAIN vms' = DOMAIN vms /\ \A v \in DOMAIN vms : VMRow(vms'[v])
    BY <2>1, <2>2, TouchVMs DEF RegistryInv
  <2>4. Tables' /\ AgentHasVM'
    BY <2>2, <2>3, UpdatedTables DEF RegistryInv, Tables
  <2>5. Heard'
    BY <2>2 DEF RegistryInv, Heard
  <2>6. Clients' /\ Requests'
    BY <2>2, AnswerKeepsClients DEF RegistryInv
  <2> QED
    BY <2>4, <2>5, <2>6 DEF RegistryInv
<1>3. ASSUME NEW a \in Agents, FlowSeen(a) PROVE RegistryInv'
  <2>1. 0 \in 0..MaxAge /\ 0 \in 0..RequestTimeout
    BY AgeFacts, WindowsAssumption
  <2>2. /\ agents' = Touch(agents, {a}, 0) /\ vms' = Touch(vms, {agents[a].vm}, 0)
        /\ heard' = [heard EXCEPT ![a] = IF 0 < @ THEN 0 ELSE @]
        /\ UNCHANGED <<proc, requests, ifaces>> /\ a \in DOMAIN agents
    BY <1>3 DEF FlowSeen, IngestTouch, process
  <2>3. /\ DOMAIN agents' = DOMAIN agents
        /\ \A b \in DOMAIN agents :
             /\ AgentRow(agents'[b]) /\ agents'[b].vm = agents[b].vm
             /\ agents'[b].age = IF b \in {a} THEN 0 ELSE agents[b].age
    BY <2>1, <2>2, TouchAgents DEF RegistryInv
  <2>4. DOMAIN vms' = DOMAIN vms /\ \A v \in DOMAIN vms : VMRow(vms'[v])
    BY <2>1, <2>2, TouchVMs DEF RegistryInv
  <2>5. Tables' /\ AgentHasVM'
    BY <2>2, <2>3, <2>4, UpdatedTables DEF RegistryInv
  <2>6. Heard'
    BY <2>1, <2>2, <2>3, HearKeepsHeard DEF RegistryInv
  <2>7. Clients' /\ Requests'
    BY <2>2 DEF RegistryInv, Clients, Requests, RequestRow, Awaiting
  <2> QED
    BY <2>5, <2>6, <2>7 DEF RegistryInv
<1> QED
  BY <1>1, <1>2, <1>3
-----------------------------------------------------------------------------
(* The sweep and the clock.                                                *)

\* UpdateStatuses sets every status from the row's age.
LEMMA StatusesKeep ==
  ASSUME RegistryInv, UpdateStatuses \/ UpdateStatusesFails
  PROVE  RegistryInv'
<1>1. UNCHANGED <<proc, requests, ifaces, heard>>
  BY DEF UpdateStatuses, UpdateStatusesFails, process, registry
<1>2. Clients' /\ Requests'
  BY <1>1 DEF RegistryInv, Clients, Requests, RequestRow, Awaiting
<1>3. CASE UpdateStatusesFails
  BY <1>2, <1>3, TablesUnchanged DEF RegistryInv, UpdateStatusesFails
<1>4. CASE UpdateStatuses
  <2>1. agents' = Restatus(agents) /\ vms' = Restatus(vms)
    BY <1>4 DEF UpdateStatuses
  <2>2. DOMAIN agents' = DOMAIN agents /\ DOMAIN vms' = DOMAIN vms
    BY <2>1 DEF Restatus
  <2>3. \A a \in DOMAIN agents : /\ AgentRow(agents'[a]) /\ agents'[a].vm = agents[a].vm
                                 /\ agents'[a].age = agents[a].age
    <3> SUFFICES ASSUME NEW a \in DOMAIN agents
                 PROVE  /\ AgentRow(agents'[a]) /\ agents'[a].vm = agents[a].vm
                        /\ agents'[a].age = agents[a].age
      OBVIOUS
    <3>1. AgentRow(agents[a]) /\ agents[a].age \in 0..MaxAge
      BY DEF RegistryInv, Tables, AgentRow, Timely
    <3>2. agents'[a] = [agents[a] EXCEPT !.status = agentStatusForLastSeen(agents[a].age)]
      BY <2>1 DEF Restatus
    <3>3. LET new == [agents[a] EXCEPT !.status = agentStatusForLastSeen(agents[a].age)]
          IN  AgentRow(new) /\ new.vm = agents[a].vm /\ new.age = agents[a].age
      BY <3>1, AgentRowKept
    <3> QED
      BY <3>2, <3>3
  <2>4. \A v \in DOMAIN vms : VMRow(vms'[v])
    <3> SUFFICES ASSUME NEW v \in DOMAIN vms PROVE VMRow(vms'[v])
      OBVIOUS
    <3>1. VMRow(vms[v]) /\ vms[v].age \in 0..MaxAge
      BY DEF RegistryInv, Tables, VMRow, Timely
    <3>2. vms'[v] = [vms[v] EXCEPT !.status = agentStatusForLastSeen(vms[v].age)]
      BY <2>1 DEF Restatus
    <3>3. VMRow([vms[v] EXCEPT !.status = agentStatusForLastSeen(vms[v].age)])
      BY <3>1, VMRowKept
    <3> QED
      BY <3>2, <3>3
  <2>5. Tables' /\ AgentHasVM'
    BY <1>1, <2>2, <2>3, <2>4, UpdatedTables DEF RegistryInv
  <2>6. Heard'
    BY <1>1, <2>2, <2>3 DEF RegistryInv, Heard
  <2> QED
    BY <1>2, <2>5, <2>6 DEF RegistryInv
<1> QED
  BY <1>3, <1>4

\* DeleteExpired removes a VM together with all the agents bound to it.
LEMMA DeletionKeeps ==
  ASSUME RegistryInv, NEW skipped, DeleteExpired(skipped)
  PROVE  RegistryInv'
<1>1. PICK gone :
        /\ agents' = Restrict(agents, {a \in DOMAIN agents : agents[a].vm \notin gone})
        /\ vms' = Restrict(vms, DOMAIN vms \ gone)
        /\ ifaces' = Restrict(ifaces, {i \in DOMAIN ifaces : i.vm \notin gone})
        /\ UNCHANGED <<proc, requests, heard>>
  BY DEF DeleteExpired, process
<1>2. /\ DOMAIN agents' = {a \in DOMAIN agents : agents[a].vm \notin gone}
      /\ \A a \in DOMAIN agents' : agents'[a] = agents[a]
      /\ DOMAIN vms' = DOMAIN vms \ gone
      /\ \A v \in DOMAIN vms' : vms'[v] = vms[v]
      /\ DOMAIN ifaces' \subseteq DOMAIN ifaces
  BY <1>1 DEF Restrict
<1>3. Tables'
  <2>1. DOMAIN agents' \subseteq Known /\ \A a \in DOMAIN agents' : AgentRow(agents'[a])
    BY <1>2 DEF RegistryInv, Tables
  <2>2. DOMAIN vms' \subseteq VMIDs /\ \A v \in DOMAIN vms' : VMRow(vms'[v])
    BY <1>2 DEF RegistryInv, Tables
  <2>3. \A i \in DOMAIN ifaces' : i.vm \in VMIDs
    BY <1>2 DEF RegistryInv, Tables
  <2> QED
    BY <2>1, <2>2, <2>3 DEF Tables, AgentRow, VMRow, Timely
<1>4. AgentHasVM'
  BY <1>2 DEF RegistryInv, AgentHasVM
<1>5. Heard'
  BY <1>1, <1>2 DEF RegistryInv, Heard
<1>6. Clients' /\ Requests'
  BY <1>1 DEF RegistryInv, Clients, Requests, RequestRow, Awaiting
<1> QED
  BY <1>3, <1>4, <1>5, <1>6 DEF RegistryInv

\* Time passes for the rows, the handlers and the observer alike.
LEMMA TickKeeps ==
  ASSUME RegistryInv, Tick
  PROVE  RegistryInv'
<1>1. /\ agents' = [a \in DOMAIN agents |-> [agents[a] EXCEPT !.age = Older(@)]]
      /\ vms' = [v \in DOMAIN vms |-> [vms[v] EXCEPT !.age = Older(@)]]
      /\ DOMAIN ifaces' = DOMAIN ifaces
      /\ heard' = [a \in Agents |-> Older(heard[a])]
      /\ proc' = proc
  BY DEF Tick, process
<1>2. DOMAIN agents' = DOMAIN agents /\ DOMAIN vms' = DOMAIN vms
  BY <1>1
<1>3. \A a \in DOMAIN agents : /\ AgentRow(agents'[a]) /\ agents'[a].vm = agents[a].vm
                               /\ agents'[a].age = Older(agents[a].age)
  <2> SUFFICES ASSUME NEW a \in DOMAIN agents
               PROVE  /\ AgentRow(agents'[a]) /\ agents'[a].vm = agents[a].vm
                      /\ agents'[a].age = Older(agents[a].age)
    OBVIOUS
  <2>1. AgentRow(agents[a]) /\ agents[a].age \in 0..MaxAge
    BY DEF RegistryInv, Tables, AgentRow, Timely
  <2>2. agents'[a] = [agents[a] EXCEPT !.age = Older(@)]
    BY <1>1
  <2>3. LET new == [agents[a] EXCEPT !.age = Older(@)]
        IN  AgentRow(new) /\ new.vm = agents[a].vm /\ new.age = Older(agents[a].age)
    BY <2>1, AgentRowKept
  <2> QED
    BY <2>2, <2>3
<1>4. \A v \in DOMAIN vms : VMRow(vms'[v])
  <2> SUFFICES ASSUME NEW v \in DOMAIN vms PROVE VMRow(vms'[v])
    OBVIOUS
  <2>1. VMRow(vms[v]) /\ vms[v].age \in 0..MaxAge
    BY DEF RegistryInv, Tables, VMRow, Timely
  <2>2. vms'[v] = [vms[v] EXCEPT !.age = Older(@)]
    BY <1>1
  <2>3. VMRow([vms[v] EXCEPT !.age = Older(@)])
    BY <2>1, VMRowKept
  <2> QED
    BY <2>2, <2>3
<1>5. Tables' /\ AgentHasVM'
  BY <1>1, <1>2, <1>3, <1>4, UpdatedTables DEF RegistryInv
<1>6. Heard'
  <2>1. heard' \in [Agents -> 0..MaxAge]
    BY <1>1, AgeFacts DEF RegistryInv, Heard
  <2>2. ASSUME NEW a \in Agents \cap DOMAIN agents'
        PROVE  agents'[a].age <= heard'[a] + RequestTimeout
    <3>1. /\ agents[a].age \in 0..MaxAge /\ heard[a] \in 0..MaxAge
          /\ agents[a].age <= heard[a] + RequestTimeout
      BY <1>2 DEF RegistryInv, Tables, AgentRow, Timely, Heard
    <3>2. agents'[a].age = Older(agents[a].age) /\ heard'[a] = Older(heard[a])
      BY <1>1, <1>2, <1>3
    <3>3. MaxAge \in Nat /\ RequestTimeout \in Nat
      BY AgeFacts, WindowsAssumption
    <3> QED
      BY <3>1, <3>2, <3>3 DEF Older
  <2> QED
    BY <2>1, <2>2 DEF Heard
<1> DEFINE Aged(r) == IF r.step > 0 THEN [r EXCEPT !.age = @ + 1] ELSE r
<1>7. requests' = {Aged(r) : r \in requests}
  BY DEF Tick
<1>8. \A r \in requests : /\ RequestRow(Aged(r)) /\ Aged(r).agent = r.agent
                          /\ Aged(r).live = r.live
  <2> SUFFICES ASSUME NEW r \in requests
               PROVE  RequestRow(Aged(r)) /\ Aged(r).agent = r.agent /\ Aged(r).live = r.live
    OBVIOUS
  <2>1. RequestRow(r)
    BY DEF RegistryInv, Requests
  <2>2. CASE r.step > 0
    <3>1. Aged(r) = [r EXCEPT !.age = @ + 1] /\ r.age < RequestTimeout
      BY <2>2 DEF Tick
    <3> HIDE DEF Aged
    <3> QED
      BY <2>1, <3>1, RequestKept
  <2>3. CASE ~(r.step > 0)
    BY <2>1, <2>3
  <2> QED
    BY <2>2, <2>3
<1> HIDE DEF Aged
<1>9. Requests'
  BY <1>7, <1>8 DEF Requests, RequestRow
<1>10. Clients'
  BY <1>1, <1>7, <1>8 DEF RegistryInv, Clients, Awaiting
<1> QED
  BY <1>5, <1>6, <1>9, <1>10 DEF RegistryInv
-----------------------------------------------------------------------------
(* The invariant holds, and what follows from it.                          *)

\* The rows that departed agents have left behind are old and shown offline.
LEMMA InitEstablishes == RegistryInit => RegistryInv
<1> SUFFICES ASSUME RegistryInit PROVE RegistryInv
  OBVIOUS
<1> DEFINE D == DOMAIN load.departed
<1>1. D \subseteq Known
  BY AgentsAssumption DEF RegistryInit, Known
<1>2. MaxAge \in 0..MaxAge /\ MaxAge > OnlineWindow /\ MaxAge > StaleWindow
  BY AgeFacts
<1>3. /\ DOMAIN agents = D
      /\ \A a \in D : agents[a] = [vm |-> stableVMID(a), status |-> "offline", age |-> MaxAge]
  BY DEF RegistryInit
<1>4. \A a \in DOMAIN agents : /\ AgentRow(agents[a])
                              /\ agents[a].vm = stableVMID(a) /\ agents[a].age = MaxAge
  <2> SUFFICES ASSUME NEW a \in DOMAIN agents
               PROVE  /\ AgentRow(agents[a])
                      /\ agents[a].vm = stableVMID(a) /\ agents[a].age = MaxAge
    OBVIOUS
  <2>1. agents[a] = [vm |-> stableVMID(a), status |-> "offline", age |-> MaxAge]
    BY <1>3
  <2>2. stableVMID(a) \in VMIDs
    BY <1>1, <1>3 DEF VMIDs
  <2> QED
    BY <1>2, <2>1, <2>2 DEF AgentRow, Timely, Statuses
<1>5. DOMAIN vms = {stableVMID(a) : a \in D}
  BY DEF RegistryInit
<1>6. \A v \in DOMAIN vms : VMRow(vms[v])
  <2> SUFFICES ASSUME NEW v \in DOMAIN vms PROVE VMRow(vms[v])
    OBVIOUS
  <2> DEFINE a == CHOOSE b \in D : stableVMID(b) = v
  <2>1. a \in D
    BY <1>5
  <2>2. vms[v] = [machine |-> Machine[a], agent |-> a, ip |-> load.departed[a],
                  status |-> "offline", age |-> MaxAge]
    BY <1>5 DEF RegistryInit
  <2> HIDE DEF a
  <2> QED
    BY <1>1, <1>2, <2>1, <2>2 DEF VMRow, Timely, Statuses
<1>7. \A i \in DOMAIN ifaces : i.vm \in VMIDs
  BY <1>1 DEF RegistryInit, VMIDs
<1>8. Tables
  BY <1>1, <1>3, <1>4, <1>5, <1>6, <1>7 DEF Tables, VMIDs
<1>9. AgentHasVM
  BY <1>3, <1>4, <1>5 DEF AgentHasVM
<1>10. Heard
  <2>1. heard = [a \in Agents |-> MaxAge]
    BY DEF RegistryInit
  <2>2. RequestTimeout \in Nat /\ MaxAge \in Nat
    BY AgeFacts, WindowsAssumption
  <2> QED
    BY <1>2, <1>4, <2>1, <2>2 DEF Heard
<1>11. Requests /\ Clients
  BY DEF RegistryInit, Requests, Clients, Awaiting
<1> QED
  BY <1>8, <1>9, <1>10, <1>11 DEF RegistryInv

\* Every step keeps the invariant.
LEMMA StepKeeps ==
  RegistryInv /\ [Next]_<<load, registryVars>> => RegistryInv'
<1> SUFFICES ASSUME RegistryInv, [Next]_<<load, registryVars>> PROVE RegistryInv'
  OBVIOUS
<1>1. ASSUME NEW a \in Agents, AgentStep(a) PROVE RegistryInv'
  BY <1>1, AgentKeeps, TouchKeeps DEF AgentStep
<1>2. ASSUME NEW r \in requests, Handler(r) PROVE RegistryInv'
  BY <1>2, BeginKeeps, CommitKeeps, TouchKeeps DEF Handler
<1>3. ASSUME NEW r \in requests, ClientTimeout(r) \/ RequestFails(r) PROVE RegistryInv'
  BY <1>3, FailureKeeps
<1>4. CASE UpdateStatuses \/ UpdateStatusesFails
  BY <1>4, StatusesKeep
<1>5. ASSUME NEW skipped, DeleteExpired(skipped) PROVE RegistryInv'
  BY <1>5, DeletionKeeps
<1>6. CASE Tick
  BY <1>6, TickKeeps
<1>7. CASE UNCHANGED <<load, registryVars>>
  <2>1. UNCHANGED <<proc, requests, registry, heard>>
    BY <1>7 DEF registryVars, process
  <2>2. Clients' /\ Requests'
    BY <2>1 DEF RegistryInv, Clients, Requests, RequestRow, Awaiting
  <2> QED
    BY <2>1, <2>2, TablesUnchanged DEF RegistryInv
<1> QED
  BY <1>1, <1>2, <1>3, <1>4, <1>5, <1>6, <1>7 DEF Next

\* The inductive invariant is an invariant.
THEOREM RegistryInvariant == Spec => []RegistryInv
<1> QED
  BY InitEstablishes, StepKeeps, PTL DEF Spec

\* Rows and requests have their types, in particular a registration is always matched
\* with a VM id (agent_service.go:175-223).
THEOREM RegistryTypeCorrect == Spec => []TypeOK
<1>1. RegistryInv => TypeOK
  <2> SUFFICES ASSUME RegistryInv PROVE TypeOK
    OBVIOUS
  <2>1. proc \in [Agents -> {"down", "start", "starting", "idle", "beating", "recovering"}]
    BY DEF RegistryInv, Clients, Awaiting
  <2>2. \A a \in DOMAIN agents : /\ agents[a].vm \in VMIDs
                                 /\ agents[a].status \in Statuses
                                 /\ agents[a].age \in 0..MaxAge
    BY DEF RegistryInv, Tables, AgentRow, Timely
  <2>3. \A v \in DOMAIN vms : /\ vms[v].agent \in Known
                              /\ vms[v].status \in Statuses
                              /\ vms[v].age \in 0..MaxAge
    BY DEF RegistryInv, Tables, VMRow, Timely
  <2>4. DOMAIN agents \subseteq Known /\ DOMAIN vms \subseteq VMIDs
    BY DEF RegistryInv, Tables
  <2>5. \A r \in requests : /\ r.agent \in Agents
                            /\ r.step \in 0..2
                            /\ r.age \in 0..RequestTimeout
                            /\ r.step = 1 /\ r.op = "register" => r.vm \in VMIDs
    BY DEF RegistryInv, Requests, RequestRow
  <2> QED
    BY <2>1, <2>2, <2>3, <2>4, <2>5 DEF TypeOK
<1> QED
  BY <1>1, RegistryInvariant, PTL

\* No row of agents names a VM that is not there (agent_service.go:93-140, 381-386).
THEOREM NoDanglingVM == Spec => []AgentHasVM
<1>1. RegistryInv => AgentHasVM
  BY DEF RegistryInv
<1> QED
  BY <1>1, RegistryInvariant, PTL

\* No row is shown stale or offline before its last_seen has left the window.
THEOREM OfflineIsNotEarly == Spec => []NeverOfflineEarly
<1>1. RegistryInv => NeverOfflineEarly
  BY DEF RegistryInv, Tables, AgentRow, VMRow, Timely, NeverOfflineEarly
<1> QED
  BY <1>1, RegistryInvariant, PTL

\* Only DeleteExpired removes a row of agents.
LEMMA OnlyDeletionRemoves ==
  ASSUME RegistryInv, [Next]_<<load, registryVars>>,
         ~ \E skipped \in SUBSET DOMAIN vms : DeleteExpired(skipped)
  PROVE  DOMAIN agents \subseteq DOMAIN agents'
<1>1. ASSUME NEW a \in Agents, AgentStep(a) PROVE DOMAIN agents \subseteq DOMAIN agents'
  BY <1>1 DEF AgentStep, Boot, Stop, RegisterUntilReady, HeartbeatTick, FlowSeen, IngestTouch,
              Touch, registry
<1>2. ASSUME NEW r \in requests, Handler(r) PROVE DOMAIN agents \subseteq DOMAIN agents'
  BY <1>2 DEF Handler, RegisterResolve, RegisterCommit, HeartbeatReceive, HeartbeatAgents,
              HeartbeatVMs, RequestFails, Upsert, Touch, registry
<1>3. ASSUME NEW r \in requests, ClientTimeout(r) \/ RequestFails(r)
      PROVE  DOMAIN agents \subseteq DOMAIN agents'
  BY <1>3 DEF ClientTimeout, RequestFails, registry
<1>4. CASE UpdateStatuses \/ UpdateStatusesFails
  BY <1>4 DEF UpdateStatuses, UpdateStatusesFails, Restatus, registry
<1>5. CASE Tick
  BY <1>5 DEF Tick
<1>6. CASE UNCHANGED <<load, registryVars>>
  BY <1>6 DEF registryVars, registry
<1> QED
  BY <1>1, <1>2, <1>3, <1>4, <1>5, <1>6 DEF Next

\* The sweep takes an agent that has a VM of its own only when the backend has not
\* heard from it for the retention window, less the time a handler may take
\* (agent_service.go:333-392).
THEOREM OnlySilentAgentsReaped == Spec => OwnVMReapedOnlyIfSilent
<1> DEFINE Step == \A a \in Agents \cap (DOMAIN agents \ DOMAIN agents') :
                     (\A b \in DOMAIN agents \ {a} : agents[b].vm # agents[a].vm) => Silent(a)
<1>1. RegistryInv /\ [Next]_<<load, registryVars>> => [Step]_registryVars
  <2> SUFFICES ASSUME RegistryInv, [Next]_<<load, registryVars>>,
                      NEW a \in Agents \cap (DOMAIN agents \ DOMAIN agents'),
                      \A b \in DOMAIN agents \ {a} : agents[b].vm # agents[a].vm
               PROVE  Silent(a)
    OBVIOUS
  <2>1. PICK skipped \in SUBSET DOMAIN vms : DeleteExpired(skipped)
    BY OnlyDeletionRemoves
  <2>2. agents[a].vm \in Expired
    BY <2>1 DEF DeleteExpired, Restrict
  <2>3. agents[a].age > DeleteAfter
    BY <2>2 DEF Expired
  <2>4. /\ agents[a].age \in 0..MaxAge /\ heard[a] \in 0..MaxAge
        /\ agents[a].age <= heard[a] + RequestTimeout
    BY DEF RegistryInv, Tables, AgentRow, Timely, Heard
  <2>5. MaxAge \in Nat /\ RequestTimeout \in Nat /\ DeleteAfter \in Nat
    BY AgeFacts, WindowsAssumption
  <2> QED
    BY <2>3, <2>4, <2>5 DEF Silent
<1> QED
  BY <1>1, RegistryInvariant, PTL DEF Spec, OwnVMReapedOnlyIfSilent
-----------------------------------------------------------------------------
(* A registered agent keeps its VM.                                        *)

\* One agent runs per machine.
DistinctMachines ==
  \A a, b \in Agents : Machine[a] # None /\ Machine[a] = Machine[b] => a = b

\* The VM rows that carry the machine id of a.
MachineRows(a) == {v \in DOMAIN vms : Machine[a] # None /\ vms[v].machine = Machine[a]}

\* A registration between its resolution and its commit.
Resolved(r) == r.op = "register" /\ r.step = 1

\* Every request is awaited; at most one row carries the machine id of a running agent,
\* and it is the row the agent is bound to or its registration has resolved.
StableInv ==
  /\ IsFiniteSet(requests) /\ \A r \in requests : r.live
  /\ \A a \in Agents : \A u, v \in MachineRows(a) : u = v
  /\ \A a \in Agents \cap DOMAIN agents : MachineRows(a) \subseteq {agents[a].vm}
  /\ \A r \in requests : Resolved(r) =>
       /\ MachineRows(r.agent) \subseteq {r.vm}
       /\ r.agent \in DOMAIN agents => agents[r.agent].vm = r.vm

\* A step that gives no row another machine id and no agent another VM.
Keeping ==
  /\ DOMAIN vms' \subseteq DOMAIN vms
  /\ \A v \in DOMAIN vms' : vms'[v].machine = vms[v].machine
  /\ DOMAIN agents' \subseteq DOMAIN agents
  /\ \A a \in DOMAIN agents' : agents'[a].vm = agents[a].vm

\* The requests of a step that resolves none: awaited, and resolved only if they were.
Awaited(S) ==
  /\ IsFiniteSet(S)
  /\ \A q \in S : /\ q.live
                  /\ Resolved(q) => \E r \in requests :
                                      Resolved(r) /\ r.agent = q.agent /\ r.vm = q.vm

\* Such steps keep StableInv.
LEMMA KeepingKeeps ==
  ASSUME StableInv, Keeping, Awaited(requests')
  PROVE  StableInv'
<1>1. \A a : MachineRows(a)' \subseteq MachineRows(a)
  BY DEF Keeping, MachineRows
<1>2. \A a \in Agents : \A u, v \in MachineRows(a)' : u = v
  BY <1>1, Zenon DEF StableInv
<1>3. \A a \in Agents \cap DOMAIN agents' : MachineRows(a)' \subseteq {agents'[a].vm}
  BY <1>1 DEF StableInv, Keeping
<1>4. ASSUME NEW q \in requests', Resolved(q)
      PROVE  /\ MachineRows(q.agent)' \subseteq {q.vm}
             /\ q.agent \in DOMAIN agents' => agents'[q.agent].vm = q.vm
  <2>1. PICK r \in requests : Resolved(r) /\ r.agent = q.agent /\ r.vm = q.vm
    BY <1>4, Zenon DEF Awaited
  <2>2. /\ MachineRows(r.agent) \subseteq {r.vm}
        /\ r.agent \in DOMAIN agents => agents[r.agent].vm = r.vm
    BY <2>1, Zenon DEF StableInv
  <2>3. MachineRows(q.agent)' \subseteq {q.vm}
    BY <1>1, <2>1, <2>2
  <2> QED
    BY <2>1, <2>2, <2>3 DEF Keeping
<1>5. IsFiniteSet(requests') /\ \A q \in requests' : q.live
  BY Zenon DEF Awaited
<1> QED
  BY <1>2, <1>3, <1>4, <1>5, Zenon DEF StableInv, Resolved

\* The rows of a: at most one, so that the newest is the only one.
LEMMA NewestOfOne ==
  ASSUME Tables, NEW a, \A u, v \in MachineRows(a) : u = v
  PROVE  ByMachine(a) = MachineRows(a)
<1>1. ByMachine(a) = {v \in MachineRows(a) : \A w \in MachineRows(a) : vms[v].age <= vms[w].age}
  BY DEF ByMachine, Latest, MachineRows
<1>2. \A v \in MachineRows(a) : vms[v].age \in 0..MaxAge
  BY DEF MachineRows, Tables, VMRow, Timely
<1>3. \A v \in MachineRows(a) : vms[v].age <= vms[v].age
  BY <1>2, AgeFacts
<1> QED
  BY <1>1, <1>3, Zenon

\* A registration is resolved to the row of its machine, or else to the one its agent is
\* bound to (agent_service.go:175-223).
LEMMA ResolveStable ==
  ASSUME RegistryInv, StableInv, NEW a \in Agents, NEW ip,
         NEW v \in resolveIdentity(a, ip)
  PROVE  /\ MachineRows(a) \subseteq {v}
         /\ a \in DOMAIN agents => agents[a].vm = v
<1>1. /\ \A u, w \in MachineRows(a) : u = w
      /\ a \in DOMAIN agents => MachineRows(a) \subseteq {agents[a].vm}
  BY DEF StableInv
<1>2. ByMachine(a) = MachineRows(a)
  BY <1>1, NewestOfOne DEF RegistryInv
<1>3. CASE MachineRows(a) # {}
  <2>1. v \in MachineRows(a)
    BY <1>2, <1>3 DEF resolveIdentity
  <2> QED
    BY <1>1, <2>1
<1>4. CASE MachineRows(a) = {}
  <2>1. ASSUME a \in DOMAIN agents PROVE agents[a].vm = v
    <3>1. ByAgent(a) = {agents[a].vm}
      BY <2>1 DEF ByAgent
    <3> QED
      BY <1>2, <1>4, <3>1 DEF resolveIdentity
  <2> QED
    BY <1>4, <2>1
<1> QED
  BY <1>3, <1>4

\* An update with a new last_seen or a new status changes no binding.
LEMMA UpdatesKeep ==
  ASSUME Tables, NEW ids, NEW age
  PROVE  /\ \A v \in DOMAIN vms : /\ Touch(vms, ids, age)[v].machine = vms[v].machine
                                  /\ Restatus(vms)[v].machine = vms[v].machine
                                  /\ [vms[v] EXCEPT !.age = Older(@)].machine = vms[v].machine
         /\ \A a \in DOMAIN agents : /\ Touch(agents, ids, age)[a].vm = agents[a].vm
                                     /\ Restatus(agents)[a].vm = agents[a].vm
                                     /\ [agents[a] EXCEPT !.age = Older(@)].vm = agents[a].vm
<1>1. ASSUME NEW v \in DOMAIN vms
      PROVE  /\ Touch(vms, ids, age)[v].machine = vms[v].machine
             /\ Restatus(vms)[v].machine = vms[v].machine
             /\ [vms[v] EXCEPT !.age = Older(@)].machine = vms[v].machine
  <2>1. vms[v] = [machine |-> vms[v].machine, agent |-> vms[v].agent, ip |-> vms[v].ip,
                  status |-> vms[v].status, age |-> vms[v].age]
    BY DEF Tables, VMRow
  <2> QED
    BY <2>1 DEF Touch, Restatus
<1>2. ASSUME NEW a \in DOMAIN agents
      PROVE  /\ Touch(agents, ids, age)[a].vm = agents[a].vm
             /\ Restatus(agents)[a].vm = agents[a].vm
             /\ [agents[a] EXCEPT !.age = Older(@)].vm = agents[a].vm
  <2>1. agents[a] = [vm |-> agents[a].vm, status |-> agents[a].status, age |-> agents[a].age]
    BY DEF Tables, AgentRow
  <2> QED
    BY <2>1 DEF Touch, Restatus
<1> QED
  BY <1>1, <1>2

\* Only a registration that commits binds an agent to a VM.
LEMMA OnlyCommitBinds ==
  ASSUME RegistryInv, Next, \A r \in requests : ~RegisterCommit(r)
  PROVE  Keeping
<1> USE DEF Keeping
<1>1. CASE UNCHANGED registry
  BY <1>1 DEF registry
<1>2. ASSUME NEW a \in Agents, AgentStep(a) PROVE Keeping
  <2>1. CASE FlowSeen(a)
    <3>1. agents' = Touch(agents, {a}, 0) /\ vms' = Touch(vms, {agents[a].vm}, 0)
      BY <2>1 DEF FlowSeen, IngestTouch
    <3>2. DOMAIN agents' = DOMAIN agents /\ DOMAIN vms' = DOMAIN vms
      BY <3>1 DEF Touch
    <3>3. \A v \in DOMAIN vms : Touch(vms, {agents[a].vm}, 0)[v].machine = vms[v].machine
      BY UpdatesKeep DEF RegistryInv
    <3>4. \A b \in DOMAIN agents : Touch(agents, {a}, 0)[b].vm = agents[b].vm
      BY UpdatesKeep DEF RegistryInv
    <3> QED
      BY <3>1, <3>2, <3>3, <3>4
  <2> QED
    BY <1>1, <1>2, <2>1 DEF AgentStep, Boot, Stop, RegisterUntilReady, HeartbeatTick
<1>3. ASSUME NEW r \in requests, Handler(r) \/ ClientTimeout(r) \/ RequestFails(r) PROVE Keeping
  <2>1. CASE HeartbeatAgents(r) /\ r.agent \in DOMAIN agents
    <3>1. agents' = Touch(agents, {r.agent}, r.age) /\ vms' = vms
      BY <2>1 DEF HeartbeatAgents
    <3>2. DOMAIN agents' = DOMAIN agents
      BY <3>1 DEF Touch
    <3>3. \A b \in DOMAIN agents : Touch(agents, {r.agent}, r.age)[b].vm = agents[b].vm
      BY UpdatesKeep DEF RegistryInv
    <3> QED
      BY <3>1, <3>2, <3>3
  <2>2. CASE HeartbeatVMs(r)
    <3> DEFINE ids == {v \in DOMAIN vms : vms[v].agent = r.agent}
    <3>1. vms' = Touch(vms, ids, r.age) /\ agents' = agents
      BY <2>2 DEF HeartbeatVMs
    <3> HIDE DEF ids
    <3>2. DOMAIN vms' = DOMAIN vms
      BY <3>1, Zenon DEF Touch
    <3>3. \A v \in DOMAIN vms : Touch(vms, ids, r.age)[v].machine = vms[v].machine
      BY UpdatesKeep DEF RegistryInv
    <3> QED
      BY <3>1, <3>2, <3>3
  <2> QED
    BY <1>1, <1>3, <2>1, <2>2
       DEF Handler, RegisterResolve, HeartbeatReceive, HeartbeatAgents, ClientTimeout, RequestFails
<1>4. CASE UpdateStatuses
  BY <1>4, UpdatesKeep DEF UpdateStatuses, RegistryInv, Restatus
<1>5. ASSUME NEW skipped, DeleteExpired(skipped) PROVE Keeping
  BY <1>5 DEF DeleteExpired, Restrict
<1>6. CASE Tick
  BY <1>6, UpdatesKeep DEF Tick, RegistryInv
<1> QED
  BY <1>1, <1>2, <1>3, <1>4, <1>5, <1>6 DEF Next, UpdateStatusesFails

\* Where no request may be left behind, a step posts, drops or advances requests that
\* are awaited, and resolves a registration only in RegisterResolve.
LEMMA RequestsAwaited ==
  ASSUME RegistryInv, StableInv, load.orphans = 0, Next, \A r \in requests : ~RegisterResolve(r)
  PROVE  Awaited(requests')
<1>1. Awaited(requests)
  BY Zenon DEF StableInv, Awaited
<1>2. ASSUME NEW r PROVE Awaited(requests \ {r})
  BY <1>1, FS_RemoveElement DEF Awaited
<1>3. ASSUME NEW S, Awaited(S), NEW q, q.live, ~Resolved(q)
      PROVE  Awaited(S \cup {q})
  <2>1. IsFiniteSet(S \cup {q})
    BY <1>3, FS_AddElement DEF Awaited
  <2> QED
    BY <1>3, <2>1, Zenon DEF Awaited
<1>4. \A a, op : Request(a, op).live /\ ~Resolved(Request(a, op))
  BY DEF Request, Resolved
<1>5. ASSUME NEW r \in requests, r.op = "heartbeat", NEW n
      PROVE  Awaited((requests \ {r}) \cup {[r EXCEPT !.step = n]})
  <2> DEFINE q == [r EXCEPT !.step = n]
  <2>1. r = [agent |-> r.agent, op |-> r.op, ip |-> r.ip, step |-> r.step, vm |-> r.vm,
             age |-> r.age, live |-> r.live]
    BY DEF RegistryInv, Requests, RequestRow
  <2>2. q.live = r.live /\ q.op = r.op
    BY <2>1
  <2>3. q.live /\ ~Resolved(q)
    BY <1>5, <2>2 DEF StableInv, Resolved
  <2> HIDE DEF q
  <2>4. Awaited((requests \ {r}) \cup {q})
    BY <1>2, <1>3, <2>3
  <2> QED
    BY <2>4 DEF q
<1>6. ASSUME NEW r \in requests, RequestFails(r) PROVE Awaited(requests')
  <2>1. requests' \in {requests \ {r}, (requests \ {r}) \cup {Request(r.agent, "register")}}
    BY <1>6 DEF RequestFails, ClientError
  <2>2. Awaited(requests \ {r})
    BY <1>2
  <2>3. Awaited((requests \ {r}) \cup {Request(r.agent, "register")})
    BY <1>3, <1>4, <2>2, Zenon
  <2> QED
    BY <2>1, <2>2, <2>3, Zenon
<1>7. ASSUME NEW a \in Agents, AgentStep(a) PROVE Awaited(requests')
  <2>1. CASE Stop(a)
    <3> DEFINE Own == {r \in requests : r.agent = a}
    <3>1. IsFiniteSet(Own)
      BY FS_Subset DEF StableInv
    <3>2. Cardinality(Own) \in Nat /\ Cardinality(Own) <= 0
      BY <2>1, <3>1, FS_CardinalityType DEF Stop
    <3>3. Own = {}
      BY <3>1, <3>2, FS_EmptySet
    <3>4. requests' = requests
      BY <2>1, <3>3 DEF Stop
    <3> QED
      BY <1>1, <3>4
  <2> QED
    BY <1>1, <1>3, <1>4, <1>7, <2>1
       DEF AgentStep, Boot, RegisterUntilReady, HeartbeatTick, FlowSeen
<1>8. ASSUME NEW r \in requests, Handler(r) PROVE Awaited(requests')
  <2>1. CASE RegisterCommit(r) \/ HeartbeatVMs(r)
    BY <1>2, <2>1 DEF RegisterCommit, HeartbeatVMs, Answer
  <2>2. CASE HeartbeatReceive(r)
    BY <1>5, <2>2 DEF HeartbeatReceive
  <2>3. CASE HeartbeatAgents(r)
    <3>1. r.op = "heartbeat"
      BY <2>3 DEF HeartbeatAgents
    <3>2. RequestFails(r) \/ requests' = (requests \ {r}) \cup {[r EXCEPT !.step = 2]}
      BY <2>3 DEF HeartbeatAgents
    <3>3. Awaited((requests \ {r}) \cup {[r EXCEPT !.step = 2]})
      BY <1>5, <3>1
    <3> QED
      BY <1>6, <3>2, <3>3
  <2> QED
    BY <1>8, <2>1, <2>2, <2>3 DEF Handler
<1>9. ASSUME NEW r \in requests, ClientTimeout(r) PROVE FALSE
  <2>1. IsFiniteSet(Orphans(r.agent))
    BY FS_Subset DEF StableInv, Orphans
  <2>2. Cardinality(Orphans(r.agent)) \in Nat
    BY <2>1, FS_CardinalityType
  <2> QED
    BY <1>9, <2>2 DEF ClientTimeout
<1>10. ASSUME Tick PROVE Awaited(requests')
  <2> DEFINE Aged(r) == IF r.step > 0 THEN [r EXCEPT !.age = @ + 1] ELSE r
  <2>1. requests' = {Aged(r) : r \in requests}
    BY <1>10 DEF Tick
  <2>2. \A r \in requests : /\ Aged(r).live = r.live /\ Aged(r).agent = r.agent
                            /\ Aged(r).vm = r.vm /\ Aged(r).op = r.op /\ Aged(r).step = r.step
    <3> SUFFICES ASSUME NEW r \in requests
                 PROVE  /\ Aged(r).live = r.live /\ Aged(r).agent = r.agent
                        /\ Aged(r).vm = r.vm /\ Aged(r).op = r.op /\ Aged(r).step = r.step
      OBVIOUS
    <3>1. r = [agent |-> r.agent, op |-> r.op, ip |-> r.ip, step |-> r.step, vm |-> r.vm,
               age |-> r.age, live |-> r.live]
      BY DEF RegistryInv, Requests, RequestRow
    <3> QED
      BY <3>1
  <2> HIDE DEF Aged
  <2> DEFINE f == [r \in requests |-> Aged(r)]
  <2>3. f \in Surjection(requests, requests')
    BY <2>1 DEF Surjection
  <2>4. IsFiniteSet(requests')
    BY <2>3, FS_Surjection DEF StableInv, ExistsSurjection
  <2> HIDE DEF f
  <2>5. \A q \in requests' : /\ q.live
                             /\ Resolved(q) => \E r \in requests :
                                  Resolved(r) /\ r.agent = q.agent /\ r.vm = q.vm
    BY <2>1, <2>2 DEF StableInv, Resolved
  <2> QED
    BY <2>4, <2>5 DEF Awaited
<1>11. CASE requests' = requests
  BY <1>1, <1>11
<1> QED
  BY <1>6, <1>7, <1>8, <1>9, <1>10, <1>11
     DEF Next, UpdateStatuses, UpdateStatusesFails, DeleteExpired

\* The same agent has no other request.
LEMMA OneRequest ==
  ASSUME RegistryInv, StableInv, NEW r \in requests, NEW q \in requests \ {r}
  PROVE  q.agent # r.agent
  BY DEF RegistryInv, Clients, StableInv

\* A resolution keeps StableInv.
LEMMA ResolutionStable ==
  ASSUME RegistryInv, StableInv, NEW r \in requests, RegisterResolve(r)
  PROVE  StableInv'
<1>1. PICK v \in resolveIdentity(r.agent, r.ip) :
        requests' = (requests \ {r}) \cup {[r EXCEPT !.step = 1, !.vm = v, !.age = 0]}
  BY DEF RegisterResolve
<1>2. r.agent \in Agents /\ UNCHANGED <<agents, vms>>
  BY DEF RegistryInv, Requests, RequestRow, RegisterResolve, registry
<1>3. /\ MachineRows(r.agent) \subseteq {v}
      /\ r.agent \in DOMAIN agents => agents[r.agent].vm = v
  BY <1>1, <1>2, ResolveStable
<1> DEFINE new == [r EXCEPT !.step = 1, !.vm = v, !.age = 0]
<1>4. new.agent = r.agent /\ new.vm = v /\ new.live = r.live
  <2>1. r = [agent |-> r.agent, op |-> r.op, ip |-> r.ip, step |-> r.step, vm |-> r.vm,
             age |-> r.age, live |-> r.live]
    BY DEF RegistryInv, Requests, RequestRow
  <2> QED
    BY <2>1
<1>5. requests' = (requests \ {r}) \cup {new}
  BY <1>1
<1> HIDE DEF new
<1>6. IsFiniteSet(requests')
  <2>1. IsFiniteSet(requests \ {r})
    BY FS_RemoveElement DEF StableInv
  <2> QED
    BY <1>5, <2>1, FS_AddElement
<1>7. \A a : MachineRows(a)' = MachineRows(a)
  BY <1>2 DEF MachineRows
<1>8. \A q \in requests' : q.live
  BY <1>4, <1>5 DEF StableInv
<1>9. \A q \in requests' : Resolved(q) =>
        /\ MachineRows(q.agent) \subseteq {q.vm}
        /\ q.agent \in DOMAIN agents => agents[q.agent].vm = q.vm
  BY <1>3, <1>4, <1>5 DEF StableInv
<1> QED
  BY <1>2, <1>6, <1>7, <1>8, <1>9 DEF StableInv, Resolved

\* A commit gives the resolved row the machine id of its agent, and no other row.
LEMMA CommitRows ==
  ASSUME DistinctMachines, RegistryInv, StableInv, NEW r \in requests, RegisterCommit(r)
  PROVE  /\ MachineRows(r.agent)' \subseteq {r.vm}
         /\ \A b \in Agents \ {r.agent} : MachineRows(b)' \subseteq MachineRows(b)
<1> DEFINE a == r.agent
           v == r.vm
           old == IF v \in DOMAIN vms THEN vms[v] ELSE [machine |-> None, ip |-> None]
<1>1. a \in Agents /\ MachineRows(a) \subseteq {v}
  BY DEF RegistryInv, Requests, RequestRow, StableInv, RegisterCommit, Resolved
<1>2. /\ DOMAIN vms' = DOMAIN vms \cup {v}
      /\ vms'[v].machine = Coalesce(Machine[a], old.machine)
      /\ \A w \in DOMAIN vms \ {v} : vms'[w] = vms[w]
  BY DEF RegisterCommit, Upsert
<1>3. \A b : MachineRows(b)' \subseteq MachineRows(b) \cup {v}
  BY <1>2 DEF MachineRows
<1>4. ASSUME NEW b \in Agents \ {a}, v \in MachineRows(b)' PROVE v \in MachineRows(b)
  <2>1. Machine[b] # None /\ vms'[v].machine = Machine[b]
    BY <1>4 DEF MachineRows
  <2>2. Machine[a] = None
    BY <1>1, <1>2, <1>4, <2>1 DEF DistinctMachines, Coalesce
  <2>3. old.machine = Machine[b]
    BY <1>2, <2>1, <2>2 DEF Coalesce
  <2>4. v \in DOMAIN vms
    BY <2>1, <2>3
  <2> QED
    BY <2>1, <2>3, <2>4 DEF MachineRows
<1> QED
  BY <1>1, <1>3, <1>4

\* A commit keeps StableInv and the VM of its agent.
LEMMA CommitStable ==
  ASSUME DistinctMachines, RegistryInv, StableInv, NEW r \in requests, RegisterCommit(r)
  PROVE  /\ StableInv'
         /\ \A a \in DOMAIN agents \cap DOMAIN agents' : agents'[a].vm = agents[a].vm
<1> DEFINE a == r.agent
           v == r.vm
<1>1. /\ MachineRows(a)' \subseteq {v}
      /\ \A b \in Agents \ {a} : MachineRows(b)' \subseteq MachineRows(b)
  BY CommitRows
<1>2. a \in Agents /\ (a \in DOMAIN agents => agents[a].vm = v)
  BY DEF RegistryInv, Requests, RequestRow, StableInv, RegisterCommit, Resolved
<1>3. /\ DOMAIN agents' = DOMAIN agents \cup {a}
      /\ agents'[a].vm = v
      /\ \A b \in DOMAIN agents \ {a} : agents'[b] = agents[b]
  BY DEF RegisterCommit, Upsert
<1>4. requests' = requests \ {r}
  BY DEF RegisterCommit, Answer
<1>5. \A q \in requests' : q.agent # a /\ q.agent \in Agents
  BY <1>4, OneRequest DEF RegistryInv, Requests, RequestRow
<1> HIDE DEF a, v
<1>6. IsFiniteSet(requests') /\ \A q \in requests' : q.live
  BY <1>4, FS_RemoveElement DEF StableInv
<1>7. \A b \in Agents : \A u, w \in MachineRows(b)' : u = w
  BY <1>1 DEF StableInv
<1>8. \A b \in Agents \cap DOMAIN agents' : MachineRows(b)' \subseteq {agents'[b].vm}
  BY <1>1, <1>3 DEF StableInv
<1>9. ASSUME NEW q \in requests', Resolved(q)
      PROVE  /\ MachineRows(q.agent)' \subseteq {q.vm}
             /\ q.agent \in DOMAIN agents' => agents'[q.agent].vm = q.vm
  <2>1. /\ MachineRows(q.agent) \subseteq {q.vm}
        /\ q.agent \in DOMAIN agents => agents[q.agent].vm = q.vm
    BY <1>4, <1>9 DEF StableInv
  <2> QED
    BY <1>1, <1>3, <1>5, <2>1
<1>10. StableInv'
  BY <1>6, <1>7, <1>8, <1>9, Zenon DEF StableInv, Resolved
<1> QED
  BY <1>2, <1>3, <1>10

\* The rows that departed agents have left behind are keyed by their machine id.
LEMMA StableInitially == RegistryInit => StableInv
<1> SUFFICES ASSUME RegistryInit PROVE StableInv
  OBVIOUS
<1> DEFINE D == DOMAIN load.departed
           holder(v) == CHOOSE b \in D : stableVMID(b) = v
<1>1. \A v \in DOMAIN vms : /\ \E b \in D : stableVMID(b) = v
                            /\ vms[v].machine = Machine[holder(v)]
  BY DEF RegistryInit
<1>2. ASSUME NEW a, NEW v \in MachineRows(a) PROVE v = Machine[a] /\ Machine[a] # None
  <2>1. v \in DOMAIN vms /\ Machine[a] # None /\ vms[v].machine = Machine[a]
    BY <1>2 DEF MachineRows
  <2>2. stableVMID(holder(v)) = v /\ Machine[holder(v)] = Machine[a]
    BY <1>1, <2>1
  <2> QED
    BY <2>1, <2>2 DEF stableVMID
<1>3. requests = {} /\ \A a \in DOMAIN agents : agents[a].vm = stableVMID(a)
  BY DEF RegistryInit
<1>4. \A a \in DOMAIN agents : MachineRows(a) \subseteq {agents[a].vm}
  BY <1>2, <1>3 DEF stableVMID
<1> QED
  BY <1>2, <1>3, <1>4, FS_EmptySet DEF StableInv

\* A registered agent keeps its VM if machine ids are distinct and no registration
\* outlives its client, whatever addresses and interfaces the agents come back with
\* and whatever the sweep removes meanwhile (agent_service.go:93-140, 175-223).
THEOREM BindingIsStable ==
  ASSUME DistinctMachines
  PROVE  Spec => VMStable
<1> DEFINE Held == load.orphans = 0 => StableInv
           Same == \A a \in DOMAIN agents \cap DOMAIN agents' : agents'[a].vm = agents[a].vm
<1>1. RegistryInit => Held
  BY StableInitially
<1>2. ASSUME RegistryInv, Held, [Next]_<<load, registryVars>>
      PROVE  Held' /\ [load.orphans = 0 => Same]_registryVars
  <2>1. CASE UNCHANGED <<load, registryVars>>
    BY <1>2, <2>1 DEF registryVars, registry, StableInv, MachineRows, Resolved
  <2>2. CASE load.orphans # 0 /\ Next
    BY <2>2 DEF Next
  <2>3. CASE load.orphans = 0 /\ Next
    <3>1. StableInv /\ load' = load
      BY <1>2, <2>3 DEF Next
    <3>2. CASE \E r \in requests : RegisterCommit(r)
      BY <1>2, <3>1, <3>2, CommitStable
    <3>3. CASE ~\E r \in requests : RegisterCommit(r)
      <4>1. Keeping
        BY <1>2, <2>3, <3>3, OnlyCommitBinds
      <4>2. Same
        BY <4>1 DEF Keeping
      <4>3. CASE \E r \in requests : RegisterResolve(r)
        <5>1. StableInv'
          BY <1>2, <3>1, <4>3, ResolutionStable, Zenon
        <5> QED
          BY <4>2, <5>1
      <4>4. CASE ~\E r \in requests : RegisterResolve(r)
        <5>1. Awaited(requests')
          BY <1>2, <2>3, <3>1, <4>4, RequestsAwaited, Zenon
        <5>2. StableInv'
          BY <3>1, <4>1, <5>1, KeepingKeeps, Zenon
        <5> QED
          BY <4>2, <5>2
      <4> QED
        BY <4>3, <4>4
    <3> QED
      BY <3>2, <3>3
  <2> QED
    BY <1>2, <2>1, <2>2, <2>3
<1> QED
  BY <1>1, <1>2, RegistryInvariant, PTL DEF Spec, VMStable
=============================================================================
