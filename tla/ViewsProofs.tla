----------------------------- MODULE ViewsProofs -----------------------------
(***************************************************************************)
(* Proofs about Probing and the two views of Views, for any set of VMs,    *)
(* probers and conversations, any inventories and any amount of work.      *)
(*                                                                         *)
(* The first part follows the tables: which rows they can hold, to whom    *)
(* the rows refer, and from which conversation a flow row stems.  The      *)
(* second part follows the fold that makes a reachability edge of the      *)
(* probe rows of a pair, by induction on the rows folded so far.           *)
(***************************************************************************)
EXTENDS Views, FiniteSetTheorems, WellFoundedInduction, TLAPS

-----------------------------------------------------------------------------
(* The tables.                                                             *)

\* Booleans of a row.
Flag == BOOLEAN

FlowRow ==
  [src : VMs \cup {NULL}, dst : VMs \cup {NULL}, sip : VMs, ip : VMs, sport : Nat, dport : Nat,
   scope : {"internal", "unregistered"}, err : Flag, req : Flag, age : 0..Old]

ProbeRow ==
  [src : VMs, dst : VMs \cup {NULL}, ip : VMs, port : Nat, ok : Flag, slow : Flag, age : 0..Old]

Conversation == [client : VMs, server : VMs, port : Nat, app : Flag]

Target == [ip : VMs, port : Nat]

Result == [ip : VMs, port : Nat, ok : Flag, slow : Flag]

\* The rows of the tables, and what the probers hold.
Rows ==
  /\ load \in Workloads /\ inventory \in load.inventories
  /\ alive \subseteq VMs /\ vms \subseteq VMs
  /\ seen \in [VMs -> 0..Old]
  /\ traffic \subseteq Conversation
  /\ flows \subseteq FlowRow
  /\ probes \subseteq ProbeRow /\ IsFiniteSet(probes)
  /\ todo \in [Probers -> SUBSET Target]
  /\ result \in [Probers -> Result \cup {NULL}]

\* A reference is to a registered VM; a target is another VM.
References ==
  /\ \A f \in flows : {f.src, f.dst} \subseteq vms \cup {NULL}
  /\ \A p \in probes : p.src \in vms /\ p.dst \in vms \cup {NULL}
  /\ \A v \in Probers : \A t \in todo[v] : t.ip # v
  /\ declared.intent # NULL \/ declared.config # NULL => {declared.src, declared.dst} \subseteq vms

ProbePorts == IgnoredPorts \cup {probeDefaultPort}

\* Applications use AppPort; probes go to ports the backend or the agents ignore.
PortsKnown ==
  /\ \A x \in traffic : (x.app => x.port = AppPort) /\ (~x.app => x.port \in ProbePorts)
  /\ \A v \in Probers : \A t \in todo[v] : t.port \in ProbePorts

\* What an agent reports of conversation x: as its client, or as its server.
AsClient(f, x) == f.sip = x.client /\ f.ip = x.server /\ f.sport = EphemeralPort /\ f.dport = x.port
AsServer(f, x) == f.sip = x.server /\ f.ip = x.client /\ f.sport = x.port /\ f.dport = EphemeralPort

\* A flow row names the VMs of its two addresses, and stems from a conversation that the
\* agents do not ignore.
Origins ==
  \A f \in flows :
    /\ f.src \in {NULL, f.sip} /\ f.dst \in {NULL, f.ip}
    /\ \E x \in traffic : x.port \notin AgentIgnorePorts /\ (AsClient(f, x) \/ AsServer(f, x))

\* The inductive invariant.
TablesInv == Rows /\ References /\ PortsKnown /\ Origins

\* The ports the code fixes: a client's port is ephemeral, an application's is not.
LEMMA PortFacts ==
  /\ EphemeralPort \in Nat /\ AppPort \in Nat /\ probeDefaultPort \in Nat
  /\ isEphemeralPort(EphemeralPort) /\ ~isEphemeralPort(AppPort)
BY SMT DEF EphemeralPort, AppPort, probeDefaultPort, isEphemeralPort

\* The initial tables: every VM is registered, nothing has been recorded.
LEMMA TablesInitially == Init => TablesInv
<1> SUFFICES ASSUME Init PROVE TablesInv
  OBVIOUS
<1>1. ASSUME NEW x \in traffic PROVE x \in Conversation /\ x.app /\ x.port = AppPort
  <2>1. PICK c \in Conversations : x = [client |-> c[1], server |-> c[2], port |-> AppPort, app |-> TRUE]
    BY DEF Init
  <2>2. c[1] \in VMs /\ c[2] \in VMs
    BY ProbingAssumption
  <2> QED
    BY <2>1, <2>2, PortFacts DEF Conversation, Flag
<1>2. Rows
  BY <1>1, FS_EmptySet, ProbingAssumption DEF Init, Rows, Old
<1>3. References
  BY DEF Init, References, Nothing
<1>4. PortsKnown
  BY <1>1 DEF Init, PortsKnown
<1>5. Origins
  BY DEF Init, Origins
<1> QED
  BY <1>2, <1>3, <1>4, <1>5 DEF TablesInv

\* A registration adds a VM, and gives unresolved rows to its address a destination.
LEMMA RegisterKeeps ==
  ASSUME TablesInv, NEW v \in VMs, Register(v)
  PROVE  TablesInv'
<1> USE DEF TablesInv
<1>1. /\ vms' = vms \cup {v} /\ alive' = alive \cup {v} /\ seen' = [seen EXCEPT ![v] = 0]
      /\ UNCHANGED <<load, inventory, declared, traffic, todo, result, probes>>
  BY DEF Register
<1>2. ASSUME NEW g \in flows'
      PROVE  \E f \in flows : /\ g \in FlowRow /\ g.src = f.src /\ g.sip = f.sip /\ g.ip = f.ip
                              /\ g.sport = f.sport /\ g.dport = f.dport
                              /\ g.dst = f.dst \/ (g.dst = v /\ f.ip = v)
  <2>1. PICK f \in flows : g = IF f.src # NULL /\ f.dst = NULL /\ f.ip = v
                               THEN [f EXCEPT !.dst = v, !.scope = "internal"] ELSE f
    BY DEF Register
  <2>2. f \in FlowRow
    BY DEF Rows
  <2> QED
    BY <2>1, <2>2, Zenon DEF FlowRow
<1>3. Rows'
  BY <1>1, <1>2 DEF Rows, Old
<1>4. References'
  <2>1. \A g \in flows' : {g.src, g.dst} \subseteq vms' \cup {NULL}
    BY <1>1, <1>2 DEF References
  <2> QED
    BY <1>1, <2>1 DEF References
<1>5. PortsKnown'
  BY <1>1 DEF PortsKnown, ProbePorts, IgnoredPorts
<1>6. Origins'
  <2> SUFFICES ASSUME NEW g \in flows'
               PROVE  /\ g.src \in {NULL, g.sip} /\ g.dst \in {NULL, g.ip}
                      /\ \E x \in traffic : x.port \notin AgentIgnorePorts /\ (AsClient(g, x) \/ AsServer(g, x))
    BY <1>1 DEF Origins, AsClient, AsServer
  <2> QED
    BY <1>2 DEF Origins, AsClient, AsServer
<1> QED
  BY <1>3, <1>4, <1>5, <1>6

\* The image of a finite set under a function is finite.
LEMMA FiniteImage ==
  ASSUME NEW S, IsFiniteSet(S), NEW f, DOMAIN f = S
  PROVE  IsFiniteSet({f[x] : x \in S})
<1> DEFINE T == {f[x] : x \in S}
<1>1. [x \in S |-> f[x]] \in Surjection(S, T)
  BY DEF Surjection
<1> QED
  BY <1>1, FS_Surjection

\* A machine that stops forgets its round.
LEMMA DieKeeps ==
  ASSUME TablesInv, NEW v \in VMs, Die(v)
  PROVE  TablesInv'
<1> USE DEF TablesInv
<1>1. /\ alive' \subseteq VMs /\ todo' \in [Probers -> SUBSET Target]
      /\ \A p \in Probers : todo'[p] \subseteq todo[p]
      /\ UNCHANGED <<load, vms, seen, inventory, declared, traffic, flows, result, probes, work>>
  BY DEF Die, Rows
<1>2. Rows'
  BY <1>1 DEF Rows
<1>3. References' /\ PortsKnown'
  BY <1>1 DEF References, PortsKnown, ProbePorts, IgnoredPorts
<1>4. Origins'
  BY <1>1 DEF Origins, AsClient, AsServer
<1> QED
  BY <1>2, <1>3, <1>4

\* Rows grow older and stay otherwise the same.
LEMMA TickKeeps ==
  ASSUME TablesInv, Tick
  PROVE  TablesInv'
<1> USE DEF TablesInv
<1>1. UNCHANGED <<load, alive, vms, inventory, declared, traffic, todo, result, work>>
  BY DEF Tick
<1>2. ASSUME NEW g \in flows'
      PROVE  \E f \in flows : /\ g \in FlowRow /\ g.src = f.src /\ g.dst = f.dst /\ g.sip = f.sip
                              /\ g.ip = f.ip /\ g.sport = f.sport /\ g.dport = f.dport
  <2>1. PICK f \in flows : g = [f EXCEPT !.age = IF @ < Old THEN @ + 1 ELSE Old]
    BY DEF Tick
  <2>2. f \in FlowRow
    BY DEF Rows
  <2> QED
    BY <2>1, <2>2 DEF FlowRow, Old
<1>3. ASSUME NEW g \in probes'
      PROVE  \E p \in probes : g \in ProbeRow /\ g.src = p.src /\ g.dst = p.dst
  <2>1. PICK p \in probes : g = [p EXCEPT !.age = IF @ < Old THEN @ + 1 ELSE Old]
    BY DEF Tick
  <2>2. p \in ProbeRow
    BY DEF Rows
  <2> QED
    BY <2>1, <2>2 DEF ProbeRow, Old
<1>4. IsFiniteSet(probes')
  <2> DEFINE older == [p \in probes |-> [p EXCEPT !.age = IF @ < Old THEN @ + 1 ELSE Old]]
  <2>1. probes' = {older[p] : p \in probes}
    BY DEF Tick
  <2>2. DOMAIN older = probes /\ IsFiniteSet(probes)
    BY DEF Rows
  <2> HIDE DEF older
  <2> QED
    BY <2>1, <2>2, FiniteImage
<1>5. seen' \in [VMs -> 0..Old]
  BY DEF Tick, Rows, Old
<1>6. Rows'
  BY <1>1, <1>2, <1>3, <1>4, <1>5 DEF Rows
<1>7. References'
  <2>1. \A g \in flows' : {g.src, g.dst} \subseteq vms' \cup {NULL}
    BY <1>1, <1>2 DEF References
  <2>2. \A g \in probes' : g.src \in vms' /\ g.dst \in vms' \cup {NULL}
    BY <1>1, <1>3 DEF References
  <2> QED
    BY <1>1, <2>1, <2>2 DEF References
<1>8. PortsKnown'
  BY <1>1 DEF PortsKnown, ProbePorts, IgnoredPorts
<1>9. Origins'
  BY <1>1, <1>2 DEF Origins, AsClient, AsServer
<1> QED
  BY <1>6, <1>7, <1>8, <1>9

\* The reaper takes the expired VMs out of every row that refers to them.
LEMMA DeleteExpiredKeeps ==
  ASSUME TablesInv, DeleteExpired
  PROVE  TablesInv'
<1> USE DEF TablesInv
<1>1. /\ vms' = vms \ Expired /\ Expired \subseteq vms
      /\ UNCHANGED <<load, alive, seen, inventory, traffic, todo, result, work>>
  BY DEF DeleteExpired, Expired
<1>2. ASSUME NEW g \in flows'
      PROVE  \E f \in flows : /\ g \in FlowRow /\ g.sip = f.sip
                              /\ g.ip = f.ip /\ g.sport = f.sport /\ g.dport = f.dport
                              /\ g.src = SetNull(f.src, Expired) /\ g.dst = SetNull(f.dst, Expired)
  <2>1. PICK f \in flows : g = [f EXCEPT !.src = SetNull(@, Expired), !.dst = SetNull(@, Expired)]
    BY DEF DeleteExpired
  <2>2. f \in FlowRow
    BY DEF Rows
  <2>3. SetNull(f.src, Expired) \in VMs \cup {NULL} /\ SetNull(f.dst, Expired) \in VMs \cup {NULL}
    BY <2>2 DEF SetNull, FlowRow
  <2> QED
    BY <2>1, <2>2, <2>3, Zenon DEF FlowRow
<1> DEFINE kept == {p \in probes : p.src \notin Expired}
<1>3. ASSUME NEW g \in probes'
      PROVE  \E p \in kept : g \in ProbeRow /\ g.src = p.src /\ g.dst = SetNull(p.dst, Expired)
  <2>1. PICK p \in kept : g = [p EXCEPT !.dst = SetNull(@, Expired)]
    BY DEF DeleteExpired, ProbesAfter
  <2>2. p \in ProbeRow
    BY DEF Rows
  <2>3. SetNull(p.dst, Expired) \in VMs \cup {NULL}
    BY <2>2 DEF SetNull, ProbeRow
  <2> QED
    BY <2>1, <2>2, <2>3 DEF ProbeRow
<1>4. IsFiniteSet(probes')
  <2> DEFINE after == [p \in kept |-> [p EXCEPT !.dst = SetNull(@, Expired)]]
  <2>1. probes' = {after[p] : p \in kept}
    BY DEF DeleteExpired, ProbesAfter
  <2>2. DOMAIN after = kept /\ IsFiniteSet(kept)
    BY FS_Subset DEF Rows
  <2> HIDE DEF after, kept
  <2> QED
    BY <2>1, <2>2, FiniteImage
<1>5. Rows'
  BY <1>1, <1>2, <1>3, <1>4 DEF Rows
<1>6. References'
  <2>1. \A g \in flows' : {g.src, g.dst} \subseteq vms' \cup {NULL}
    BY <1>1, <1>2 DEF References, SetNull
  <2>2. \A g \in probes' : g.src \in vms' /\ g.dst \in vms' \cup {NULL}
    BY <1>1, <1>3 DEF References, SetNull
  <2>3. declared'.intent # NULL \/ declared'.config # NULL => {declared'.src, declared'.dst} \subseteq vms'
    BY <1>1, Zenon DEF References, DeleteExpired, Nothing
  <2> QED
    BY <1>1, <2>1, <2>2, <2>3 DEF References
<1>7. PortsKnown'
  BY <1>1 DEF PortsKnown, ProbePorts, IgnoredPorts
<1>8. Origins'
  BY <1>1, <1>2 DEF Origins, AsClient, AsServer, SetNull
<1> QED
  BY <1>5, <1>6, <1>7, <1>8

\* What is declared is declared of registered VMs.
LEMMA DeclareKeeps ==
  ASSUME TablesInv, NEW d, Declare(d)
  PROVE  TablesInv'
<1> USE DEF TablesInv
<1>1. /\ {d.src, d.dst} \subseteq vms /\ declared' = d
      /\ UNCHANGED <<load, alive, vms, seen, inventory, traffic, flows, todo, result, probes, work>>
  BY DEF Declare
<1>2. Rows'
  BY <1>1 DEF Rows
<1>3. References' /\ PortsKnown'
  BY <1>1 DEF References, PortsKnown, ProbePorts, IgnoredPorts
<1>4. Origins'
  BY <1>1 DEF Origins, AsClient, AsServer
<1> QED
  BY <1>2, <1>3, <1>4

\* A new inventory ignores every port the old one ignored.
LEMMA RestartKeeps ==
  ASSUME TablesInv, NEW inv \in load.inventories, Restart(inv)
  PROVE  TablesInv'
<1> USE DEF TablesInv
<1>1. /\ inventory' = inv /\ \A v \in VMs : inventory[v] # 0 => inv[v] = inventory[v]
      /\ UNCHANGED <<load, alive, vms, seen, declared, traffic, flows, todo, result, probes, work>>
  BY DEF Restart
<1>2. Rows'
  BY <1>1 DEF Rows
<1>3. ProbePorts \subseteq ProbePorts'
  BY <1>1 DEF ProbePorts, IgnoredPorts
<1>4. References' /\ PortsKnown'
  BY <1>1, <1>3 DEF References, PortsKnown
<1>5. Origins'
  BY <1>1 DEF Origins, AsClient, AsServer
<1> QED
  BY <1>2, <1>4, <1>5

\* A flow row stems from the conversation that was ingested when it was inserted.
LEMMA IngestKeeps ==
  ASSUME TablesInv, NEW v \in VMs, NEW x \in traffic, NEW kind, Ingest(v, x, kind)
  PROVE  TablesInv'
<1> USE DEF TablesInv
<1> DEFINE client == v = x.client
           ip  == IF client THEN x.server ELSE x.client
           row == [src |-> v, dst |-> IF ip \in vms THEN ip ELSE NULL, sip |-> v, ip |-> ip,
                   sport |-> IF client THEN EphemeralPort ELSE x.port,
                   dport |-> IF client THEN x.port ELSE EphemeralPort,
                   scope |-> IF ip \in vms THEN "internal" ELSE "unregistered",
                   err |-> kind = "error", req |-> kind = "request", age |-> Active]
<1>1. /\ v \in vms /\ v \in {x.client, x.server} /\ x.port \notin AgentIgnorePorts
      /\ seen' = [seen EXCEPT ![v] = 0]
      /\ UNCHANGED <<load, alive, vms, inventory, declared, traffic, todo, result, probes>>
  BY Zenon DEF Ingest
<1>2. x.client \in VMs /\ x.server \in VMs /\ x.port \in Nat
  BY DEF Rows, Conversation
<1>3. /\ row \in FlowRow /\ row.src = row.sip /\ row.dst \in {NULL, row.ip}
      /\ {row.src, row.dst} \subseteq vms \cup {NULL}
      /\ AsClient(row, x) \/ AsServer(row, x)
  <2>1. row.err \in Flag /\ row.req \in Flag
    BY DEF Flag
  <2>2. ip \in VMs /\ row.sport \in Nat /\ row.dport \in Nat
    BY <1>2, PortFacts
  <2>3. /\ row.src = v /\ row.sip = v /\ row.ip = ip /\ row.age = Active
        /\ row.dst = (IF ip \in vms THEN ip ELSE NULL)
        /\ row.scope \in {"internal", "unregistered"}
    OBVIOUS
  <2>4. AsClient(row, x) \/ AsServer(row, x)
    BY <1>1, Zenon DEF AsClient, AsServer
  <2>5. row = [src |-> row.src, dst |-> row.dst, sip |-> row.sip, ip |-> row.ip, sport |-> row.sport,
               dport |-> row.dport, scope |-> row.scope, err |-> row.err, req |-> row.req, age |-> row.age]
    OBVIOUS
  <2> HIDE DEF row, ip, client
  <2>6. row \in FlowRow
    BY <2>1, <2>2, <2>3, <2>5 DEF FlowRow, Active, Old
  <2> QED
    BY <1>1, <2>3, <2>4, <2>6
<1>4. ASSUME NEW g \in flows'
      PROVE  \/ g = row
             \/ \E f \in flows : /\ g \in FlowRow /\ g.src = f.src /\ g.dst = f.dst /\ g.sip = f.sip
                                 /\ g.ip = f.ip /\ g.sport = f.sport /\ g.dport = f.dport
  <2> HIDE DEF row
  <2>1. ASSUME NEW f \in flows,
               g = [f EXCEPT !.age = Active, !.err = @ \/ row.err, !.req = @ \/ row.req]
        PROVE  /\ g \in FlowRow /\ g.src = f.src /\ g.dst = f.dst /\ g.sip = f.sip
               /\ g.ip = f.ip /\ g.sport = f.sport /\ g.dport = f.dport
    <3>1. f \in FlowRow /\ row \in FlowRow
      BY <1>3 DEF Rows
    <3> DEFINE err == f.err \/ row.err
               req == f.req \/ row.req
    <3>2. err \in Flag /\ req \in Flag
      BY DEF Flag
    <3>3. g = [f EXCEPT !.age = Active, !.err = err, !.req = req]
      BY <2>1
    <3> HIDE DEF err, req
    <3>4. Active \in 0..Old
      BY DEF Active, Old
    <3> QED
      BY <3>1, <3>2, <3>3, <3>4, Zenon DEF FlowRow
  <2>2. \/ g \in flows \/ g = row
        \/ \E f \in flows : g = [f EXCEPT !.age = Active, !.err = @ \/ row.err, !.req = @ \/ row.req]
    BY DEF Ingest, row
  <2>3. g \in flows => g \in FlowRow
    BY DEF Rows
  <2> QED
    BY <2>1, <2>2, <2>3, Zenon
<1> HIDE DEF row, ip, client
<1>5. Rows'
  BY <1>1, <1>3, <1>4 DEF Rows, Old
<1>6. References'
  <2>1. \A g \in flows' : {g.src, g.dst} \subseteq vms' \cup {NULL}
    BY <1>1, <1>3, <1>4 DEF References
  <2> QED
    BY <1>1, <2>1 DEF References
<1>7. PortsKnown'
  BY <1>1 DEF PortsKnown, ProbePorts, IgnoredPorts
<1>8. Origins'
  <2> SUFFICES ASSUME NEW g \in flows'
               PROVE  /\ g.src \in {NULL, g.sip} /\ g.dst \in {NULL, g.ip}
                      /\ \E y \in traffic : y.port \notin AgentIgnorePorts /\ (AsClient(g, y) \/ AsServer(g, y))
    BY <1>1 DEF Origins, AsClient, AsServer
  <2>1. CASE g = row
    BY <1>1, <1>3, <2>1
  <2>2. CASE g # row
    BY <1>4, <2>2 DEF Origins, AsClient, AsServer
  <2> QED
    BY <2>1, <2>2
<1> QED
  BY <1>5, <1>6, <1>7, <1>8

\* The targets of a round are other VMs, on ports of the inventory or the default port.
LEMMA FetchTargetsKeeps ==
  ASSUME TablesInv, NEW v \in Probers, FetchTargets(v)
  PROVE  TablesInv'
<1> USE DEF TablesInv
<1>1. /\ todo' = [todo EXCEPT ![v] = Targets(v)]
      /\ UNCHANGED <<load, alive, vms, seen, inventory, declared, traffic, flows, result, probes, work>>
  BY DEF FetchTargets
<1>2. ASSUME NEW t \in Targets(v)
      PROVE  t \in Target /\ t.ip # v /\ t.port \in ProbePorts
  <2>1. PICK p \in vms \ {v} : t = [ip |-> p, port |-> ProbeForIP(p)]
    BY DEF Targets
  <2>2. p \in VMs /\ inventory \in [VMs -> Nat]
    BY ProbingAssumption DEF Rows
  <2>3. ProbeForIP(p) \in Nat /\ ProbeForIP(p) \in ProbePorts
    BY <2>2, PortFacts DEF ProbeForIP, ProbePorts, IgnoredPorts
  <2> QED
    BY <2>1, <2>2, <2>3 DEF Target
<1>3. Rows'
  BY <1>1, <1>2 DEF Rows
<1>4. References'
  BY <1>1, <1>2 DEF References, Rows
<1>5. PortsKnown'
  BY <1>1, <1>2 DEF PortsKnown, ProbePorts, IgnoredPorts, Rows
<1>6. Origins'
  BY <1>1 DEF Origins, AsClient, AsServer
<1> QED
  BY <1>3, <1>4, <1>5, <1>6

\* A probe is a conversation of its own, to the target's port.
LEMMA ProbeTargetKeeps ==
  ASSUME TablesInv, NEW v \in Probers, NEW t \in todo[v], NEW ok \in BOOLEAN, NEW slow \in BOOLEAN,
         ProbeTarget(v, t, ok, slow)
  PROVE  TablesInv'
<1> USE DEF TablesInv
<1> DEFINE x == [client |-> v, server |-> t.ip, port |-> t.port, app |-> FALSE]
           r == [ip |-> t.ip, port |-> t.port, ok |-> ok, slow |-> slow]
<1>1. /\ todo' = [todo EXCEPT ![v] = @ \ {t}] /\ result' = [result EXCEPT ![v] = r]
      /\ traffic' = traffic \cup {x}
      /\ UNCHANGED <<load, alive, vms, seen, inventory, declared, flows, probes, work>>
  BY DEF ProbeTarget
<1>2. t \in Target
  BY DEF Rows
<1>3. x \in Conversation /\ r \in Result
  BY <1>2, ProbingAssumption DEF Conversation, Result, Target, Flag
<1>4. ~x.app /\ x.port \in ProbePorts
  BY DEF PortsKnown
<1> HIDE DEF x, r
<1>5. Rows'
  BY <1>1, <1>3 DEF Rows
<1>6. References'
  BY <1>1 DEF References, Rows
<1>7. PortsKnown'
  BY <1>1, <1>4 DEF PortsKnown, ProbePorts, IgnoredPorts, Rows
<1>8. Origins'
  BY <1>1 DEF Origins, AsClient, AsServer
<1> QED
  BY <1>5, <1>6, <1>7, <1>8

\* A recorded result names a registered prober, and its target if that is registered now.
LEMMA RecordProbeKeeps ==
  ASSUME TablesInv, NEW v \in Probers, RecordProbe(v)
  PROVE  TablesInv'
<1> USE DEF TablesInv
<1> DEFINE r == result[v]
           row == [src |-> v, dst |-> IF r.ip \in vms THEN r.ip ELSE NULL, ip |-> r.ip, port |-> r.port,
                   ok |-> r.ok, slow |-> r.slow, age |-> Active]
<1>1. /\ v \in vms /\ r # NULL
      /\ probes' = {p \in probes : ProbeKey(p) # ProbeKey(row)} \cup {row}
      /\ seen' = [seen EXCEPT ![v] = 0] /\ result' = [result EXCEPT ![v] = NULL]
      /\ UNCHANGED <<load, alive, vms, inventory, declared, traffic, flows, todo>>
  BY DEF RecordProbe
<1>2. r \in Result
  BY <1>1 DEF Rows
<1>3. row \in ProbeRow /\ row.src \in vms /\ row.dst \in vms \cup {NULL}
  BY <1>1, <1>2 DEF ProbeRow, Result, Rows, Active, Old
<1>4. probes' \subseteq probes \cup {row}
  BY <1>1
<1> HIDE DEF row, r
<1>5. IsFiniteSet(probes')
  BY <1>4, FS_AddElement, FS_Subset, Zenon DEF Rows
<1>6. Rows'
  BY <1>1, <1>3, <1>4, <1>5 DEF Rows, Old
<1>7. References'
  BY <1>1, <1>3, <1>4 DEF References
<1>8. PortsKnown'
  BY <1>1 DEF PortsKnown, ProbePorts, IgnoredPorts
<1>9. Origins'
  BY <1>1 DEF Origins, AsClient, AsServer
<1> QED
  BY <1>6, <1>7, <1>8, <1>9

\* A lost result changes no table.
LEMMA LoseResultKeeps ==
  ASSUME TablesInv, NEW v \in Probers, LoseResult(v)
  PROVE  TablesInv'
<1> USE DEF TablesInv
<1>1. /\ result' = [result EXCEPT ![v] = NULL]
      /\ UNCHANGED <<load, alive, vms, seen, inventory, declared, traffic, flows, todo, probes, work>>
  BY DEF LoseResult
<1>2. Rows'
  BY <1>1 DEF Rows
<1>3. References' /\ PortsKnown'
  BY <1>1 DEF References, PortsKnown, ProbePorts, IgnoredPorts
<1>4. Origins'
  BY <1>1 DEF Origins, AsClient, AsServer
<1> QED
  BY <1>2, <1>3, <1>4

\* Every step keeps the invariant.
LEMMA TablesNext == TablesInv /\ [Next]_vars => TablesInv'
<1> SUFFICES ASSUME TablesInv, [Next]_vars PROVE TablesInv'
  OBVIOUS
<1>1. ASSUME NEW v \in VMs, Register(v) \/ Die(v) PROVE TablesInv'
  BY <1>1, RegisterKeeps, DieKeeps
<1>2. ASSUME Tick \/ DeleteExpired PROVE TablesInv'
  BY <1>2, TickKeeps, DeleteExpiredKeeps
<1>3. ASSUME NEW d \in load.declarations, Declare(d) PROVE TablesInv'
  BY <1>3, DeclareKeeps
<1>4. ASSUME NEW inv \in load.inventories, Restart(inv) PROVE TablesInv'
  BY <1>4, RestartKeeps
<1>5. ASSUME NEW v \in VMs, NEW x \in traffic, NEW kind \in load.kinds, Ingest(v, x, kind)
      PROVE  TablesInv'
  BY <1>5, IngestKeeps
<1>6. ASSUME NEW v \in Probers, FetchTargets(v) \/ RecordProbe(v) \/ LoseResult(v) PROVE TablesInv'
  BY <1>6, FetchTargetsKeeps, RecordProbeKeeps, LoseResultKeeps
<1>7. ASSUME NEW v \in Probers, NEW t \in todo[v], NEW ok \in BOOLEAN, NEW slow \in BOOLEAN,
             ProbeTarget(v, t, ok, slow)
      PROVE  TablesInv'
  BY <1>7, ProbeTargetKeeps
<1>8. CASE UNCHANGED vars
  <2>1. Rows'
    BY <1>8 DEF vars, TablesInv, Rows
  <2>2. References' /\ PortsKnown'
    BY <1>8 DEF vars, TablesInv, References, PortsKnown, ProbePorts, IgnoredPorts
  <2>3. Origins'
    BY <1>8 DEF vars, TablesInv, Origins, AsClient, AsServer
  <2> QED
    BY <2>1, <2>2, <2>3 DEF TablesInv
<1> QED
  BY <1>1, <1>2, <1>3, <1>4, <1>5, <1>6, <1>7, <1>8, Zenon DEF Next

\* The invariant holds in every reachable state.
LEMMA TablesAlways == Spec => []TablesInv
  BY TablesInitially, TablesNext, PTL DEF Spec

-----------------------------------------------------------------------------
(* What the views show of the tables.                                      *)

\* The tables hold rows of their types, and every reference is to a VM that exists or
\* to none, for any number of VMs and probers (001_init.sql:45-49,
\* 007_connection_probes.sql:4-5).
THEOREM TablesTypeCorrect == Spec => []TypeOK
<1>1. ASSUME TablesInv PROVE TypeOK
  <2>1. Rows /\ References
    BY <1>1 DEF TablesInv
  <2>2. \A f \in flows : {f.src, f.dst} \subseteq vms \cup {NULL} /\ f.age \in 0..Old
    BY <2>1 DEF Rows, References, FlowRow
  <2>3. \A p \in probes : p.src \in vms /\ p.dst \in vms \cup {NULL} /\ p.age \in 0..Old
    BY <2>1 DEF Rows, References, ProbeRow
  <2>4. \A v \in Probers : \A t \in todo[v] : t.ip \in VMs \ {v}
    BY <2>1 DEF Rows, References, Target
  <2> QED
    BY <2>1, <2>2, <2>3, <2>4 DEF TypeOK, Rows
<1> QED
  BY <1>1, TablesAlways, PTL

\* A row that becomes an edge names VMs by its addresses, before and after
\* normalizeGraphRow.
LEMMA NormalizedRow ==
  ASSUME TablesInv, NEW f \in flows
  PROVE  LET g == normalizeGraphRow(f) IN
         /\ g = f \/ (/\ g.src = f.dst /\ g.dst = f.src /\ g.sip = f.ip /\ g.ip = f.sip
                      /\ g.sport = f.dport /\ g.dport = f.sport /\ g.scope = f.scope)
         /\ g = f => isEphemeralPort(f.sport) \/ ~isEphemeralPort(f.dport)
         /\ {g.src, g.dst} \subseteq vms \cup {NULL}
         /\ g.scope \in {"internal", "unregistered"}
<1>1. f \in FlowRow /\ {f.src, f.dst} \subseteq vms \cup {NULL}
  BY DEF TablesInv, Rows, References
<1>2. CASE isEphemeralPort(f.sport) \/ ~isEphemeralPort(f.dport)
  BY <1>1, <1>2 DEF normalizeGraphRow, FlowRow
<1>3. CASE ~(isEphemeralPort(f.sport) \/ ~isEphemeralPort(f.dport))
  <2> DEFINE g == normalizeGraphRow(f)
  <2>1. g = [f EXCEPT !.src = f.dst, !.dst = f.src, !.sip = f.ip, !.ip = f.sip,
                      !.sport = f.dport, !.dport = f.sport]
    BY <1>3 DEF normalizeGraphRow
  <2>2. /\ g.src = f.dst /\ g.dst = f.src /\ g.sip = f.ip /\ g.ip = f.sip
        /\ g.sport = f.dport /\ g.dport = f.sport /\ g.scope = f.scope
    BY <1>1, <2>1 DEF FlowRow
  <2>3. g # f
    <3>1. f.sport # f.dport
      BY <1>3
    <3> QED
      BY <2>2, <3>1
  <2>4. f.scope \in {"internal", "unregistered"}
    BY <1>1 DEF FlowRow
  <2> HIDE DEF g
  <2>5. {g.src, g.dst} \subseteq vms \cup {NULL} /\ g.scope \in {"internal", "unregistered"}
    BY <1>1, <2>2, <2>4
  <2> QED
    BY <2>2, <2>3, <2>5 DEF g
<1> QED
  BY <1>2, <1>3

\* The row behind a traffic edge.
LEMMA EdgeRow ==
  ASSUME NEW status, NEW e \in TrafficEdges(status)
  PROVE  \E f \in FlowRows(status) :
           LET g == normalizeGraphRow(f) IN
           /\ e.source = IF g.src # NULL THEN <<"vm", g.src>> ELSE <<"unknown_source", g.sip>>
           /\ e.target = IF g.dst # NULL THEN <<"vm", g.dst>> ELSE <<g.scope, g.ip>>
           /\ ~Hidden(g) /\ g.sip # g.ip
           /\ MayShow(g.src, status) /\ MayShow(g.dst, status)
BY DEF TrafficEdges

\* A traffic edge between two VMs follows an application's conversation, from its client
\* to its server; probes are never shown as traffic, for any inventories and whichever
\* agents report (graph_service.go, visibility.go, vm_inventory.go:115).
THEOREM EdgesAreConversations == Spec => []EdgesFollowConversations
<1>1. ASSUME TablesInv PROVE EdgesFollowConversations
  <2> SUFFICES ASSUME NEW e \in TrafficEdges("any"), e.source[1] = "vm", e.target[1] = "vm"
               PROVE  \E x \in traffic : x.app /\ x.client = e.source[2] /\ x.server = e.target[2]
    BY DEF EdgesFollowConversations
  <2>1. PICK f \in FlowRows("any") :
           LET g == normalizeGraphRow(f) IN
           /\ e.source = IF g.src # NULL THEN <<"vm", g.src>> ELSE <<"unknown_source", g.sip>>
           /\ e.target = IF g.dst # NULL THEN <<"vm", g.dst>> ELSE <<g.scope, g.ip>>
           /\ ~Hidden(g) /\ g.sip # g.ip
    BY EdgeRow
  <2> DEFINE g == normalizeGraphRow(f)
  <2>2. f \in flows /\ f \in FlowRow
    BY <1>1 DEF FlowRows, TablesInv, Rows
  <2>3. /\ g = f \/ (/\ g.src = f.dst /\ g.dst = f.src /\ g.sip = f.ip /\ g.ip = f.sip
                     /\ g.sport = f.dport /\ g.dport = f.sport)
        /\ g = f => isEphemeralPort(f.sport) \/ ~isEphemeralPort(f.dport)
        /\ g.scope \in {"internal", "unregistered"}
    BY <1>1, <2>2, NormalizedRow
  <2>4. /\ e.source = IF g.src # NULL THEN <<"vm", g.src>> ELSE <<"unknown_source", g.sip>>
        /\ e.target = IF g.dst # NULL THEN <<"vm", g.dst>> ELSE <<g.scope, g.ip>>
        /\ ~Hidden(g)
    BY <2>1
  <2> HIDE DEF g
  <2>5. g.src # NULL /\ g.dst # NULL /\ e.source[2] = g.src /\ e.target[2] = g.dst
    <3>1. ASSUME g.src = NULL PROVE FALSE
      <4>1. e.source = <<"unknown_source", g.sip>>
        BY <2>4, <3>1
      <4> QED
        BY <4>1
    <3>2. ASSUME g.dst = NULL PROVE FALSE
      <4>1. e.target = <<g.scope, g.ip>>
        BY <2>4, <3>2
      <4> QED
        BY <2>3, <4>1
    <3>3. e.source = <<"vm", g.src>> /\ e.target = <<"vm", g.dst>>
      BY <2>4, <3>1, <3>2
    <3> QED
      BY <3>1, <3>2, <3>3
  <2>6. PICK x \in traffic : x.port \notin AgentIgnorePorts /\ (AsClient(f, x) \/ AsServer(f, x))
    BY <1>1, <2>2 DEF TablesInv, Origins
  <2>7. f.src \in {NULL, f.sip} /\ f.dst \in {NULL, f.ip}
    BY <1>1, <2>2 DEF TablesInv, Origins
  <2>8. x.port \in {g.sport, g.dport}
    BY <2>3, <2>6 DEF AsClient, AsServer
  <2>9. x.app
    BY <1>1, <2>4, <2>6, <2>8, ProbingAssumption DEF TablesInv, PortsKnown, ProbePorts, Hidden
  <2>10. x.port = AppPort
    BY <1>1, <2>9 DEF TablesInv, PortsKnown
  <2>11. CASE AsClient(f, x)
    <3>1. isEphemeralPort(f.sport)
      BY <2>11, PortFacts DEF AsClient
    <3>2. g = f
      BY <3>1 DEF g, normalizeGraphRow
    <3> QED
      BY <2>5, <2>7, <2>9, <2>11, <3>2 DEF AsClient
  <2>12. CASE AsServer(f, x)
    <3>1. ~isEphemeralPort(f.sport) /\ isEphemeralPort(f.dport)
      BY <2>10, <2>12, PortFacts DEF AsServer
    <3>2. g.src = f.dst /\ g.dst = f.src
      BY <2>3, <3>1
    <3> QED
      BY <2>5, <2>7, <2>9, <2>12, <3>2 DEF AsServer
  <2> QED
    BY <2>6, <2>11, <2>12
<1> QED
  BY <1>1, TablesAlways, PTL

\* The VM nodes of a graph are registered, and visible under the requested status.
LEMMA NodesAreVisible ==
  ASSUME TablesInv, NEW status, NEW v \in Nodes(status)
  PROVE  v \in VisibleVMs(status)
<1>1. ASSUME NEW e \in TrafficEdges(status), NEW n \in {e.source, e.target}, n[1] = "vm"
      PROVE  n[2] \in VisibleVMs(status)
  <2>1. PICK f \in FlowRows(status) :
           LET g == normalizeGraphRow(f) IN
           /\ e.source = IF g.src # NULL THEN <<"vm", g.src>> ELSE <<"unknown_source", g.sip>>
           /\ e.target = IF g.dst # NULL THEN <<"vm", g.dst>> ELSE <<g.scope, g.ip>>
           /\ MayShow(g.src, status) /\ MayShow(g.dst, status)
    BY EdgeRow
  <2> DEFINE g == normalizeGraphRow(f)
  <2>2. {g.src, g.dst} \subseteq vms \cup {NULL} /\ g.scope \in {"internal", "unregistered"}
    BY NormalizedRow DEF FlowRows
  <2>3. /\ e.source = IF g.src # NULL THEN <<"vm", g.src>> ELSE <<"unknown_source", g.sip>>
        /\ e.target = IF g.dst # NULL THEN <<"vm", g.dst>> ELSE <<g.scope, g.ip>>
        /\ MayShow(g.src, status) /\ MayShow(g.dst, status)
    BY <2>1
  <2> HIDE DEF g
  <2>4. (n = <<"vm", g.src>> /\ g.src # NULL) \/ (n = <<"vm", g.dst>> /\ g.dst # NULL)
    BY <1>1, <2>2, <2>3
  <2> QED
    BY <2>2, <2>3, <2>4 DEF MayShow
<1>2. ASSUME NEW p \in ProbeRows(status) PROVE {p.src, p.dst} \subseteq VisibleVMs(status)
  <2>1. p.src \in vms /\ p.dst \in vms
    BY DEF ProbeRows, TablesInv, References
  <2> QED
    BY <2>1 DEF ProbeRows, MayShow
<1> QED
  BY <1>1, <1>2 DEF Nodes

\* With a requested status the graph has only registered VMs of that status, although old
\* flows and probes name others ("A historical flow must not resurrect a registered VM
\* that is absent", graph_service.go:228).
THEOREM OtherStatusNeverShown == Spec => []RequestedStatusOnly
<1>1. ASSUME TablesInv PROVE RequestedStatusOnly
  BY <1>1, NodesAreVisible DEF RequestedStatusOnly, VisibleVMs
<1> QED
  BY <1>1, TablesAlways, PTL

\* No view names a deleted VM, whatever results and flows arrive after its deletion
\* (connection_service.go:152, connection_state_service.go, agent_service.go:375).
THEOREM DeletedIsGone == Spec => []NothingOfTheDeleted
<1>1. ASSUME TablesInv PROVE NothingOfTheDeleted
  <2>1. ASSUME NEW k \in Views PROVE {k.src, k.dst} \subseteq vms
    <3>1. CASE \E f \in listObserved : k = Key(f.src, f.dst, f.dport)
      BY <3>1 DEF listObserved, Key
    <3>2. CASE \E p \in listProbes : k = Key(p.src, p.dst, p.port)
      BY <1>1, <3>2 DEF listProbes, Key, TablesInv, References
    <3>3. CASE k = Key(declared.src, declared.dst, declared.port) /\ (Intent(k) # NULL \/ Config(k) # NULL)
      BY <1>1, <3>3 DEF Intent, Config, Key, TablesInv, References
    <3> QED
      BY <3>1, <3>2, <3>3 DEF Views
  <2>2. Nodes("any") \subseteq vms
    BY <1>1, NodesAreVisible DEF VisibleVMs
  <2> QED
    BY <2>1, <2>2 DEF NothingOfTheDeleted
<1> QED
  BY <1>1, TablesAlways, PTL

-----------------------------------------------------------------------------
(* The fold that makes a reachability edge.                                *)

\* A set of numbers that is not empty has a least element.
LEMMA LeastNumber ==
  ASSUME NEW T \in SUBSET Nat, T # {}
  PROVE  \E m \in T : \A k \in T : m <= k
<1> DEFINE Less == {ss \in Nat \X Nat : ss[1] < ss[2]}
<1>1. IsWellFoundedOn(Less, Nat)
  BY NatLessThanWellFounded, Zenon DEF OpToRel
<1>2. \E m \in T : \A k \in T : <<k, m>> \notin Less
  <2> HIDE DEF Less
  <2> QED
    BY <1>1, WFMin, Zenon
<1>3. \A m, k \in Nat : <<k, m>> \notin Less => m <= k
  OBVIOUS
<1> HIDE DEF Less
<1> QED
  BY <1>2, <1>3

\* Induction for a set of numbers.
LEMMA SetInduction ==
  ASSUME NEW S, 0 \in S, \A n \in Nat : n \in S => n + 1 \in S
  PROVE  Nat \subseteq S
<1> SUFFICES ASSUME Nat \ S # {} PROVE FALSE
  OBVIOUS
<1>1. PICK m \in Nat \ S : \A k \in Nat \ S : m <= k
  BY LeastNumber, Zenon
<1>2. m # 0 /\ m - 1 \in Nat
  OBVIOUS
<1>3. m - 1 \in S
  BY <1>1, <1>2
<1> QED
  BY <1>2, <1>3

\* What Max takes from a set of positions.
LEMMA MaxFacts ==
  ASSUME NEW n \in Nat, NEW s \in SUBSET (1..n), s # {}
  PROVE  Max(s) \in s /\ \A y \in s : Max(s) >= y
<1> DEFINE T == {n - x : x \in s}
<1>1. T \in SUBSET Nat /\ T # {}
  <2>1. \A x \in s : n - x \in Nat
    OBVIOUS
  <2> QED
    BY <2>1, Zenon
<1>2. PICK m \in T : \A k \in T : m <= k
  BY <1>1, LeastNumber, Zenon
<1>3. PICK x \in s : m = n - x
  BY <1>2
<1>4. \A y \in s : n - x <= n - y
  BY <1>2, <1>3, Zenon
<1>5. \A y \in s : x >= y
  BY <1>3, <1>4
<1> QED
  BY <1>3, <1>5, Zenon DEF Max

blank == [port |-> 0, reachable |-> FALSE, failed |-> FALSE, errAge |-> Old]

\* The function FoldLeft iterates over the sets of the first n positions of q.
Iterates(f, q, n) ==
  f = [s \in SUBSET (1..n) |-> IF s = {} THEN blank
                               ELSE ReachabilityStep(f[s \ {Max(s)}], q[Max(s)])]

\* FoldLeft is this function's value for all positions.
LEMMA FoldIsIterate ==
  ASSUME NEW n \in Nat, NEW q, DOMAIN q = 1..n
  PROVE  FoldLeft(ReachabilityStep, blank, q) = (CHOOSE f : Iterates(f, q, n))[1..n]
BY DEF FoldLeft, MapThenFoldSet, Iterates

\* The function exists: from n positions to n + 1, a set that has the new position
\* applies its step last.
LEMMA IterateExists ==
  ASSUME NEW q
  PROVE  \A n \in Nat : \E f : Iterates(f, q, n)
<1> DEFINE S == {n \in Nat : \E f : Iterates(f, q, n)}
<1>1. 0 \in S
  <2> DEFINE f == [s \in SUBSET (1..0) |-> blank]
  <2>1. SUBSET (1..0) = {{}}
    OBVIOUS
  <2>2. Iterates(f, q, 0)
    BY <2>1 DEF Iterates
  <2> QED
    BY <2>2
<1>2. ASSUME NEW n \in Nat, n \in S PROVE n + 1 \in S
  <2>1. PICK f : Iterates(f, q, n)
    BY <1>2
  <2> DEFINE g == [s \in SUBSET (1..(n + 1)) |->
                     IF n + 1 \in s THEN ReachabilityStep(f[s \ {n + 1}], q[n + 1]) ELSE f[s]]
             body(s) == IF s = {} THEN blank ELSE ReachabilityStep(g[s \ {Max(s)}], q[Max(s)])
  <2>2. ASSUME NEW s \in SUBSET (1..(n + 1)) PROVE g[s] = body(s)
    <3>1. CASE n + 1 \in s
      <4>1. Max(s) = n + 1
        <5>1. n + 1 \in Nat /\ s # {}
          BY <3>1
        <5>2. Max(s) \in s /\ \A y \in s : Max(s) >= y
          BY <5>1, MaxFacts, Zenon
        <5>3. Max(s) \in 1..(n + 1) /\ Max(s) >= n + 1
          BY <3>1, <5>2, Zenon
        <5> QED
          BY <5>3
      <4>2. s \ {n + 1} \in SUBSET (1..(n + 1)) /\ n + 1 \notin s \ {n + 1} /\ s # {}
        BY <3>1
      <4>3. g[s \ {n + 1}] = f[s \ {n + 1}]
        BY <4>2
      <4>4. g[s] = ReachabilityStep(f[s \ {n + 1}], q[n + 1])
        BY <3>1
      <4> HIDE DEF g
      <4> QED
        BY <4>1, <4>2, <4>3, <4>4
    <3>2. CASE n + 1 \notin s
      <4>1. s \in SUBSET (1..n)
        BY <3>2
      <4>2. g[s] = f[s]
        BY <3>2
      <4>3. f[s] = IF s = {} THEN blank ELSE ReachabilityStep(f[s \ {Max(s)}], q[Max(s)])
        BY <2>1, <4>1, Zenon DEF Iterates
      <4>4. s # {} => g[s \ {Max(s)}] = f[s \ {Max(s)}]
        BY <3>2, <4>1, Zenon
      <4> HIDE DEF g
      <4> QED
        BY <4>2, <4>3, <4>4
    <3> QED
      BY <3>1, <3>2
  <2>3. g = [s \in SUBSET (1..(n + 1)) |-> g[s]]
    OBVIOUS
  <2>4. Iterates(g, q, n + 1)
    <3> HIDE DEF g
    <3> QED
      BY <2>2, <2>3, Zenon DEF Iterates
  <2> QED
    BY <2>4
<1> HIDE DEF S
<1>3. Nat \subseteq S
  BY <1>1, <1>2, SetInduction
<1> QED
  BY <1>3 DEF S

\* The fold goes through the prefixes of q, one row a step.
LEMMA FoldPrefixes ==
  ASSUME NEW n \in Nat, NEW q, DOMAIN q = 1..n
  PROVE  \E edge : /\ edge[0] = blank
                   /\ \A i \in 0..n : i < n => edge[i + 1] = ReachabilityStep(edge[i], q[i + 1])
                   /\ FoldLeft(ReachabilityStep, blank, q) = edge[n]
<1> DEFINE f == CHOOSE f : Iterates(f, q, n)
<1>1. Iterates(f, q, n)
  BY IterateExists
<1>2. FoldLeft(ReachabilityStep, blank, q) = f[1..n]
  BY FoldIsIterate
<1> HIDE DEF f
<1>3. f[1..0] = blank
  <2>1. 1..0 = {} /\ {} \in SUBSET (1..n)
    OBVIOUS
  <2> QED
    BY <1>1, <2>1 DEF Iterates
<1>4. ASSUME NEW i \in 0..n, i < n
      PROVE  f[1..(i + 1)] = ReachabilityStep(f[1..i], q[i + 1])
  <2> DEFINE s == 1..(i + 1)
  <2>1. s \in SUBSET (1..n) /\ s # {} /\ i + 1 \in s /\ s \ {i + 1} = 1..i
    <3>1. i \in Nat /\ i + 1 <= n
      BY <1>4
    <3>2. \A y \in s : y \in 1..n
      BY <3>1
    <3>3. i + 1 \in s
      BY <3>1
    <3>4. s \ {i + 1} = 1..i
      BY <3>1
    <3> QED
      BY <3>2, <3>3, <3>4, Zenon
  <2>2. \A y \in s : y <= i + 1
    OBVIOUS
  <2> HIDE DEF s
  <2>3. Max(s) \in s /\ Max(s) >= i + 1
    BY <2>1, MaxFacts, Zenon
  <2>4. Max(s) = i + 1
    <3>1. Max(s) \in 1..n
      BY <2>1, <2>3
    <3> QED
      BY <2>2, <2>3, <3>1
  <2>5. f[s] = ReachabilityStep(f[s \ {Max(s)}], q[Max(s)])
    BY <1>1, <2>1, Zenon DEF Iterates
  <2> QED
    BY <2>1, <2>4, <2>5, Zenon DEF s
<1> DEFINE edge == [i \in 0..n |-> f[1..i]]
<1>5. edge[0] = blank /\ edge[n] = f[1..n]
  BY <1>3
<1>6. \A i \in 0..n : i < n => edge[i + 1] = ReachabilityStep(edge[i], q[i + 1])
  BY <1>4
<1> HIDE DEF edge
<1> QED
  BY <1>2, <1>5, <1>6

EdgeState == [port : Nat, reachable : Flag, failed : Flag, errAge : 0..Old]

\* One row: a failure sets the port and brings errAge down; a success keeps the port and
\* the age of a failure.
LEMMA StepFacts ==
  ASSUME NEW e \in EdgeState, NEW p \in ProbeRow
  PROVE  LET g == ReachabilityStep(e, p) IN
         /\ g \in EdgeState
         /\ g.failed <=> e.failed \/ ~p.ok
         /\ ~p.ok => g.port = p.port /\ g.errAge <= p.age
         /\ p.ok /\ e.failed => g.port = e.port
         /\ p.ok => g.errAge = e.errAge
         /\ g.errAge <= e.errAge
<1> DEFINE g == ReachabilityStep(e, p)
           port == IF ~p.ok THEN p.port ELSE IF e.failed THEN e.port ELSE preferredGraphPort(e.port, p.port)
           reachable == e.reachable \/ p.ok
           failed == e.failed \/ ~p.ok
           errAge == IF ~p.ok /\ p.age < e.errAge THEN p.age ELSE e.errAge
<1>1. /\ e.port \in Nat /\ e.errAge \in 0..Old
      /\ p.port \in Nat /\ p.age \in 0..Old
  BY DEF EdgeState, ProbeRow
<1>2. port \in Nat
  BY <1>1 DEF preferredGraphPort
<1>3. reachable \in Flag /\ failed \in Flag
  BY DEF Flag
<1>4. errAge \in 0..Old /\ errAge <= e.errAge /\ (~p.ok => errAge <= p.age) /\ (p.ok => errAge = e.errAge)
  BY <1>1 DEF Old
<1>5. (~p.ok => port = p.port) /\ (p.ok /\ e.failed => port = e.port)
  OBVIOUS
<1>6. failed <=> e.failed \/ ~p.ok
  OBVIOUS
<1>7. g = [e EXCEPT !.port = port, !.reachable = reachable, !.failed = failed, !.errAge = errAge]
  BY DEF ReachabilityStep
<1> HIDE DEF g, port, reachable, failed, errAge
<1>8. g \in EdgeState /\ g.port = port /\ g.failed = failed /\ g.errAge = errAge
  BY <1>2, <1>3, <1>4, <1>7, Zenon DEF EdgeState
<1> QED
  BY <1>4, <1>5, <1>6, <1>8 DEF g

\* The edge after all rows: its errAge is at most the age of any failure, and below Old
\* only if it names the port of a failure.
LEMMA FoldFacts ==
  ASSUME NEW n \in Nat, NEW q \in [1..n -> ProbeRow]
  PROVE  LET e == FoldLeft(ReachabilityStep, blank, q) IN
         /\ e \in EdgeState
         /\ \A j \in 1..n : ~q[j].ok => e.errAge <= q[j].age
         /\ e.errAge < Old => \E j \in 1..n : ~q[j].ok /\ q[j].port = e.port
<1>1. PICK edge : /\ edge[0] = blank
                  /\ \A i \in 0..n : i < n => edge[i + 1] = ReachabilityStep(edge[i], q[i + 1])
                  /\ FoldLeft(ReachabilityStep, blank, q) = edge[n]
  BY FoldPrefixes, Zenon
<1> DEFINE Good(i) ==
             /\ edge[i] \in EdgeState
             /\ \A j \in 1..i : ~q[j].ok => edge[i].failed /\ edge[i].errAge <= q[j].age
             /\ edge[i].failed => \E j \in 1..i : ~q[j].ok /\ q[j].port = edge[i].port
             /\ edge[i].errAge < Old => edge[i].failed
           S == {i \in Nat : i <= n => Good(i)}
<1>2. Good(0)
  <2>1. blank \in EdgeState /\ blank.failed = FALSE /\ blank.errAge = Old
    <3>1. FALSE \in Flag
      BY DEF Flag
    <3>2. 0 \in Nat /\ Old \in 0..Old
      BY DEF Old
    <3> QED
      BY <3>1, <3>2, Zenon DEF blank, EdgeState
  <2> QED
    BY <1>1, <2>1 DEF Old
<1>3. ASSUME NEW i \in Nat, i + 1 <= n, Good(i) PROVE Good(i + 1)
  <2> DEFINE e == edge[i]
             p == q[i + 1]
             g == edge[i + 1]
  <2>1. g = ReachabilityStep(e, p) /\ e \in EdgeState /\ p \in ProbeRow
    <3>1. i \in 0..n /\ i < n /\ i + 1 \in 1..n
      BY <1>3
    <3> QED
      BY <1>1, <1>3, <3>1
  <2>2. /\ \A j \in 1..i : ~q[j].ok => e.failed /\ e.errAge <= q[j].age
        /\ e.failed => \E j \in 1..i : ~q[j].ok /\ q[j].port = e.port
        /\ e.errAge < Old => e.failed
    BY <1>3
  <2>3. \A j \in 1..i : q[j].age \in 0..Old
    BY <1>3 DEF ProbeRow
  <2>4. 1..(i + 1) = (1..i) \cup {i + 1}
    OBVIOUS
  <2> HIDE DEF e, p, g, Good
  <2>5. /\ g \in EdgeState
        /\ g.failed <=> e.failed \/ ~p.ok
        /\ ~p.ok => g.port = p.port /\ g.errAge <= p.age
        /\ p.ok /\ e.failed => g.port = e.port
        /\ p.ok => g.errAge = e.errAge
        /\ g.errAge <= e.errAge
    BY <2>1, StepFacts, Zenon
  <2>6. e.errAge \in 0..Old /\ g.errAge \in 0..Old
    BY <2>1, <2>5 DEF EdgeState
  <2>7. ASSUME NEW j \in 1..(i + 1), ~q[j].ok PROVE g.failed /\ g.errAge <= q[j].age
    <3>1. CASE j = i + 1
      BY <2>5, <2>7, <3>1 DEF p
    <3>2. CASE j \in 1..i
      <4>1. e.failed /\ e.errAge <= q[j].age /\ q[j].age \in 0..Old
        BY <2>2, <2>3, <2>7, <3>2
      <4> QED
        BY <2>5, <2>6, <4>1 DEF Old
    <3> QED
      BY <2>4, <3>1, <3>2
  <2>8. ASSUME g.failed PROVE \E j \in 1..(i + 1) : ~q[j].ok /\ q[j].port = g.port
    <3>1. CASE ~p.ok
      BY <2>4, <2>5, <3>1 DEF p
    <3>2. CASE p.ok
      BY <2>2, <2>4, <2>5, <2>8, <3>2
    <3> QED
      BY <3>1, <3>2
  <2>9. g.errAge < Old => g.failed
    BY <2>2, <2>5, <2>6 DEF Old
  <2> QED
    BY <2>5, <2>7, <2>8, <2>9, Zenon DEF g, Good
<1>4. \A i \in Nat : i \in S => i + 1 \in S
  <2> SUFFICES ASSUME NEW i \in Nat, i \in S, i + 1 <= n PROVE Good(i + 1)
    OBVIOUS
  <2>1. Good(i)
    OBVIOUS
  <2> HIDE DEF Good
  <2> QED
    BY <1>3, <2>1
<1>5. 0 \in S
  BY <1>2
<1> HIDE DEF S
<1>6. n \in S
  BY <1>4, <1>5, SetInduction
<1>7. Good(n)
  BY <1>6 DEF S
<1> QED
  BY <1>1, <1>7

\* A sequence of SetToSeqs has every element of its set.
LEMMA SetToSeqsFacts ==
  ASSUME NEW S, IsFiniteSet(S), NEW q \in SetToSeqs(S)
  PROVE  /\ Cardinality(S) \in Nat /\ q \in [1..Cardinality(S) -> S]
         /\ \A x \in S : \E i \in 1..Cardinality(S) : q[i] = x
<1> DEFINE n == Cardinality(S)
<1>1. n \in Nat /\ q \in [1..n -> S] /\ \A i, j \in 1..n : i # j => q[i] # q[j]
  BY FS_CardinalityType DEF SetToSeqs
<1>2. Cardinality(1..n) = n
  BY <1>1, FS_Interval
<1> HIDE DEF n
<1>3. q \in Injection(1..n, S)
  BY <1>1 DEF Injection, IsInjective
<1>4. q \in Surjection(1..n, S)
  BY <1>2, <1>3, FS_Injection DEF n
<1> QED
  BY <1>1, <1>4 DEF Surjection, n

\* The failed probes of a pair, and of the active window.
FailedProbes(status, pair) == {p \in ProbeRows(status) : <<p.src, p.dst>> = pair /\ ~p.ok}
ActiveFailures(status, pair) == {p \in FailedProbes(status, pair) : p.age = Active}

\* A reachability edge is failed exactly because of failed probes: it names the port of one,
\* and one of the active window is enough.
LEMMA EdgeFacts ==
  ASSUME TablesInv, NEW status, NEW pair, NEW e \in ReachabilityEdges(status, pair)
  PROVE  /\ e.failed => \E p \in FailedProbes(status, pair) : p.port = e.port
         /\ ActiveFailures(status, pair) # {} => e.failed
<1> DEFINE rows == {p \in ProbeRows(status) : <<p.src, p.dst>> = pair}
           n == Cardinality(rows)
<1>1. rows \subseteq ProbeRow /\ IsFiniteSet(rows)
  <2>1. rows \subseteq probes /\ probes \subseteq ProbeRow /\ IsFiniteSet(probes)
    BY DEF ProbeRows, TablesInv, Rows
  <2> HIDE DEF rows
  <2> QED
    BY <2>1, FS_Subset
<1>2. PICK q \in SetToSeqs(rows) : e = ReachabilityEdge(q)
  BY DEF ReachabilityEdges, Orders
<1> HIDE DEF rows
<1>3. n \in Nat /\ q \in [1..n -> rows] /\ \A p \in rows : \E i \in 1..n : q[i] = p
  BY <1>1, SetToSeqsFacts
<1> HIDE DEF n
<1>4. q \in [1..n -> ProbeRow]
  BY <1>1, <1>3
<1> DEFINE edge == FoldLeft(ReachabilityStep, blank, q)
<1>5. /\ edge \in EdgeState
      /\ \A j \in 1..n : ~q[j].ok => edge.errAge <= q[j].age
      /\ edge.errAge < Old => \E j \in 1..n : ~q[j].ok /\ q[j].port = edge.port
  BY <1>3, <1>4, FoldFacts, Zenon
<1>6. e = [edge EXCEPT !.failed = (edge.errAge = Active)]
  BY <1>2 DEF ReachabilityEdge, blank
<1> HIDE DEF edge
<1>7. (e.failed <=> edge.errAge = Active) /\ e.port = edge.port /\ edge.errAge \in 0..Old
  BY <1>5, <1>6, Zenon DEF EdgeState
<1>8. ASSUME e.failed PROVE \E p \in FailedProbes(status, pair) : p.port = e.port
  <2>1. PICK j \in 1..n : ~q[j].ok /\ q[j].port = edge.port
    BY <1>5, <1>7, <1>8 DEF Active, Old
  <2>2. q[j] \in ProbeRows(status) /\ <<q[j].src, q[j].dst>> = pair
    BY <1>3 DEF rows
  <2>3. q[j] \in FailedProbes(status, pair)
    BY <2>1, <2>2, Zenon DEF FailedProbes
  <2> QED
    BY <1>7, <2>1, <2>3, Zenon
<1>9. ASSUME NEW p \in ActiveFailures(status, pair) PROVE e.failed
  <2>1. p \in rows /\ ~p.ok /\ p.age = Active
    BY DEF rows, ActiveFailures, FailedProbes
  <2>2. PICK i \in 1..n : q[i] = p
    BY <1>3, <2>1
  <2>3. edge.errAge <= 0
    BY <1>5, <2>1, <2>2 DEF Active
  <2> QED
    BY <1>7, <2>3 DEF Active
<1> QED
  BY <1>8, <1>9

\* A failure of the active window is shown with the port of a failure, however many other
\* ports were probed and in whichever order the rows come (graph_service.go:361).
THEOREM FailuresAreShown == Spec => []FailureIsShown
<1>1. ASSUME TablesInv PROVE FailureIsShown
  <2> SUFFICES ASSUME NEW p \in ProbeRows("any"), ~p.ok, p.age = Active,
                      NEW e \in ReachabilityEdges("any", <<p.src, p.dst>>)
               PROVE  /\ e.failed
                      /\ \E q \in ProbeRows("any") :
                           <<q.src, q.dst, q.port>> = <<p.src, p.dst, e.port>> /\ ~q.ok
    BY DEF FailureIsShown
  <2> DEFINE pair == <<p.src, p.dst>>
  <2>1. p \in ActiveFailures("any", pair)
    BY DEF ActiveFailures, FailedProbes
  <2> HIDE DEF pair
  <2>2. e \in ReachabilityEdges("any", pair)
    BY DEF pair
  <2>3. e.failed
    BY <1>1, <2>1, <2>2, EdgeFacts
  <2>4. PICK q \in FailedProbes("any", pair) : q.port = e.port
    BY <1>1, <2>2, <2>3, EdgeFacts
  <2> QED
    BY <2>3, <2>4 DEF pair, FailedProbes
<1> QED
  BY <1>1, TablesAlways, PTL

\* The two views never contradict each other on a failure: a connection whose edge the
\* graph shows as failed is failed, degraded or blocked in the list
\* (graph_service.go:361-420, connection_state_service.go:352).
THEOREM ViewsAgreeOnFailure == Spec => []FailedEdgeIsUnhealthy
<1>1. ASSUME TablesInv PROVE FailedEdgeIsUnhealthy
  <2> SUFFICES ASSUME NEW pair \in ReachabilityPairs("any"), NEW e \in ReachabilityEdges("any", pair), e.failed
               PROVE  Health(Key(pair[1], pair[2], e.port)) \in {"failed", "degraded", "blocked"}
    BY DEF FailedEdgeIsUnhealthy
  <2> DEFINE k == Key(pair[1], pair[2], e.port)
  <2>1. PICK p \in FailedProbes("any", pair) : p.port = e.port
    BY <1>1, EdgeFacts
  <2>2. p \in listProbes
    <3>1. p \in probes /\ p.age <= TTL /\ p.dst \in vms
      BY DEF FailedProbes, ProbeRows
    <3>2. p.age \in 0..Old
      BY <1>1, <3>1 DEF TablesInv, Rows, ProbeRow
    <3>3. p.age <= Window
      BY <3>1, <3>2 DEF TTL, Window, Old
    <3> QED
      BY <3>1, <3>3 DEF listProbes
  <2>3. p \in Probed(k)
    BY <2>1, <2>2 DEF Probed, FailedProbes
  <2>4. Failed(k)
    BY <2>3 DEF Failed, FailedProbes
  <2> HIDE DEF k
  <2>5. Health(k) \in {"failed", "degraded", "blocked"}
    BY <2>4 DEF Health
  <2> QED
    BY <2>5 DEF k
<1> QED
  BY <1>1, TablesAlways, PTL
=============================================================================
