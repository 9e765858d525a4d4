------------------------------ MODULE RowLocks ------------------------------
(***************************************************************************)
(* The row locks of the backend's transactions                             *)
(* (src/backend/internal/service): every statement locks the rows it       *)
(* writes until the transaction ends, so two transactions that write the   *)
(* same rows in opposite orders wait for each other.  PostgreSQL then      *)
(* aborts one of them, whose caller gets an error.                         *)
(*                                                                         *)
(* A transaction is the sequence of locks its statements take.  Agent a,   *)
(* its VM and its address are all called a.  A row a transaction inserts   *)
(* is locked like one it updates.  The advisory lock of Ingest is a row.   *)
(***************************************************************************)
EXTENDS Naturals, Sequences, SequencesExt

CONSTANTS
  Agents,
  Txns,      \* callers, each of which runs one transaction after the other
  Workloads  \* the operations considered together: caller -> [op, agent]

VARIABLES
  load,  \* the workload of this behaviour
  plan,  \* caller -> the locks its transaction takes, in order; <<>> if it runs none
  pc     \* caller -> how many of them it holds

lockVars == <<plan, pc>>

ASSUME WorkloadsAssumption ==
  Workloads \subseteq
    [Txns -> [op : {"Ingest", "RecordProbe", "Heartbeat", "Register", "Sweep"}, agent : Agents]]

-----------------------------------------------------------------------------
(* Lock modes: a foreign key check shares the key of the row it refers to, *)
(* an UPDATE leaves the key alone, a DELETE and FOR UPDATE do not.         *)

Lock(mode, table, key) == [mode |-> mode, row |-> [table |-> table, key |-> key]]

KeyShare(table, key) == Lock("key_share", table, key)
NoKeyUpdate(table, key) == Lock("no_key_update", table, key)
Update(table, key) == Lock("update", table, key)

\* internal_same_tenant, say, of a destination that has registered, or unknown_internal.
Scopes == {"internal", "unknown"}

Conflict(x, y) ==
  /\ x.row = y.row
  /\ \/ "update" \in {x.mode, y.mode}
     \/ x.mode = "no_key_update" /\ y.mode = "no_key_update"

\* Faulty order: the VM before the agent.
Ingest_VMFirst(a, b, scope) ==
  <<Update("advisory", <<a, b, scope>>), Update("network_flows", <<a, b, scope>>),
    NoKeyUpdate("vms", a), NoKeyUpdate("agents", a)>>

\* FlowService.Ingest, a flow from a to b.  flow_observations refers to the agent
\* and to both VMs; the row of a host that has not registered comes first.
Ingest(a, b, scope) ==
  IF scope = "internal"
  THEN <<Update("advisory", <<a, b, scope>>), Update("network_flows", <<a, b, scope>>),
         KeyShare("agents", a), KeyShare("vms", a), KeyShare("vms", b),
         NoKeyUpdate("agents", a), NoKeyUpdate("vms", a)>>
  ELSE <<NoKeyUpdate("hosts", b), Update("advisory", <<a, b, scope>>),
         Update("network_flows", <<a, b, scope>>),
         KeyShare("agents", a), KeyShare("vms", a),
         NoKeyUpdate("agents", a), NoKeyUpdate("vms", a)>>

\* ConnectionService.RecordProbe; only a new row is checked against what it refers to.
RecordProbe(a, b, clause) ==
  IF clause = "insert"
  THEN <<NoKeyUpdate("connection_probes", <<a, b>>), KeyShare("agents", a), KeyShare("vms", a),
         KeyShare("vms", b), NoKeyUpdate("agents", a), NoKeyUpdate("vms", a)>>
  ELSE <<NoKeyUpdate("connection_probes", <<a, b>>), NoKeyUpdate("agents", a),
         NoKeyUpdate("vms", a)>>

\* AgentService.Register with resolveUnknownHost: the flows towards the host that has
\* got a name are updated in any order.
Register(a) ==
  { <<NoKeyUpdate("vms", a), NoKeyUpdate("agents", a), NoKeyUpdate("hosts", a)>> \o flows :
      flows \in SetToSeqs({NoKeyUpdate("network_flows", <<b, a, "unknown">>) : b \in Agents \ {a}}) }

\* AgentService.UpdateStatuses: the rows whose status changes, in any order.
UpdateStatuses ==
  { rows \o other : rows \in SetToAllKPermutations({NoKeyUpdate("agents", a) : a \in Agents}),
                    other \in SetToAllKPermutations({NoKeyUpdate("vms", a) : a \in Agents}) }

\* AgentService.DeleteExpired, one VM: FOR UPDATE SKIP LOCKED never waits; the
\* deletes cascade to the flows, hosts and probes that refer to the agent and the VM.
DeleteExpired(e) ==
  LET others == Agents \ {e} IN
  { <<Update("vms", e), Update("agents", e)>> \o from \o by \o to \o <<NoKeyUpdate("hosts", e)>> \o at :
      from \in SetToSeqs({NoKeyUpdate("network_flows", k) : k \in {e} \X others \X Scopes}),
      by \in SetToSeqs({Update("connection_probes", k) : k \in {e} \X others}),
      to \in SetToSeqs({NoKeyUpdate("network_flows", <<b, e, "internal">>) : b \in others}),
      at \in SetToSeqs({NoKeyUpdate("connection_probes", <<b, e>>) : b \in others}) }

\* The ways to run operation o: its locks, and how many the first statement takes
\* without waiting.  The statements of Heartbeat are transactions of their own.
Plans(o) ==
  LET a == o.agent
      Waiting(ps) == {[locks |-> p, skips |-> 0] : p \in ps}
  IN  CASE o.op = "Ingest"      -> Waiting({Ingest(a, b, s) : b \in Agents \ {a}, s \in Scopes})
        [] o.op = "RecordProbe" -> Waiting({RecordProbe(a, b, c) : b \in Agents \ {a}, c \in {"insert", "update"}})
        [] o.op = "Heartbeat"   -> Waiting({<<NoKeyUpdate("agents", a)>>, <<NoKeyUpdate("vms", a)>>})
        [] o.op = "Register"    -> Waiting(Register(a))
        [] o.op = "Sweep"       -> Waiting(UpdateStatuses) \cup
             UNION {{[locks |-> p, skips |-> 2] : p \in DeleteExpired(e)} : e \in Agents}

-----------------------------------------------------------------------------
Held(t) == {plan[t][i] : i \in 1..pc[t]}

Running(t) == plan[t] # <<>>

Wanting(t) == pc[t] < Len(plan[t])

Wanted(t) == plan[t][pc[t] + 1]

\* t waits for a row that u holds.
WaitsFor(t, u) == t # u /\ Wanting(t) /\ \E held \in Held(u) : Conflict(held, Wanted(t))

Blocked(t) == \E u \in Txns : WaitsFor(t, u)

\* A set of transactions each of which waits for another one of the set.
Deadlocked(S) == S # {} /\ \A t \in S : \E u \in S : WaitsFor(t, u)

LocksInit ==
  /\ load \in Workloads
  /\ plan = [t \in Txns |-> <<>>]
  /\ pc = [t \in Txns |-> 0]

\* pool.Begin and, for DeleteExpired, the SELECT that skips locked rows.
Begin(t) ==
  /\ ~Running(t)
  /\ \E p \in Plans(load[t]) :
       /\ \A i \in 1..p.skips : \A u \in Txns \ {t} :
            ~\E held \in Held(u) : Conflict(held, p.locks[i])
       /\ plan' = [plan EXCEPT ![t] = p.locks]
       /\ pc' = [pc EXCEPT ![t] = p.skips]

\* A statement gets the next lock.
Acquire(t) ==
  /\ Wanting(t) /\ ~Blocked(t)
  /\ pc' = [pc EXCEPT ![t] = @ + 1]
  /\ UNCHANGED plan

\* Faulty end: after an error the handler returns and its transaction stays open.
End_Open(t) ==
  /\ plan' = IF Wanting(t) THEN plan ELSE [plan EXCEPT ![t] = <<>>]
  /\ pc' = IF Wanting(t) THEN pc ELSE [pc EXCEPT ![t] = 0]

\* The transaction ends and its locks are released.
End(t) ==
  /\ plan' = [plan EXCEPT ![t] = <<>>]
  /\ pc' = [pc EXCEPT ![t] = 0]

CommitTxn(t) == Running(t) /\ ~Wanting(t) /\ End(t)

\* A statement fails or its context is cancelled: the deferred Rollback.
Rollback(t) == Running(t) /\ Wanting(t) /\ End(t)

\* A circle: no part of it is deadlocked, so that nobody merely waits for it.
Circle(S) == Deadlocked(S) /\ \A T \in SUBSET S : Deadlocked(T) => T = S

\* PostgreSQL aborts a transaction of a circle.
Detect == \E S \in SUBSET Txns : Circle(S) /\ \E t \in S : Rollback(t)

LocksNext ==
  /\ \E t \in Txns : Begin(t) \/ Acquire(t) \/ CommitTxn(t) \/ Rollback(t)
  /\ UNCHANGED load

LocksSpec == LocksInit /\ [][LocksNext]_<<load, lockVars>>

\* PostgreSQL grants a row to its waiters in the order they came and looks for
\* deadlocks; a handler that is not waiting goes on.  Nobody has to begin.
FairSpec ==
  /\ LocksSpec
  /\ WF_lockVars(Detect)
  /\ \A t \in Txns : SF_lockVars(Acquire(t)) /\ WF_lockVars(CommitTxn(t))

-----------------------------------------------------------------------------
(* Properties.                                                             *)

Telemetry == {t \in Txns : load[t].op \in {"Ingest", "RecordProbe", "Heartbeat"}}

\* Telemetry never deadlocks by itself: late handlers, retries and probes of any
\* agents, even of one agent, never wait for each other in a circle.  A deadlock
\* needs a registration or the sweep (flow_service.go:63-182, connection_service.go
\* :157-181, agent_service.go:238-257).
TelemetryNeverDeadlocks == \A S \in SUBSET Telemetry : ~Deadlocked(S)

\* Every transaction ends, by a commit or a rollback, and releases its rows, whatever
\* deadlocks registrations and sweeps run into (agent_service.go:61, 285, 345;
\* flow_service.go:38; connection_service.go:138).
EveryTransactionEnds == \A t \in Txns : Running(t) ~> ~Running(t)
=============================================================================
