-------------------------- MODULE FlowStoreProofs --------------------------
(***************************************************************************)
(* Proofs about module FlowStore: whatever the number of VMs, of ingests   *)
(* under way, of registrations, expiries and restarts, the buckets stay    *)
(* sound, and the advisory lock keeps them unique until a VM registers     *)
(* again or a migration rewrites scopes.                                   *)
(***************************************************************************)
EXTENDS FlowStore, SequenceTheorems, TLAPS

-----------------------------------------------------------------------------
(* The inductive invariant.                                                *)

Peers == VMs \cup Outside

Rows ==
  [agent : VMs \cup {None}, src : VMs \cup {None}, dst : VMs \cup {None}, srcIP : VMs,
   dstIP : Peers, scope : Scopes, windows : SUBSET Nat]

Transactions ==
  [n : Nat, step : {"resolved", "locked", "selected"}, row : Nat, src : VMs, srcIP : VMs,
   dstIP : Peers, dst : VMs \cup {None}, scope : {Internal, unregisteredInternalScope}]

Observations == [window : Nat, flow : Nat, dstIP : Peers]

\* The full types, where TypeOK says what references may contain.
Typed ==
  /\ vms \subseteq VMs
  /\ flows \in Seq(Rows)
  /\ txs \subseteq Transactions
  /\ observed \subseteq Observations
  /\ registers \in [VMs -> Nat] /\ ingests \in Nat /\ reaps \in Nat /\ restarts \in Nat

\* References are to VMs that exist.
References ==
  /\ \A i \in DOMAIN flows : {flows[i].agent, flows[i].src, flows[i].dst} \subseteq vms \cup {None}
  /\ \A ip \in DOMAIN unknownHosts : unknownHosts[ip] \in vms \cup {None}

\* A reference is NULL or the VM with that address; one to a destination is internal.
Shape ==
  /\ \A i \in DOMAIN flows : /\ flows[i].src \in {flows[i].srcIP, None}
                             /\ flows[i].dst \in {flows[i].dstIP, None}
                             /\ flows[i].dst # None => flows[i].scope = Internal
  /\ \A t \in txs : /\ t.src = t.srcIP
                    /\ t.dst \in {t.dstIP, None}
                    /\ t.dst # None <=> t.scope = Internal

\* Whoever was taken for a VM has registered.
Met ==
  /\ \A v \in vms : registers[v] >= 1
  /\ \A i \in DOMAIN flows : /\ registers[flows[i].srcIP] >= 1
                             /\ flows[i].scope = Internal =>
                                  flows[i].dstIP \in VMs /\ registers[flows[i].dstIP] >= 1
  /\ \A t \in txs : /\ registers[t.src] >= 1
                    /\ t.dst # None => registers[t.dst] >= 1

\* A window is aggregated once: transactions have numbers of their own, which no
\* observation has yet.
Windows ==
  /\ \A t \in txs : t.n < ingests
  /\ \A o \in observed : o.window < ingests
  /\ \A t, u \in txs : t.n = u.n => t = u
  /\ \A t \in txs, o \in observed : t.n # o.window

\* The row a transaction has selected, and that of an observation, exist and are
\* those of the peer.
Selected ==
  /\ \A t \in txs : t.row # 0 => t.row \in DOMAIN flows /\ flows[t.row].dstIP = t.dstIP
  /\ \A o \in observed : o.flow \in DOMAIN flows

\* The advisory lock excludes.
Exclusive == \A t, u \in Locked : lockKey(t) = lockKey(u) => t = u

\* No VM has registered twice and no migration has run again.
Quiet == restarts = 0 /\ \A v \in VMs : registers[v] <= 1

\* Until then a VM that has gone stays away, so that a NULL and its VM never meet.
Gone ==
  Quiet => \A i \in DOMAIN flows :
             /\ flows[i].src = None => flows[i].srcIP \notin vms
             /\ flows[i].scope = Internal /\ flows[i].dst = None => flows[i].dstIP \notin vms
             /\ flows[i].scope \in {Internal, unregisteredInternalScope}

\* What identifies a bucket for as long as its VMs live.
Key(row) == <<row.srcIP, row.dstIP, row.scope>>

Acceptable(t) == {t.src, t.dst} \ {None} \subseteq vms

\* One bucket per key, and a transaction that found none is the one to add it.
OneRowPerKey ==
  Quiet => /\ \A i, j \in DOMAIN flows : Key(flows[i]) = Key(flows[j]) => i = j
           /\ \A t \in txs : t.step = "selected" /\ t.row = 0 /\ Acceptable(t)
                => \A i \in DOMAIN flows : Key(flows[i]) # Key(t)

StoreInv ==
  /\ Typed /\ References /\ Shape /\ Met
  /\ Windows /\ Selected /\ CountersMatchObservations /\ OnePeerPerBucket
  /\ Exclusive /\ Gone /\ OneRowPerKey /\ InternalIffResolved
-----------------------------------------------------------------------------
(* What the actions do to the table.                                       *)

\* A rewritten table keeps its rows.
LEMMA RowsMapped ==
  ASSUME NEW f \in Seq(Rows), NEW g, g = [i \in DOMAIN f |-> g[i]],
         \A i \in DOMAIN f : g[i] \in Rows
  PROVE  g \in Seq(Rows) /\ DOMAIN g = DOMAIN f
<1>1. Len(f) \in Nat /\ DOMAIN f = 1..Len(f)
  OBVIOUS
<1>2. g \in [1..Len(f) -> Rows]
  BY <1>1
<1> QED
  BY <1>1, <1>2

\* Registration, expiry and migration rewrite rows and never touch addresses and
\* counters.
Rewritten ==
  /\ flows' \in Seq(Rows) /\ DOMAIN flows' = DOMAIN flows
  /\ \A i \in DOMAIN flows : /\ flows'[i].srcIP = flows[i].srcIP
                             /\ flows'[i].dstIP = flows[i].dstIP
                             /\ flows'[i].windows = flows[i].windows

\* Register re-points the unresolved rows (agent_service.go:225-236).
LEMMA RegisterRows ==
  ASSUME Typed, NEW v \in VMs, Register(v)
  PROVE  /\ Rewritten
         /\ \A i \in DOMAIN flows :
              /\ flows'[i].agent = flows[i].agent /\ flows'[i].src = flows[i].src
              /\ i \in Unresolved(v) => flows'[i].dst = v /\ flows'[i].scope = Internal
              /\ i \notin Unresolved(v) =>
                   flows'[i].dst = flows[i].dst /\ flows'[i].scope = flows[i].scope
<1>1. flows' = [i \in DOMAIN flows |->
                  IF i \in Unresolved(v) THEN Repoint(flows[i], v) ELSE flows[i]]
  BY DEF Register
<1>2. \A i \in DOMAIN flows : flows[i] \in Rows
  BY DEF Typed
<1>3. ASSUME NEW i \in DOMAIN flows
      PROVE  /\ flows'[i] \in Rows
             /\ flows'[i].srcIP = flows[i].srcIP /\ flows'[i].dstIP = flows[i].dstIP
             /\ flows'[i].windows = flows[i].windows
             /\ flows'[i].agent = flows[i].agent /\ flows'[i].src = flows[i].src
             /\ i \in Unresolved(v) => flows'[i].dst = v /\ flows'[i].scope = Internal
             /\ i \notin Unresolved(v) =>
                  flows'[i].dst = flows[i].dst /\ flows'[i].scope = flows[i].scope
  <2>1. CASE i \in Unresolved(v)
    BY <1>1, <1>2, <2>1 DEF Repoint, Rows, Scopes
  <2>2. CASE i \notin Unresolved(v)
    BY <1>1, <1>2, <2>2
  <2> QED
    BY <2>1, <2>2
<1>4. flows' \in Seq(Rows) /\ DOMAIN flows' = DOMAIN flows
  BY <1>1, <1>3, RowsMapped DEF Typed
<1> QED
  BY <1>3, <1>4 DEF Rewritten

\* DeleteExpired sets references to NULL (001_init.sql:45-49).
LEMMA DeleteExpiredRows ==
  ASSUME Typed, NEW v \in VMs, DeleteExpired(v)
  PROVE  /\ Rewritten
         /\ \A i \in DOMAIN flows : /\ flows'[i].agent = SetNull(flows[i].agent, v)
                                    /\ flows'[i].src = SetNull(flows[i].src, v)
                                    /\ flows'[i].dst = SetNull(flows[i].dst, v)
                                    /\ flows'[i].scope = flows[i].scope
<1>1. flows' = [i \in DOMAIN flows |->
                  [flows[i] EXCEPT !.agent = SetNull(@, v), !.src = SetNull(@, v),
                                   !.dst = SetNull(@, v)]]
  BY DEF DeleteExpired
<1>2. \A i \in DOMAIN flows : flows[i] \in Rows
  BY DEF Typed
<1>3. ASSUME NEW i \in DOMAIN flows
      PROVE  /\ flows'[i] \in Rows
             /\ flows'[i].srcIP = flows[i].srcIP /\ flows'[i].dstIP = flows[i].dstIP
             /\ flows'[i].windows = flows[i].windows
             /\ flows'[i].agent = SetNull(flows[i].agent, v)
             /\ flows'[i].src = SetNull(flows[i].src, v)
             /\ flows'[i].dst = SetNull(flows[i].dst, v)
             /\ flows'[i].scope = flows[i].scope
  <2> DEFINE row == flows[i]
             new == [row EXCEPT !.agent = SetNull(@, v), !.src = SetNull(@, v), !.dst = SetNull(@, v)]
  <2>1. row \in Rows /\ flows'[i] = new
    BY <1>1, <1>2
  <2>2. new = [agent |-> SetNull(row.agent, v), src |-> SetNull(row.src, v),
               dst |-> SetNull(row.dst, v), srcIP |-> row.srcIP, dstIP |-> row.dstIP,
               scope |-> row.scope, windows |-> row.windows]
    BY <2>1 DEF Rows
  <2>3. \A x \in VMs \cup {None} : SetNull(x, v) \in VMs \cup {None}
    BY DEF SetNull
  <2>4. row = flows[i]
    OBVIOUS
  <2> HIDE DEF row, new
  <2>5. new \in Rows
    BY <2>1, <2>2, <2>3 DEF Rows
  <2> QED
    BY <2>1, <2>2, <2>4, <2>5
<1>4. flows' \in Seq(Rows) /\ DOMAIN flows' = DOMAIN flows
  <2>1. flows' = [i \in DOMAIN flows |-> flows'[i]]
    BY <1>1
  <2> QED
    BY <1>3, <2>1, RowsMapped DEF Typed
<1> QED
  BY <1>3, <1>4 DEF Rewritten

\* Restart applies migration 005, which changes scopes (005_external_private_scope.sql).
LEMMA RestartRows ==
  ASSUME Typed, Restart
  PROVE  /\ Rewritten
         /\ \A i \in DOMAIN flows :
              /\ flows'[i].agent = flows[i].agent /\ flows'[i].src = flows[i].src
              /\ flows'[i].dst = flows[i].dst
              /\ \/ flows'[i].scope = flows[i].scope
                 \/ /\ flows'[i].scope = "external_private" /\ flows[i].dst = None
                    /\ flows[i].scope = "unknown_internal"
<1>1. flows' = [i \in DOMAIN flows |-> Migrated(flows[i])]
  BY DEF Restart
<1>2. \A i \in DOMAIN flows : flows[i] \in Rows
  BY DEF Typed
<1>3. ASSUME NEW i \in DOMAIN flows
      PROVE  /\ flows'[i] \in Rows
             /\ flows'[i].srcIP = flows[i].srcIP /\ flows'[i].dstIP = flows[i].dstIP
             /\ flows'[i].windows = flows[i].windows
             /\ flows'[i].agent = flows[i].agent /\ flows'[i].src = flows[i].src
             /\ flows'[i].dst = flows[i].dst
             /\ \/ flows'[i].scope = flows[i].scope
                \/ /\ flows'[i].scope = "external_private" /\ flows[i].dst = None
                   /\ flows[i].scope = "unknown_internal"
  <2>1. CASE flows[i].scope = "unknown_internal" /\ flows[i].dst = None
    BY <1>1, <1>2, <2>1 DEF Migrated, Rows, Scopes
  <2>2. CASE ~(flows[i].scope = "unknown_internal" /\ flows[i].dst = None)
    BY <1>1, <1>2, <2>2 DEF Migrated, Rows, Scopes
  <2> QED
    BY <2>1, <2>2
<1>4. flows' \in Seq(Rows) /\ DOMAIN flows' = DOMAIN flows
  BY <1>1, <1>3, RowsMapped DEF Typed
<1> QED
  BY <1>3, <1>4 DEF Rewritten

\* IngestCommit adds a row or a window to the one it selected (flow_service.go:99-155).
LEMMA CommitRows ==
  ASSUME Typed, Selected, NEW t \in txs, IngestCommit(t)
  PROVE  /\ flows' \in Seq(Rows)
         /\ t.row = 0 => /\ Len(flows) + 1 \notin DOMAIN flows
                         /\ DOMAIN flows' = DOMAIN flows \cup {Len(flows) + 1}
                         /\ \A i \in DOMAIN flows : flows'[i] = flows[i]
                         /\ flows'[Len(flows) + 1] = NewRow(t)
         /\ t.row # 0 => /\ t.row \in DOMAIN flows
                         /\ DOMAIN flows' = DOMAIN flows
                         /\ \A i \in DOMAIN flows \ {t.row} : flows'[i] = flows[i]
                         /\ flows'[t.row] = Aggregate(flows[t.row], t)
<1>1. t \in Transactions /\ flows \in Seq(Rows)
  BY DEF Typed
<1>2. CASE t.row = 0
  <2>1. flows' = Append(flows, NewRow(t))
    BY <1>2 DEF IngestCommit
  <2>2. NewRow(t) \in Rows
    BY <1>1, ScopeAssumption DEF NewRow, Rows, Transactions, Scopes
  <2> QED
    BY <1>1, <1>2, <2>1, <2>2
<1>3. CASE t.row # 0
  <2>1. flows' = [flows EXCEPT ![t.row] = Aggregate(flows[t.row], t)]
    BY <1>3 DEF IngestCommit
  <2>2. t.row \in DOMAIN flows
    BY <1>3 DEF Selected
  <2>3. Aggregate(flows[t.row], t) \in Rows
    <3>1. t.n \in Nat /\ t.src \in VMs
      BY <1>1 DEF Transactions
    <3>2. flows[t.row] \in Rows
      BY <1>1, <2>2
    <3>3. flows[t.row].windows \in SUBSET Nat
      BY <3>2 DEF Rows
    <3>4. flows[t.row].windows \cup {t.n} \in SUBSET Nat
      BY <3>1, <3>3
    <3> QED
      BY <3>1, <3>2, <3>4 DEF Aggregate, Rows
  <2> QED
    BY <1>1, <1>3, <2>1, <2>2, <2>3
<1> QED
  BY <1>2, <1>3
-----------------------------------------------------------------------------
(* Steps of a transaction before its commit.                               *)

TableUnchanged == UNCHANGED <<vms, flows, hosts, observed, registers, reaps, restarts>>

\* What is said of the table alone stays true.
LEMMA TableKept ==
  ASSUME StoreInv, TableUnchanged
  PROVE  /\ References' /\ CountersMatchObservations' /\ OnePeerPerBucket' /\ Gone'
         /\ InternalIffResolved' /\ Quiet' = Quiet
<1> USE DEF TableUnchanged, hosts
<1>1. References'
  BY DEF StoreInv, References
<1>2. CountersMatchObservations' /\ OnePeerPerBucket'
  BY DEF StoreInv, CountersMatchObservations, OnePeerPerBucket
<1>3. Gone' /\ InternalIffResolved' /\ Quiet' = Quiet
  BY DEF StoreInv, Gone, InternalIffResolved, Quiet
<1> QED
  BY <1>1, <1>2, <1>3

\* A rollback leaves the invariant alone.
LEMMA RollbackKeeps ==
  ASSUME StoreInv, TableUnchanged, ingests' = ingests, txs' \subseteq txs
  PROVE  StoreInv'
<1> USE DEF TableUnchanged
<1>1. Typed'
  BY DEF StoreInv, Typed
<1>2. Shape' /\ Met'
  BY DEF StoreInv, Shape, Met
<1>3. Windows' /\ Selected'
  BY DEF StoreInv, Windows, Selected
<1>4. Exclusive'
  BY DEF StoreInv, Exclusive, Locked, lockKey
<1>5. OneRowPerKey'
  BY TableKept DEF StoreInv, OneRowPerKey, Quiet, Acceptable, Key
<1> QED
  BY <1>1, <1>2, <1>3, <1>4, <1>5, TableKept DEF StoreInv

\* u is t after a step that took a lock or a row.
Carries(u, t) ==
  /\ u.n = t.n /\ u.src = t.src /\ u.srcIP = t.srcIP /\ u.dstIP = t.dstIP /\ u.dst = t.dst
  /\ u.scope = t.scope

\* Such a step preserves the invariant if the lock it holds is nobody else's, the row
\* it has is the peer's, and it goes on without a row only if there is none.
LEMMA AdvanceKeeps ==
  ASSUME StoreInv, TableUnchanged, ingests' = ingests,
         NEW t \in txs, NEW u \in Transactions, Carries(u, t), Advance(t, u),
         u.row # 0 => u.row \in DOMAIN flows /\ flows[u.row].dstIP = u.dstIP,
         \A w \in Locked \ {t} : lockKey(w) # lockKey(t),
         Quiet /\ u.step = "selected" /\ u.row = 0 /\ Acceptable(u)
           => \A i \in DOMAIN flows : Key(flows[i]) # Key(u)
  PROVE  StoreInv'
<1> USE DEF TableUnchanged
<1>1. txs' = (txs \ {t}) \cup {u}
  BY DEF Advance
<1>2. Typed'
  BY <1>1 DEF StoreInv, Typed
<1>3. Shape'
  BY <1>1 DEF StoreInv, Shape, Carries
<1>4. Met'
  BY <1>1 DEF StoreInv, Met, Carries
<1>5. Windows'
  BY <1>1 DEF StoreInv, Windows, Carries
<1>6. Selected'
  BY <1>1 DEF StoreInv, Selected
<1>7. Exclusive'
  <2>1. lockKey(u) = lockKey(t)
    BY DEF lockKey, Carries
  <2>2. Locked' \subseteq (Locked \ {t}) \cup {u}
    BY <1>1 DEF Locked
  <2> QED
    BY <2>1, <2>2 DEF StoreInv, Exclusive, lockKey
<1>8. OneRowPerKey'
  BY <1>1, TableKept DEF StoreInv, OneRowPerKey, Quiet, Acceptable, Key
<1> QED
  BY <1>2, <1>3, <1>4, <1>5, <1>6, <1>7, <1>8, TableKept DEF StoreInv

\* The advisory lock (flow_service.go:80-85).
LEMMA IngestLockKeeps ==
  ASSUME StoreInv, NEW t \in txs, IngestLock(t) PROVE StoreInv'
<1> DEFINE u == [t EXCEPT !.step = "locked"]
<1>1. t \in Transactions
  BY DEF StoreInv, Typed
<1>2. u \in Transactions /\ Carries(u, t) /\ u.row = t.row /\ u.step = "locked"
  BY <1>1 DEF Transactions, Carries
<1>3. Advance(t, u) /\ TableUnchanged /\ ingests' = ingests
  BY DEF IngestLock, TableUnchanged, counters
<1>4. u.row # 0 => u.row \in DOMAIN flows /\ flows[u.row].dstIP = u.dstIP
  BY <1>2 DEF StoreInv, Selected, Carries
<1>5. \A w \in Locked \ {t} : lockKey(w) # lockKey(t)
  BY DEF IngestLock
<1> HIDE DEF u
<1> QED
  BY <1>2, <1>3, <1>4, <1>5, AdvanceKeeps

\* While no VM comes back, the columns of a row follow from its key: a transaction
\* that no row matches, and whose VMs are there, has a key of its own.
LEMMA NoMatchNoKey ==
  ASSUME StoreInv, Quiet, NEW t \in txs, Acceptable(t), NEW i \in DOMAIN flows,
         Key(flows[i]) = Key(t)
  PROVE  Columns(flows[i]) = Columns(t)
<1>1. /\ flows[i].srcIP = t.srcIP /\ flows[i].dstIP = t.dstIP /\ flows[i].scope = t.scope
      /\ t.src # None
  BY ScopeAssumption DEF Key, StoreInv, Typed, Transactions
<1>2. flows[i].src = t.src
  BY <1>1 DEF StoreInv, Shape, Gone, Acceptable
<1>3. flows[i].dst = t.dst
  BY <1>1 DEF StoreInv, Shape, Gone, Acceptable
<1> QED
  BY <1>1, <1>2, <1>3 DEF Columns

\* SELECT ... FOR UPDATE (flow_service.go:87-98).
LEMMA IngestSelectKeeps ==
  ASSUME StoreInv, NEW t \in txs, IngestSelect(t) PROVE StoreInv'
<1> DEFINE match == {i \in DOMAIN flows : Columns(flows[i]) = Columns(t)}
<1>1. t \in Transactions /\ t \in Locked
  BY DEF StoreInv, Typed, Locked, IngestSelect
<1>2. TableUnchanged /\ ingests' = ingests
  BY DEF IngestSelect, TableUnchanged, counters
<1>3. \A w \in Locked \ {t} : lockKey(w) # lockKey(t)
  BY <1>1 DEF StoreInv, Exclusive
<1>4. CASE match = {} /\ Advance(t, [t EXCEPT !.step = "selected"])
  <2> DEFINE u == [t EXCEPT !.step = "selected"]
  <2>1. u \in Transactions /\ Carries(u, t) /\ u.row = t.row
    BY <1>1 DEF Transactions, Carries
  <2>2. u.row # 0 => u.row \in DOMAIN flows /\ flows[u.row].dstIP = u.dstIP
    BY <2>1 DEF StoreInv, Selected, Carries
  <2>3. Advance(t, u)
    BY <1>4
  <2> HIDE DEF u
  <2>4. Quiet /\ Acceptable(u) => \A i \in DOMAIN flows : Key(flows[i]) # Key(u)
    BY <1>4, <2>1, NoMatchNoKey DEF Acceptable, Key, Carries
  <2> QED
    BY <1>2, <1>3, <2>1, <2>2, <2>3, <2>4, AdvanceKeeps
<1>5. CASE \E i \in match : Advance(t, [t EXCEPT !.step = "selected", !.row = i])
  <2>1. PICK i \in match : Advance(t, [t EXCEPT !.step = "selected", !.row = i])
    BY <1>5
  <2> DEFINE u == [t EXCEPT !.step = "selected", !.row = i]
  <2>2. i \in DOMAIN flows /\ i \in Nat /\ i # 0 /\ flows[i].dstIP = t.dstIP
    BY <2>1 DEF StoreInv, Typed, Columns
  <2>3. u \in Transactions /\ Carries(u, t) /\ u.row = i
    BY <1>1, <2>2 DEF Transactions, Carries
  <2>4. Advance(t, u)
    BY <2>1
  <2> HIDE DEF u
  <2>5. u.row # 0 /\ u.row \in DOMAIN flows /\ flows[u.row].dstIP = u.dstIP
    BY <2>2, <2>3 DEF Carries
  <2> QED
    BY <1>2, <1>3, <2>3, <2>4, <2>5, AdvanceKeeps
<1> QED
  BY <1>4, <1>5 DEF IngestSelect

\* A transaction begins (flow_service.go:29-60).
LEMMA IngestResolveKeeps ==
  ASSUME StoreInv, NEW s \in VMs, NEW ip \in Peers, IngestResolve(s, ip) PROVE StoreInv'
<1> DEFINE u == [n |-> ingests, step |-> "resolved", row |-> 0, src |-> s, srcIP |-> s,
                 dstIP |-> ip, dst |-> IF ip \in vms THEN ip ELSE None, scope |-> Scope(ip \in vms)]
<1>1. /\ txs' = txs \cup {u} /\ ingests' = ingests + 1 /\ TableUnchanged
      /\ s \in vms /\ ingests \in Nat /\ vms \subseteq VMs
  BY DEF IngestResolve, TableUnchanged, StoreInv, Typed
<1>2. u.scope = (IF ip \in vms THEN Internal ELSE unregisteredInternalScope)
  BY DEF Scope
<1>3. u \in Transactions
  BY <1>1, <1>2 DEF Transactions, Peers
<1>4. /\ u.n = ingests /\ u.step = "resolved" /\ u.row = 0 /\ u.src = s /\ u.srcIP = s
      /\ u.dstIP = ip /\ u.dst = IF ip \in vms THEN ip ELSE None
  OBVIOUS
<1> HIDE DEF u
<1> USE DEF TableUnchanged
<1>5. Typed'
  BY <1>1, <1>3 DEF StoreInv, Typed
<1>6. Shape'
  BY <1>1, <1>2, <1>4, ScopeAssumption DEF StoreInv, Shape, Internal, Peers
<1>7. Met'
  BY <1>1, <1>4 DEF StoreInv, Met
<1>8. Windows'
  <2>1. \A t \in txs : t.n \in Nat
    BY DEF StoreInv, Typed, Transactions
  <2>2. \A o \in observed : o.window \in Nat
    BY DEF StoreInv, Typed, Observations
  <2> QED
    BY <1>1, <1>4, <2>1, <2>2 DEF StoreInv, Windows
<1>9. Selected'
  BY <1>1, <1>4 DEF StoreInv, Selected
<1>10. Exclusive'
  <2>1. Locked' = Locked
    BY <1>1, <1>4 DEF Locked
  <2> QED
    BY <2>1 DEF StoreInv, Exclusive, lockKey
<1>11. OneRowPerKey'
  BY <1>1, <1>4, TableKept DEF StoreInv, OneRowPerKey, Quiet, Acceptable, Key
<1> QED
  BY <1>1, <1>5, <1>6, <1>7, <1>8, <1>9, <1>10, <1>11, TableKept DEF StoreInv
-----------------------------------------------------------------------------
(* The commit of an ingest.                                                *)

\* The commit adds one observation and removes the transaction.
LEMMA CommitObserves ==
  ASSUME Typed, NEW t \in txs, IngestCommit(t)
  PROVE  /\ txs' = txs \ {t} /\ UNCHANGED <<vms, counters>> /\ Acceptable(t)
         /\ t.step = "selected"
         /\ observed' = observed \cup
              {[window |-> t.n, flow |-> IF t.row = 0 THEN Len(flows) + 1 ELSE t.row,
                dstIP |-> t.dstIP]}
  BY DEF IngestCommit, Acceptable

\* The first window of a bucket (flow_service.go:99-114).
LEMMA InsertKeeps ==
  ASSUME StoreInv, NEW t \in txs, IngestCommit(t), t.row = 0 PROVE StoreInv'
<1> DEFINE k == Len(flows) + 1
           o == [window |-> t.n, flow |-> k, dstIP |-> t.dstIP]
<1>1. /\ flows' \in Seq(Rows) /\ k \notin DOMAIN flows /\ DOMAIN flows' = DOMAIN flows \cup {k}
      /\ \A i \in DOMAIN flows : flows'[i] = flows[i]
      /\ flows'[k] = NewRow(t)
  BY CommitRows DEF StoreInv
<1>2. /\ flows'[k].agent = t.src /\ flows'[k].src = t.src /\ flows'[k].dst = t.dst
      /\ flows'[k].srcIP = t.srcIP /\ flows'[k].dstIP = t.dstIP /\ flows'[k].scope = t.scope
      /\ flows'[k].windows = {t.n}
  BY <1>1 DEF NewRow
<1>3. /\ txs' = txs \ {t} /\ observed' = observed \cup {o} /\ Acceptable(t) /\ t.step = "selected"
      /\ vms' = vms /\ registers' = registers /\ ingests' = ingests /\ reaps' = reaps
      /\ restarts' = restarts
  BY CommitObserves DEF StoreInv, counters
<1>4. k \in Nat /\ t \in Transactions
  BY DEF StoreInv, Typed
<1>5. o.window = t.n /\ o.flow = k /\ o.dstIP = t.dstIP /\ o \in Observations
  BY <1>4 DEF Observations, Transactions
<1> HIDE DEF k, o
<1>6. Typed'
  BY <1>1, <1>3, <1>5 DEF StoreInv, Typed
<1>7. References'
  <2>1. \A i \in DOMAIN flows' : {flows'[i].agent, flows'[i].src, flows'[i].dst} \subseteq vms \cup {None}
    BY <1>1, <1>2, <1>3 DEF StoreInv, References, Acceptable
  <2>2. \A ip \in DOMAIN unknownHosts' : unknownHosts'[ip] \in vms \cup {None}
    BY DEF StoreInv, References, IngestCommit, Upsert
  <2> QED
    BY <1>3, <2>1, <2>2 DEF References
<1>8. Shape'
  BY <1>1, <1>2, <1>3 DEF StoreInv, Shape
<1>9. Met'
  BY <1>1, <1>2, <1>3, <1>4 DEF StoreInv, Met, Shape, Transactions
<1>10. Windows'
  BY <1>3, <1>5 DEF StoreInv, Windows
<1>11. Selected'
  BY <1>1, <1>3, <1>5 DEF StoreInv, Selected
<1>12. CountersMatchObservations'
  <2>1. \A p \in observed : p.flow # k /\ p.window # t.n
    BY <1>1 DEF StoreInv, Selected, Windows
  <2>2. \A i \in DOMAIN flows' :
          flows'[i].windows = {q.window : q \in {p \in observed' : p.flow = i}}
    <3>1. ASSUME NEW i \in DOMAIN flows PROVE
            flows'[i].windows = {q.window : q \in {p \in observed' : p.flow = i}}
      <4>1. {p \in observed' : p.flow = i} = {p \in observed : p.flow = i}
        BY <1>1, <1>3, <1>5, <3>1
      <4> QED
        BY <1>1, <3>1, <4>1 DEF StoreInv, CountersMatchObservations
    <3>2. flows'[k].windows = {q.window : q \in {p \in observed' : p.flow = k}}
      <4>1. {p \in observed' : p.flow = k} = {o}
        BY <1>3, <1>5, <2>1
      <4> QED
        BY <1>2, <1>5, <4>1
    <3> QED
      BY <1>1, <3>1, <3>2
  <2>3. \A p, q \in observed' : p.window = q.window => p = q
    BY <1>3, <1>5, <2>1 DEF StoreInv, CountersMatchObservations
  <2> QED
    BY <2>2, <2>3 DEF CountersMatchObservations
<1>13. OnePeerPerBucket'
  BY <1>1, <1>2, <1>3, <1>5 DEF StoreInv, OnePeerPerBucket, Selected
<1>14. Exclusive'
  BY <1>3 DEF StoreInv, Exclusive, Locked, lockKey
<1>15. Quiet' => Quiet
  BY <1>3 DEF Quiet
<1>16. Gone'
  BY <1>1, <1>2, <1>3, <1>4, <1>15, ScopeAssumption
     DEF StoreInv, Gone, Shape, Acceptable, Transactions
<1>17. OneRowPerKey'
  <2> SUFFICES ASSUME Quiet'
               PROVE  /\ \A i, j \in DOMAIN flows' : Key(flows'[i]) = Key(flows'[j]) => i = j
                      /\ \A u \in txs' : u.step = "selected" /\ u.row = 0 /\ Acceptable(u)'
                           => \A i \in DOMAIN flows' : Key(flows'[i]) # Key(u)
    BY DEF OneRowPerKey, Key
  <2>1. Key(flows'[k]) = Key(t)
    BY <1>2 DEF Key
  <2>2. \A i \in DOMAIN flows : Key(flows'[i]) = Key(flows[i]) /\ Key(flows[i]) # Key(t)
    BY <1>1, <1>3, <1>15 DEF StoreInv, OneRowPerKey
  <2>3. \A u \in txs' : u.step = "selected" => Key(u) # Key(t)
    <3> SUFFICES ASSUME NEW u \in txs', u.step = "selected", Key(u) = Key(t) PROVE FALSE
      OBVIOUS
    <3>1. u \in txs /\ u # t /\ u \in Locked /\ t \in Locked
      BY <1>3 DEF Locked
    <3>2. lockKey(u) = lockKey(t)
      BY <3>1 DEF Key, lockKey, StoreInv, Shape
    <3> QED
      BY <3>1, <3>2 DEF StoreInv, Exclusive
  <2>4. \A u : Acceptable(u)' => Acceptable(u)
    BY <1>3 DEF Acceptable
  <2> QED
    BY <1>1, <1>3, <1>15, <2>1, <2>2, <2>3, <2>4 DEF StoreInv, OneRowPerKey
<1>18. InternalIffResolved'
  BY <1>1, <1>2, <1>3 DEF StoreInv, InternalIffResolved, Shape
<1> QED
  BY <1>6, <1>7, <1>8, <1>9, <1>10, <1>11, <1>12, <1>13, <1>14, <1>16, <1>17, <1>18 DEF StoreInv
\* A further window of a bucket (flow_service.go:115-155).
LEMMA UpdateKeeps ==
  ASSUME StoreInv, NEW t \in txs, IngestCommit(t), t.row # 0 PROVE StoreInv'
<1> DEFINE k == t.row
           o == [window |-> t.n, flow |-> k, dstIP |-> t.dstIP]
<1>1. /\ flows' \in Seq(Rows) /\ k \in DOMAIN flows /\ DOMAIN flows' = DOMAIN flows
      /\ \A i \in DOMAIN flows \ {k} : flows'[i] = flows[i]
      /\ flows'[k] = Aggregate(flows[k], t)
  BY CommitRows DEF StoreInv
<1>2. /\ flows'[k].agent = t.src /\ flows'[k].windows = flows[k].windows \cup {t.n}
      /\ flows'[k].src = flows[k].src /\ flows'[k].dst = flows[k].dst
      /\ flows'[k].srcIP = flows[k].srcIP /\ flows'[k].dstIP = flows[k].dstIP
      /\ flows'[k].scope = flows[k].scope
  <2>1. flows[k] \in Rows
    BY <1>1 DEF StoreInv, Typed
  <2> QED
    BY <1>1, <2>1 DEF Aggregate, Rows
<1>3. /\ txs' = txs \ {t} /\ observed' = observed \cup {o} /\ Acceptable(t)
      /\ vms' = vms /\ registers' = registers /\ ingests' = ingests /\ reaps' = reaps
      /\ restarts' = restarts
  BY CommitObserves DEF StoreInv, counters
<1>4. t \in Transactions /\ flows[k].dstIP = t.dstIP
  BY DEF StoreInv, Typed, Selected
<1>5. o.window = t.n /\ o.flow = k /\ o.dstIP = t.dstIP /\ o \in Observations
  BY <1>4 DEF Observations, Transactions
<1> HIDE DEF k, o
<1>6. \A i \in DOMAIN flows :
        /\ flows'[i].src = flows[i].src /\ flows'[i].dst = flows[i].dst
        /\ flows'[i].srcIP = flows[i].srcIP /\ flows'[i].dstIP = flows[i].dstIP
        /\ flows'[i].scope = flows[i].scope /\ flows'[i].agent \in {flows[i].agent, t.src}
  BY <1>1, <1>2
<1>7. Typed'
  BY <1>1, <1>3, <1>5 DEF StoreInv, Typed
<1>8. References'
  <2>1. \A i \in DOMAIN flows' : {flows'[i].agent, flows'[i].src, flows'[i].dst} \subseteq vms \cup {None}
    BY <1>1, <1>3, <1>6 DEF StoreInv, References, Acceptable
  <2>2. \A ip \in DOMAIN unknownHosts' : unknownHosts'[ip] \in vms \cup {None}
    BY DEF StoreInv, References, IngestCommit, Upsert
  <2> QED
    BY <1>3, <2>1, <2>2 DEF References
<1>9. Shape'
  BY <1>1, <1>3, <1>6 DEF StoreInv, Shape
<1>10. Met'
  BY <1>1, <1>3, <1>6 DEF StoreInv, Met
<1>11. Windows'
  BY <1>3, <1>5 DEF StoreInv, Windows
<1>12. Selected'
  BY <1>1, <1>3, <1>5, <1>6 DEF StoreInv, Selected
<1>13. CountersMatchObservations'
  <2>1. \A p \in observed : p.window # t.n
    BY DEF StoreInv, Windows
  <2>2. \A i \in DOMAIN flows' :
          flows'[i].windows = {q.window : q \in {p \in observed' : p.flow = i}}
    <3>1. ASSUME NEW i \in DOMAIN flows, i # k PROVE
            flows'[i].windows = {q.window : q \in {p \in observed' : p.flow = i}}
      <4>1. {p \in observed' : p.flow = i} = {p \in observed : p.flow = i}
        BY <1>3, <1>5, <3>1
      <4> QED
        BY <1>1, <3>1, <4>1 DEF StoreInv, CountersMatchObservations
    <3>2. flows'[k].windows = {q.window : q \in {p \in observed' : p.flow = k}}
      <4>1. {p \in observed' : p.flow = k} = {p \in observed : p.flow = k} \cup {o}
        BY <1>3, <1>5
      <4>2. flows[k].windows = {q.window : q \in {p \in observed : p.flow = k}}
        BY <1>1 DEF StoreInv, CountersMatchObservations
      <4> QED
        BY <1>2, <1>5, <4>1, <4>2
    <3> QED
      BY <1>1, <3>1, <3>2
  <2>3. \A p, q \in observed' : p.window = q.window => p = q
    BY <1>3, <1>5, <2>1 DEF StoreInv, CountersMatchObservations
  <2> QED
    BY <2>2, <2>3 DEF CountersMatchObservations
<1>14. OnePeerPerBucket'
  BY <1>1, <1>3, <1>4, <1>5, <1>6 DEF StoreInv, OnePeerPerBucket, Selected
<1>15. Exclusive'
  BY <1>3 DEF StoreInv, Exclusive, Locked, lockKey
<1>16. Quiet' => Quiet
  BY <1>3 DEF Quiet
<1>17. Gone'
  BY <1>1, <1>3, <1>6, <1>16 DEF StoreInv, Gone
<1>18. OneRowPerKey'
  <2>1. \A i \in DOMAIN flows : Key(flows'[i]) = Key(flows[i])
    BY <1>6 DEF Key
  <2>2. \A u : Acceptable(u)' => Acceptable(u)
    BY <1>3 DEF Acceptable
  <2> QED
    BY <1>1, <1>3, <1>16, <2>1, <2>2 DEF StoreInv, OneRowPerKey, Key
<1>19. InternalIffResolved'
  BY <1>1, <1>3, <1>6 DEF StoreInv, InternalIffResolved
<1> QED
  BY <1>7, <1>8, <1>9, <1>10, <1>11, <1>12, <1>13, <1>14, <1>15, <1>17, <1>18, <1>19 DEF StoreInv

-----------------------------------------------------------------------------
(* Registration, expiry and restart.                                       *)

\* Rewriting rows leaves counters, peers and selections alone.
LEMMA RewriteKeeps ==
  ASSUME StoreInv, Rewritten, observed' = observed, ingests' = ingests, txs' \subseteq txs
  PROVE  /\ Windows' /\ Selected' /\ CountersMatchObservations' /\ OnePeerPerBucket' /\ Exclusive'
<1>1. Windows'
  BY DEF StoreInv, Windows
<1>2. Selected'
  BY DEF StoreInv, Selected, Rewritten
<1>3. CountersMatchObservations'
  BY DEF StoreInv, CountersMatchObservations, Rewritten
<1>4. OnePeerPerBucket'
  BY DEF StoreInv, OnePeerPerBucket, Selected, Rewritten
<1>5. Exclusive'
  BY DEF StoreInv, Exclusive, Locked, lockKey
<1> QED
  BY <1>1, <1>2, <1>3, <1>4, <1>5

\* Register and resolveUnknownHost (agent_service.go:142-173, 225-236).
LEMMA RegisterKeeps ==
  ASSUME StoreInv, NEW v \in VMs, Register(v) PROVE StoreInv'
<1>1. /\ Rewritten
      /\ \A i \in DOMAIN flows :
           /\ flows'[i].agent = flows[i].agent /\ flows'[i].src = flows[i].src
           /\ i \in Unresolved(v) => flows'[i].dst = v /\ flows'[i].scope = Internal
           /\ i \notin Unresolved(v) =>
                flows'[i].dst = flows[i].dst /\ flows'[i].scope = flows[i].scope
  BY RegisterRows DEF StoreInv
<1>2. /\ flows' \in Seq(Rows) /\ DOMAIN flows' = DOMAIN flows
      /\ \A i \in DOMAIN flows : flows'[i].srcIP = flows[i].srcIP /\ flows'[i].dstIP = flows[i].dstIP
  BY <1>1 DEF Rewritten
<1>3. /\ vms' = vms \cup {v} /\ txs' = txs /\ observed' = observed /\ ingests' = ingests
      /\ reaps' = reaps /\ restarts' = restarts
      /\ registers' = [registers EXCEPT ![v] = registers[v] + 1]
  BY DEF Register
<1>4. /\ registers \in [VMs -> Nat] /\ registers'[v] = registers[v] + 1 /\ v # None
      /\ registers' \in [VMs -> Nat] /\ \A w \in VMs : registers'[w] >= registers[w]
      /\ vms \subseteq VMs
  BY <1>3, ScopeAssumption DEF StoreInv, Typed
<1>5. \A i \in Unresolved(v) : i \in DOMAIN flows /\ flows[i].src # None /\ flows[i].dst = None /\ flows[i].dstIP = v
  BY DEF Unresolved
<1>6. Typed'
  BY <1>2, <1>3, <1>4 DEF StoreInv, Typed
<1>7. References'
  <2>1. \A i \in DOMAIN flows' : {flows'[i].agent, flows'[i].src, flows'[i].dst} \subseteq vms' \cup {None}
    BY <1>1, <1>2, <1>3 DEF StoreInv, References
  <2>2. \A ip \in DOMAIN unknownHosts' : unknownHosts'[ip] \in vms' \cup {None}
    BY <1>3 DEF StoreInv, References, Register, Upsert
  <2> QED
    BY <2>1, <2>2 DEF References
<1>8. Shape'
  BY <1>1, <1>2, <1>3, <1>5 DEF StoreInv, Shape
<1>9. Met'
  <2>1. \A w \in VMs : registers[w] >= 1 => registers'[w] >= 1
    BY <1>4
  <2>2. registers'[v] >= 1
    BY <1>4
  <2>3. \A i \in DOMAIN flows : flows[i].srcIP \in VMs
    <3>1. \A i \in DOMAIN flows : flows[i] \in Rows
      BY DEF StoreInv, Typed
    <3> QED
      BY <3>1 DEF Rows
  <2>4. \A t \in txs : t.src \in VMs /\ (t.dst # None => t.dst \in VMs)
    BY DEF StoreInv, Typed, Transactions
  <2>5. \A w \in vms' : registers'[w] >= 1
    BY <1>3, <1>4, <2>1, <2>2 DEF StoreInv, Met
  <2>6. \A i \in DOMAIN flows' : registers'[flows'[i].srcIP] >= 1
    BY <1>2, <2>1, <2>3 DEF StoreInv, Met
  <2>7. \A i \in DOMAIN flows' : flows'[i].scope = Internal =>
          flows'[i].dstIP \in VMs /\ registers'[flows'[i].dstIP] >= 1
    BY <1>1, <1>2, <1>5, <2>1, <2>2 DEF StoreInv, Met
  <2>8. \A t \in txs' : registers'[t.src] >= 1 /\ (t.dst # None => registers'[t.dst] >= 1)
    BY <1>3, <2>1, <2>4 DEF StoreInv, Met
  <2> QED
    BY <2>5, <2>6, <2>7, <2>8 DEF Met
<1>10. Quiet' => Quiet /\ registers[v] = 0
  BY <1>3, <1>4 DEF Quiet
<1>11. ASSUME Quiet' PROVE /\ v \notin vms
                           /\ \A i \in DOMAIN flows : flows[i].srcIP # v
                           /\ \A i \in DOMAIN flows : flows[i].scope = Internal => flows[i].dstIP # v
                           /\ \A t \in txs : t.src # v /\ t.dst # v
  BY <1>4, <1>10, <1>11 DEF StoreInv, Met
<1>12. Gone'
  BY <1>1, <1>2, <1>3, <1>4, <1>5, <1>10, <1>11 DEF StoreInv, Gone
<1>13. OneRowPerKey'
  <2> SUFFICES ASSUME Quiet'
               PROVE  /\ \A i, j \in DOMAIN flows' : Key(flows'[i]) = Key(flows'[j]) => i = j
                      /\ \A t \in txs' : t.step = "selected" /\ t.row = 0 /\ Acceptable(t)'
                           => \A i \in DOMAIN flows' : Key(flows'[i]) # Key(t)
    BY DEF OneRowPerKey, Key
  <2>1. \A i \in DOMAIN flows : flows[i].scope # Internal => flows[i].scope = unregisteredInternalScope
    BY <1>10 DEF StoreInv, Gone
  <2>2. ASSUME NEW i \in DOMAIN flows', NEW j \in DOMAIN flows', Key(flows'[i]) = Key(flows'[j])
        PROVE  Key(flows[i]) = Key(flows[j])
    <3>1. /\ flows[i].srcIP = flows[j].srcIP /\ flows[i].dstIP = flows[j].dstIP
          /\ flows'[i].scope = flows'[j].scope
      BY <1>2, <2>2 DEF Key
    <3>2. flows[i].scope = flows[j].scope
      BY <1>1, <1>2, <1>5, <1>11, <2>1, <3>1 DEF StoreInv, Shape
    <3> QED
      BY <3>1, <3>2 DEF Key
  <2>3. \A t \in txs : Acceptable(t)' => Acceptable(t)
    BY <1>3, <1>11 DEF Acceptable
  <2>4. ASSUME NEW t \in txs, NEW i \in DOMAIN flows', Key(flows'[i]) = Key(t)
        PROVE  Key(flows[i]) = Key(t)
    BY <1>1, <1>2, <1>3, <1>5, <1>11, <2>4 DEF Key, StoreInv, Shape
  <2> QED
    BY <1>2, <1>3, <1>10, <2>2, <2>3, <2>4 DEF StoreInv, OneRowPerKey
<1>14. InternalIffResolved'
  BY <1>1, <1>2, <1>3, <1>4 DEF StoreInv, InternalIffResolved
<1> QED
  BY <1>1, <1>3, <1>6, <1>7, <1>8, <1>9, <1>12, <1>13, <1>14, RewriteKeeps DEF StoreInv

\* DeleteExpired (agent_service.go:375-392).
LEMMA DeleteExpiredKeeps ==
  ASSUME StoreInv, NEW v \in VMs, DeleteExpired(v) PROVE StoreInv'
<1>1. /\ Rewritten
      /\ \A i \in DOMAIN flows : /\ flows'[i].agent = SetNull(flows[i].agent, v)
                                 /\ flows'[i].src = SetNull(flows[i].src, v)
                                 /\ flows'[i].dst = SetNull(flows[i].dst, v)
                                 /\ flows'[i].scope = flows[i].scope
  BY DeleteExpiredRows DEF StoreInv
<1>2. /\ flows' \in Seq(Rows) /\ DOMAIN flows' = DOMAIN flows
      /\ \A i \in DOMAIN flows : flows'[i].srcIP = flows[i].srcIP /\ flows'[i].dstIP = flows[i].dstIP
  BY <1>1 DEF Rewritten
<1>3. /\ vms' = vms \ {v} /\ txs' = txs /\ observed' = observed /\ ingests' = ingests
      /\ reaps' = reaps + 1 /\ restarts' = restarts /\ registers' = registers
  BY DEF DeleteExpired
<1>4. v # None
  BY ScopeAssumption
<1>5. Typed'
  BY <1>2, <1>3 DEF StoreInv, Typed
<1>6. References'
  <2>1. \A x \in vms \cup {None} : SetNull(x, v) \in (vms \ {v}) \cup {None}
    BY DEF SetNull
  <2>2. ASSUME NEW i \in DOMAIN flows'
        PROVE  {flows'[i].agent, flows'[i].src, flows'[i].dst} \subseteq vms' \cup {None}
    <3>1. i \in DOMAIN flows /\ {flows[i].agent, flows[i].src, flows[i].dst} \subseteq vms \cup {None}
      BY <1>2 DEF StoreInv, References
    <3> QED
      BY <1>1, <1>3, <2>1, <3>1
  <2>3. \A ip \in DOMAIN unknownHosts' : unknownHosts'[ip] \in vms' \cup {None}
    BY <1>3, <2>1 DEF StoreInv, References, DeleteExpired
  <2> QED
    BY <2>2, <2>3 DEF References
<1>7. Shape'
  BY <1>1, <1>2, <1>3 DEF StoreInv, Shape, SetNull
<1>8. Met'
  BY <1>1, <1>2, <1>3 DEF StoreInv, Met
<1>9. Quiet' => Quiet
  BY <1>3 DEF Quiet
<1>10. Gone'
  BY <1>1, <1>2, <1>3, <1>4, <1>9 DEF StoreInv, Gone, Shape, SetNull
<1>11. OneRowPerKey'
  <2>1. \A i \in DOMAIN flows : Key(flows'[i]) = Key(flows[i])
    BY <1>1, <1>2 DEF Key
  <2>2. \A t \in txs : Acceptable(t)' => Acceptable(t)
    BY <1>3 DEF Acceptable
  <2>3. \A i, j \in DOMAIN flows' : Quiet' /\ Key(flows'[i]) = Key(flows'[j]) => i = j
    BY <1>2, <1>9, <2>1 DEF StoreInv, OneRowPerKey
  <2>4. ASSUME Quiet', NEW t \in txs, t.step = "selected", t.row = 0, Acceptable(t)',
               NEW i \in DOMAIN flows
        PROVE  Key(flows'[i]) # Key(t)
    BY <1>9, <2>1, <2>2, <2>4 DEF StoreInv, OneRowPerKey
  <2> QED
    BY <1>2, <1>3, <2>3, <2>4 DEF OneRowPerKey, Key
<1>12. InternalIffResolved'
  BY <1>3 DEF StoreInv, Typed, InternalIffResolved
<1> QED
  BY <1>1, <1>3, <1>5, <1>6, <1>7, <1>8, <1>10, <1>11, <1>12, RewriteKeeps DEF StoreInv

\* A restart rolls back and migrates (db.go:16-51).
LEMMA RestartKeeps == ASSUME StoreInv, Restart PROVE StoreInv'
<1>1. /\ Rewritten
      /\ \A i \in DOMAIN flows :
           /\ flows'[i].agent = flows[i].agent /\ flows'[i].src = flows[i].src
           /\ flows'[i].dst = flows[i].dst
           /\ \/ flows'[i].scope = flows[i].scope
              \/ /\ flows'[i].scope = "external_private" /\ flows[i].dst = None
                 /\ flows[i].scope = "unknown_internal"
  BY RestartRows DEF StoreInv
<1>2. /\ flows' \in Seq(Rows) /\ DOMAIN flows' = DOMAIN flows
      /\ \A i \in DOMAIN flows : flows'[i].srcIP = flows[i].srcIP /\ flows'[i].dstIP = flows[i].dstIP
  BY <1>1 DEF Rewritten
<1>3. /\ vms' = vms /\ txs' = {} /\ observed' = observed /\ ingests' = ingests
      /\ reaps' = reaps /\ restarts' = restarts + 1 /\ registers' = registers
  BY DEF Restart
<1>4. Typed'
  BY <1>2, <1>3 DEF StoreInv, Typed
<1>5. References'
  <2>1. \A i \in DOMAIN flows' : {flows'[i].agent, flows'[i].src, flows'[i].dst} \subseteq vms' \cup {None}
    BY <1>1, <1>2, <1>3 DEF StoreInv, References
  <2>2. \A ip \in DOMAIN unknownHosts' : unknownHosts'[ip] \in vms' \cup {None}
    BY <1>3 DEF StoreInv, References, Restart
  <2> QED
    BY <2>1, <2>2 DEF References
<1>6. Shape'
  BY <1>1, <1>2, <1>3 DEF StoreInv, Shape
<1>7. Met'
  BY <1>1, <1>2, <1>3 DEF StoreInv, Met, Internal
<1>8. ~Quiet'
  BY <1>3 DEF StoreInv, Typed, Quiet
<1>9. Gone' /\ OneRowPerKey'
  BY <1>8 DEF Gone, OneRowPerKey
<1>10. InternalIffResolved'
  BY <1>1, <1>2, <1>3 DEF StoreInv, InternalIffResolved, Internal
<1> QED
  BY <1>1, <1>3, <1>4, <1>5, <1>6, <1>7, <1>9, <1>10, RewriteKeeps DEF StoreInv

-----------------------------------------------------------------------------
(* The invariant holds.                                                    *)

\* The empty tables satisfy it.
LEMMA InitStoreInv == Init => StoreInv
<1> SUFFICES ASSUME Init PROVE StoreInv
  OBVIOUS
<1> USE DEF Init
<1>1. DOMAIN flows = {} /\ flows \in Seq(Rows) /\ DOMAIN unknownHosts = {}
  OBVIOUS
<1>2. Typed
  BY <1>1 DEF Typed
<1>3. References /\ Shape /\ Met
  BY <1>1 DEF References, Shape, Met
<1>4. Windows /\ Selected /\ CountersMatchObservations /\ OnePeerPerBucket
  BY <1>1 DEF Windows, Selected, CountersMatchObservations, OnePeerPerBucket
<1>5. Exclusive /\ Gone /\ OneRowPerKey /\ InternalIffResolved
  BY <1>1 DEF Exclusive, Locked, Gone, OneRowPerKey, InternalIffResolved
<1> QED
  BY <1>2, <1>3, <1>4, <1>5 DEF StoreInv

\* Every step preserves it.
LEMMA NextStoreInv == StoreInv /\ [Next]_vars => StoreInv'
<1> SUFFICES ASSUME StoreInv, [Next]_vars PROVE StoreInv'
  OBVIOUS
<1>1. ASSUME NEW s \in VMs, NEW ip \in VMs \cup Outside, IngestResolve(s, ip) PROVE StoreInv'
  BY <1>1, IngestResolveKeeps DEF Peers
<1>2. ASSUME NEW t \in txs, Ingest(t) PROVE StoreInv'
  <2>1. CASE IngestLock(t)
    BY <2>1, IngestLockKeeps
  <2>2. CASE IngestSelect(t)
    BY <2>2, IngestSelectKeeps
  <2>3. CASE IngestCommit(t)
    BY <2>3, InsertKeeps, UpdateKeeps
  <2>4. CASE IngestFails(t)
    <3>1. TableUnchanged /\ ingests' = ingests /\ txs' \subseteq txs
      BY <2>4 DEF IngestFails, TableUnchanged, counters
    <3> QED
      BY <3>1, RollbackKeeps
  <2> QED
    BY <1>2, <2>1, <2>2, <2>3, <2>4 DEF Ingest
<1>3. ASSUME NEW v \in VMs, Register(v) PROVE StoreInv'
  BY <1>3, RegisterKeeps
<1>4. ASSUME NEW v \in VMs, DeleteExpired(v) PROVE StoreInv'
  BY <1>4, DeleteExpiredKeeps
<1>5. CASE Restart
  BY <1>5, RestartKeeps
<1>6. CASE UNCHANGED vars
  <2>1. TableUnchanged /\ ingests' = ingests /\ txs' \subseteq txs
    BY <1>6 DEF vars, TableUnchanged, counters
  <2> QED
    BY <2>1, RollbackKeeps
<1> QED
  BY <1>1, <1>2, <1>3, <1>4, <1>5, <1>6 DEF Next

\* The tables always satisfy the invariant.
LEMMA StoreInvariant == Spec => []StoreInv
  BY InitStoreInv, NextStoreInv, PTL DEF Spec

\* The store is type correct; references are NULL or registered VMs, as the foreign
\* keys demand (001_init.sql:45-49), however ingests and expiries interleave.
THEOREM StoreTypeCorrect == Spec => []TypeOK
<1>1. StoreInv => TypeOK
  <2> SUFFICES ASSUME StoreInv PROVE TypeOK
    OBVIOUS
  <2>1. \A i \in DOMAIN flows : flows[i] \in Rows
    BY DEF StoreInv, Typed
  <2>2. \A i \in DOMAIN flows : flows[i].scope \in Scopes
    BY <2>1 DEF Rows
  <2>3. DOMAIN flows = 1..Len(flows) /\ Len(flows) \in Nat
    BY DEF StoreInv, Typed
  <2>4. \A t \in txs : t.step \in {"resolved", "locked", "selected"} /\ t.row \in 0..Len(flows)
    BY <2>3 DEF StoreInv, Typed, Selected, Transactions
  <2> QED
    BY <2>2, <2>4 DEF StoreInv, Typed, References, TypeOK
<1> QED
  BY <1>1, StoreInvariant, PTL

\* The counters of a bucket are the sum of its observations and no window is counted
\* twice, for any number of ingests, registrations, expiries and restarts
\* (flow_service.go:99-175).
THEOREM NothingCountedTwice == Spec => []CountersMatchObservations
<1>1. StoreInv => CountersMatchObservations
  BY DEF StoreInv
<1> QED
  BY <1>1, StoreInvariant, PTL

\* A bucket only adds up windows of one peer address (flow_service.go:88-94).
THEOREM OnePeer == Spec => []OnePeerPerBucket
<1>1. StoreInv => OnePeerPerBucket
  BY DEF StoreInv
<1> QED
  BY <1>1, StoreInvariant, PTL

\* Scope and resolution change together as long as no VM expires
\* (classifier.go:57-75, agent_service.go:229-234).
THEOREM ScopeFollowsResolution == Spec => []InternalIffResolved
<1>1. StoreInv => InternalIffResolved
  BY DEF StoreInv
<1> QED
  BY <1>1, StoreInvariant, PTL

\* The advisory lock does what its comment says, for any number of concurrent ingests
\* and expiries, until a VM registers again or a migration rewrites scopes: no two
\* buckets agree on the columns Ingest selects by (flow_service.go:80-114).
THEOREM OneBucketPerKey == Spec => []NoDuplicateAtFirst
<1>1. StoreInv => NoDuplicateAtFirst
  <2>1. \A i, j \in DOMAIN flows :
          Columns(flows[i]) = Columns(flows[j]) => Key(flows[i]) = Key(flows[j])
    BY DEF Columns, Key
  <2> QED
    BY <2>1 DEF StoreInv, OneRowPerKey, Quiet, NoDuplicateAtFirst, NoDuplicateBucket
<1> QED
  BY <1>1, StoreInvariant, PTL
=============================================================================
