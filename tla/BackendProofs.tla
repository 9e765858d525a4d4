--------------------------- MODULE BackendProofs ---------------------------
(***************************************************************************)
(* Proofs about what the backend's requests share.                         *)
(*                                                                         *)
(* Hub and Dashboard, for any number of browsers, any capacity of their    *)
(* channels and any number of changes: first the hub alone, then the hub   *)
(* composed with pages that poll, load and miss events.                    *)
(*                                                                         *)
(* RowLocks, for any number of agents and transactions: telemetry          *)
(* transactions lock the tables in one order, so that they cannot wait for *)
(* each other in a circle.                                                 *)
(***************************************************************************)
EXTENDS Dashboard, RowLocks, TLAPS, SequenceTheorems

-----------------------------------------------------------------------------
(* Type correctness.                                                       *)

\* Init establishes the type invariant.
LEMMA InitTypeOK == Init => TypeOK
<1> SUFFICES ASSUME Init PROVE TypeOK
  OBVIOUS
<1>1. /\ channel \in [Clients -> Seq(1..MaxChanges)]
      /\ \A c \in Clients : Len(channel[c]) <= ClientCap
  BY EmptySeq, HubAssumption DEF Init, HubAssumption
<1>2. closed \in [Clients -> BOOLEAN] /\ timer \in [Clients -> BOOLEAN]
  BY Zenon DEF Init
<1> QED
  BY <1>1, <1>2, HubAssumption DEF Init, TypeOK, HubAssumption

\* Every step keeps it; a channel grows only while it has room (hub.go:84-91).
LEMMA NextTypeOK == TypeOK /\ [Next]_vars => TypeOK'
<1> SUFFICES ASSUME TypeOK, [Next]_vars PROVE TypeOK'
  OBVIOUS
<1> USE HubAssumption DEF HubAssumption
<1>1. ASSUME NEW call \in {"Broadcast", "BroadcastLatest"}, Commit(call) PROVE TypeOK'
  <2>1. committed' \in 1..MaxChanges /\ committed' = committed + 1
    BY <1>1 DEF Commit, TypeOK
  <2>2. callers' = callers \cup {[change |-> committed', call |-> call]}
    BY <1>1, <2>1 DEF Commit
  <2> QED
    BY <1>1, <2>1, <2>2 DEF Commit, TypeOK, handler, dashboard
<1>2. ASSUME NEW w \in callers, Broadcast(w) PROVE TypeOK'
  <2>1. w.change \in 1..MaxChanges
    BY DEF TypeOK
  <2> QED
    BY <1>2, <2>1 DEF Broadcast, StartBroadcast, TypeOK, handler, dashboard
<1>3. ASSUME NEW w \in callers, BroadcastLatest(w) PROVE TypeOK'
  <2>1. w.change \in 1..MaxChanges
    BY DEF TypeOK
  <2> QED
    BY <1>3, <2>1 DEF BroadcastLatest, TypeOK, handler, dashboard
<1>4. CASE FlushTake
  BY <1>4 DEF FlushTake, TypeOK, handler, dashboard
<1>5. ASSUME NEW p \in flushing, FlushBroadcast(p) PROVE TypeOK'
  BY <1>5 DEF FlushBroadcast, StartBroadcast, TypeOK, handler, dashboard
<1>6. ASSUME NEW b \in readers, NEW c \in Clients, Send(b, c) PROVE TypeOK'
  <2>1. /\ b.payload \in 1..MaxChanges /\ b.todo \in SUBSET Clients
        /\ [b EXCEPT !.todo = @ \ {c}] \in [payload : 1..MaxChanges, todo : SUBSET Clients]
    BY DEF TypeOK
  <2>2. readers' \subseteq [payload : 1..MaxChanges, todo : SUBSET Clients]
    BY <1>6, <2>1 DEF Send, TypeOK
  <2>3. /\ channel' \in [Clients -> Seq(1..MaxChanges)]
        /\ \A d \in Clients : Len(channel'[d]) <= ClientCap
    <3>1. channel[c] \in Seq(1..MaxChanges) /\ Len(channel[c]) \in Nat
      BY LenProperties DEF TypeOK
    <3>2. /\ Append(channel[c], b.payload) \in Seq(1..MaxChanges)
          /\ Len(Append(channel[c], b.payload)) = Len(channel[c]) + 1
      BY <2>1, <3>1, AppendProperties
    <3>3. CASE channel' = channel
      BY <3>3 DEF TypeOK
    <3>4. CASE /\ Len(channel[c]) < ClientCap
               /\ channel' = [channel EXCEPT ![c] = Append(@, b.payload)]
      BY <3>1, <3>2, <3>4 DEF TypeOK
    <3> QED
      BY <1>6, <3>3, <3>4 DEF Send
  <2> QED
    BY <1>6, <2>2, <2>3 DEF Send, TypeOK, handler, dashboard
<1>7. ASSUME NEW b \in readers, EndBroadcast(b) PROVE TypeOK'
  BY <1>7 DEF EndBroadcast, TypeOK, handler, dashboard
<1>8. ASSUME NEW c \in Clients, Subscribe(c) PROVE TypeOK'
  <2>1. /\ channel' \in [Clients -> Seq(1..MaxChanges)]
        /\ \A d \in Clients : Len(channel'[d]) <= ClientCap
    BY <1>8, EmptySeq DEF Subscribe, TypeOK
  <2>2. closed' \in [Clients -> BOOLEAN] /\ timer' \in [Clients -> BOOLEAN]
    BY <1>8, Zenon DEF Subscribe, TypeOK
  <2>3. conn' \in [Clients -> {"away", "open", "leaving", "closing"}] /\ clients' \subseteq Clients
    BY <1>8 DEF Subscribe, TypeOK
  <2>4. UNCHANGED <<committed, callers, throttled, flushing, readers, asked>>
    BY <1>8 DEF Subscribe, server
  <2> QED
    BY <2>1, <2>2, <2>3, <2>4 DEF TypeOK
<1>9. ASSUME NEW c \in Clients, Receive(c) PROVE TypeOK'
  <2>1. /\ channel[c] \in Seq(1..MaxChanges) /\ Len(channel[c]) \in Nat
        /\ channel[c] # <<>>
    BY <1>9, LenProperties DEF TypeOK, Receive
  <2>2. Tail(channel[c]) \in Seq(1..MaxChanges) /\ Len(Tail(channel[c])) = Len(channel[c]) - 1
    BY <2>1, HeadTailProperties
  <2>3. /\ channel' \in [Clients -> Seq(1..MaxChanges)]
        /\ \A d \in Clients : Len(channel'[d]) <= ClientCap
    BY <1>9, <2>1, <2>2 DEF Receive, TypeOK
  <2>4. timer' \in [Clients -> BOOLEAN]
    BY <1>9, Zenon DEF Receive, TypeOK
  <2> QED
    BY <1>9, <2>3, <2>4 DEF Receive, TypeOK, server, handler
<1>10. ASSUME NEW c \in Clients, Disconnect(c) PROVE TypeOK'
  BY <1>10 DEF Disconnect, TypeOK, server, dashboard
<1>11. ASSUME NEW c \in Clients, Unregister(c) PROVE TypeOK'
  BY <1>11 DEF Unregister, TypeOK, server, dashboard
<1>12. ASSUME NEW c \in Clients, Close(c) PROVE TypeOK'
  <2>1. closed' \in [Clients -> BOOLEAN]
    BY <1>12, Zenon DEF Close, TypeOK
  <2> QED
    BY <1>12, <2>1 DEF Close, TypeOK, server, dashboard
<1>13. ASSUME NEW c \in Clients, Refresh(c) PROVE TypeOK'
  <2>1. timer' \in [Clients -> BOOLEAN]
    BY <1>13, Zenon DEF Refresh, TypeOK
  <2> QED
    BY <1>13, <2>1 DEF Refresh, TypeOK, server, handler
<1>14. CASE UNCHANGED vars
  BY <1>14 DEF vars, server, handler, dashboard, TypeOK
<1> QED
  BY <1>1, <1>2, <1>3, <1>4, <1>5, <1>6, <1>7, <1>8, <1>9, <1>10, <1>11, <1>12, <1>13, <1>14
  DEF Next, Deliver, Stream

-----------------------------------------------------------------------------
(* Channels are closed only when nobody can send to them.                  *)

\* The map holds the channels of the handlers between Subscribe and Unregister, a
\* broadcast visits only what is in the map, and those channels are open.
Registered ==
  /\ clients = {c \in Clients : conn[c] \in {"open", "leaving"}}
  /\ \A b \in readers : b.todo \subseteq clients
  /\ \A c \in clients : ~closed[c]

\* The inductive invariant.
HubInv == TypeOK /\ Registered /\ StaleIsPending

\* Init establishes it.
LEMMA InitHubInv == Init => HubInv
  BY InitTypeOK DEF Init, HubInv, Registered, StaleIsPending

\* The map, the broadcasts and the channels stay in step: the lock keeps the map
\* fixed during a broadcast (hub.go:81-92, 105-114).
LEMMA NextRegistered == TypeOK /\ Registered /\ [Next]_vars => Registered'
<1> SUFFICES ASSUME TypeOK, Registered, [Next]_vars PROVE Registered'
  OBVIOUS
<1>1. ASSUME NEW w \in callers, Broadcast(w) PROVE Registered'
  BY <1>1 DEF Broadcast, StartBroadcast, Registered, handler
<1>2. ASSUME NEW p \in flushing, FlushBroadcast(p) PROVE Registered'
  BY <1>2 DEF FlushBroadcast, StartBroadcast, Registered, handler
<1>3. ASSUME NEW b \in readers, NEW c \in Clients, Send(b, c) PROVE Registered'
  <2>1. [b EXCEPT !.todo = @ \ {c}].todo = b.todo \ {c}
    BY DEF TypeOK
  <2>2. readers' = (readers \ {b}) \cup {[b EXCEPT !.todo = @ \ {c}]}
    BY <1>3 DEF Send
  <2>3. \A x \in readers' : x.todo \subseteq clients
    BY <2>1, <2>2 DEF Registered
  <2> QED
    BY <1>3, <2>3 DEF Send, Registered, handler
<1>4. ASSUME NEW b \in readers, EndBroadcast(b) PROVE Registered'
  BY <1>4 DEF EndBroadcast, Registered, handler
<1>5. ASSUME NEW c \in Clients, Subscribe(c) PROVE Registered'
  <2>1. /\ conn' = [conn EXCEPT ![c] = "open"] /\ clients' = clients \cup {c}
        /\ closed' = [closed EXCEPT ![c] = FALSE] /\ readers' = readers /\ readers = {}
    BY <1>5 DEF Subscribe, WriteLock, server
  <2>2. clients' = {d \in Clients : conn'[d] \in {"open", "leaving"}}
    BY <2>1 DEF Registered, TypeOK
  <2>3. \A d \in clients' : ~closed'[d]
    BY <2>1, Zenon DEF Registered, TypeOK
  <2> QED
    BY <2>1, <2>2, <2>3 DEF Registered
<1>6. ASSUME NEW c \in Clients, Disconnect(c) PROVE Registered'
  BY <1>6 DEF Disconnect, Registered, TypeOK, server
<1>7. ASSUME NEW c \in Clients, Unregister(c) PROVE Registered'
  BY <1>7 DEF Unregister, WriteLock, Registered, TypeOK, server
<1>8. ASSUME NEW c \in Clients, Close(c) PROVE Registered'
  <2>1. /\ conn' = [conn EXCEPT ![c] = "away"] /\ closed' = [closed EXCEPT ![c] = TRUE]
        /\ conn[c] = "closing" /\ clients' = clients /\ readers' = readers
    BY <1>8 DEF Close, server
  <2>2. clients' = {d \in Clients : conn'[d] \in {"open", "leaving"}} /\ c \notin clients
    BY <2>1 DEF Registered, TypeOK
  <2>3. \A d \in clients : closed'[d] = closed[d]
    BY <2>1, <2>2 DEF Registered, TypeOK
  <2> QED
    BY <2>1, <2>2, <2>3 DEF Registered
<1>9. CASE UNCHANGED <<readers, handler>>
  BY <1>9 DEF Registered, handler
<1>10. ASSUME NEW call, Commit(call) PROVE UNCHANGED <<readers, handler>>
  BY <1>10 DEF Commit
<1>11. ASSUME NEW w, BroadcastLatest(w) PROVE UNCHANGED <<readers, handler>>
  BY <1>11 DEF BroadcastLatest
<1>12. ASSUME FlushTake PROVE UNCHANGED <<readers, handler>>
  BY <1>12 DEF FlushTake
<1>13. ASSUME NEW c, Receive(c) \/ Refresh(c) PROVE UNCHANGED <<readers, handler>>
  BY <1>13 DEF Receive, Refresh, server
<1>14. ASSUME UNCHANGED vars PROVE UNCHANGED <<readers, handler>>
  BY <1>14 DEF vars, server
<1> QED
  BY <1>1, <1>2, <1>3, <1>4, <1>5, <1>6, <1>7, <1>8, <1>9, <1>10, <1>11, <1>12, <1>13, <1>14
  DEF Next, Deliver, Stream

-----------------------------------------------------------------------------
(* A dashboard that is behind will be told.                                *)

\* Whatever carries the last notification is replaced by something that does.
LEMMA NextPending ==
  ASSUME TypeOK, Registered, [Next]_vars, NEW c \in Clients,
         conn[c] = "open" /\ asked[c] < committed => Pending(c),
         conn'[c] = "open", asked'[c] < committed'
  PROVE  Pending(c)'
<1>1. ASSUME NEW call, Commit(call) PROVE Pending(c)'
  BY <1>1 DEF Commit, Pending
<1>2. ASSUME NEW w, StartBroadcast(w), handler' = handler PROVE Pending(c)'
  <2>1. c \in clients
    BY <1>2 DEF Registered, handler
  <2>2. [payload |-> w, todo |-> clients] \in readers'
    BY <1>2 DEF StartBroadcast
  <2> QED
    BY <2>1, <2>2 DEF Pending
<1>3. ASSUME NEW w \in callers, Broadcast(w) PROVE Pending(c)'
  BY <1>2, <1>3 DEF Broadcast
<1>4. ASSUME NEW w \in callers, BroadcastLatest(w) PROVE Pending(c)'
  BY <1>4 DEF BroadcastLatest, Pending
<1>5. ASSUME FlushTake PROVE Pending(c)'
  BY <1>5 DEF FlushTake, Pending
<1>6. ASSUME NEW p \in flushing, FlushBroadcast(p) PROVE Pending(c)'
  BY <1>2, <1>6 DEF FlushBroadcast
<1>7. ASSUME NEW b \in readers, NEW d \in Clients, Send(b, d) PROVE Pending(c)'
  <2>1. UNCHANGED <<committed, callers, throttled, flushing, clients, conn, closed, timer, asked>>
    BY <1>7 DEF Send, handler, dashboard
  <2>2. Pending(c)
    BY <2>1
  <2>3. /\ readers' = (readers \ {b}) \cup {[b EXCEPT !.todo = @ \ {d}]}
        /\ [b EXCEPT !.todo = @ \ {d}].todo = b.todo \ {d}
    BY <1>7 DEF Send, TypeOK
  <2>4. channel'[d] # <<>>
    <3>1. channel[d] \in Seq(1..MaxChanges) /\ b.payload \in 1..MaxChanges
      BY DEF TypeOK
    <3>2. Append(channel[d], b.payload) # <<>>
      BY <3>1, AppendProperties
    <3>3. ~(Len(channel[d]) < ClientCap) => channel[d] # <<>>
      BY EmptySeq, HubAssumption DEF HubAssumption
    <3> QED
      BY <1>7, <3>2, <3>3 DEF Send, TypeOK
  <2>5. CASE c = d
    BY <2>4, <2>5 DEF Pending
  <2>6. CASE c # d
    <3>1. channel'[c] = channel[c]
      BY <1>7, <2>6 DEF Send, TypeOK
    <3>2. (\E x \in readers : c \in x.todo) => \E x \in readers' : c \in x.todo
      BY <2>3, <2>6
    <3> QED
      BY <2>1, <2>2, <3>1, <3>2 DEF Pending
  <2> QED
    BY <2>5, <2>6
<1>8. ASSUME NEW b \in readers, EndBroadcast(b) PROVE Pending(c)'
  <2>1. /\ UNCHANGED <<committed, callers, throttled, flushing, conn, channel, timer, asked>>
        /\ b.todo = {} /\ readers' = readers \ {b}
    BY <1>8 DEF EndBroadcast, handler, dashboard
  <2> QED
    BY <2>1 DEF Pending
<1>9. ASSUME NEW d \in Clients, Subscribe(d) PROVE Pending(c)'
  <2>1. CASE c = d
    BY <1>9, <2>1, Zenon DEF Subscribe, Pending, TypeOK
  <2>2. CASE c # d
    <3>1. /\ UNCHANGED <<committed, callers, throttled, flushing, readers, asked>>
          /\ conn'[c] = conn[c] /\ channel'[c] = channel[c] /\ timer'[c] = timer[c]
      BY <1>9, <2>2 DEF Subscribe, TypeOK, server
    <3> QED
      BY <3>1 DEF Pending
  <2> QED
    BY <2>1, <2>2
<1>10. ASSUME NEW d \in Clients, Receive(d) PROVE Pending(c)'
  <2>1. CASE c = d
    BY <1>10, <2>1, Zenon DEF Receive, Pending, TypeOK
  <2>2. CASE c # d
    <3>1. /\ UNCHANGED <<committed, callers, throttled, flushing, readers, asked, conn>>
          /\ channel'[c] = channel[c] /\ timer'[c] = timer[c]
      BY <1>10, <2>2 DEF Receive, TypeOK, server, handler
    <3> QED
      BY <3>1 DEF Pending
  <2> QED
    BY <2>1, <2>2
<1>11. ASSUME NEW d \in Clients, Disconnect(d) \/ Unregister(d) \/ Close(d) PROVE Pending(c)'
  <2>1. UNCHANGED <<committed, callers, throttled, flushing, readers, channel, timer, asked>>
    BY <1>11 DEF Disconnect, Unregister, Close, server, dashboard
  <2>2. conn[c] = "open"
    BY <1>11 DEF Disconnect, Unregister, Close, TypeOK
  <2> QED
    BY <2>1, <2>2 DEF Pending
<1>12. ASSUME NEW d \in Clients, Refresh(d) PROVE Pending(c)'
  <2>1. UNCHANGED <<committed, callers, throttled, flushing, readers, channel, conn>>
    BY <1>12 DEF Refresh, server, handler
  <2>2. CASE c = d
    <3>1. asked'[c] = committed /\ committed \in Nat
      BY <1>12, <2>2, HubAssumption DEF Refresh, TypeOK, HubAssumption
    <3> QED
      BY <2>1, <3>1
  <2>3. CASE c # d
    <3>1. asked'[c] = asked[c] /\ timer'[c] = timer[c]
      BY <1>12, <2>3 DEF Refresh, TypeOK
    <3> QED
      BY <2>1, <3>1 DEF Pending
  <2> QED
    BY <2>2, <2>3
<1>13. ASSUME UNCHANGED vars PROVE Pending(c)'
  BY <1>13 DEF vars, server, handler, dashboard, Pending
<1> QED
  BY <1>1, <1>3, <1>4, <1>5, <1>6, <1>7, <1>8, <1>9, <1>10, <1>11, <1>12, <1>13
  DEF Next, Deliver, Stream

\* So no connected dashboard is forgotten.
LEMMA NextStaleIsPending == HubInv /\ [Next]_vars => StaleIsPending'
  BY NextPending DEF HubInv, StaleIsPending

\* The invariant holds in every reachable state.
LEMMA AlwaysHubInv == Spec => []HubInv
<1>1. HubInv /\ [Next]_vars => HubInv'
  BY NextTypeOK, NextRegistered, NextStaleIsPending DEF HubInv
<1> QED
  BY <1>1, InitHubInv, PTL DEF Spec

\* The hub is type correct; a client channel never exceeds its capacity.
THEOREM TypeCorrect == Spec => []TypeOK
  BY AlwaysHubInv, PTL DEF HubInv

\* However many browsers come and go during broadcasts, no payload is sent on a
\* closed channel, which would end the backend with a panic (hub.go:81-92, 109-114).
THEOREM NoPanic == Spec => []NoSendOnClosed
<1>1. HubInv => NoSendOnClosed
  BY DEF HubInv, Registered, NoSendOnClosed
<1> QED
  BY <1>1, AlwaysHubInv, PTL

\* Throttling, flushing and full channels never swallow the notification a
\* connected dashboard still needs (hub.go:44-92).
THEOREM NotificationNeverSwallowed == Spec => []StaleIsPending
  BY AlwaysHubInv, PTL DEF HubInv

-----------------------------------------------------------------------------
(* The pages composed with the hub.                                        *)

\* The inductive invariant of the composition.
DashboardInv ==
  /\ TypeOK /\ Registered
  /\ dropped \in [Clients -> BOOLEAN]
  /\ StaleIsPendingOrDropped

\* The initial states satisfy the invariant.
LEMMA InitDashboardInv == DashboardInit => DashboardInv
<1> SUFFICES ASSUME DashboardInit PROVE DashboardInv
  OBVIOUS
<1>1. TypeOK /\ Registered /\ StaleIsPending
  BY InitHubInv DEF DashboardInit, HubInv
<1>2. dropped \in [Clients -> BOOLEAN]
  BY Zenon DEF DashboardInit
<1> QED
  BY <1>1, <1>2 DEF DashboardInv, StaleIsPending, StaleIsPendingOrDropped

\* A step of the hub, and a reload that the stream has caused, are steps of Hub.
LEMMA HubKeepsInv ==
  ASSUME DashboardInv, [Next]_vars,
         dropped' \in [Clients -> BOOLEAN],
         \A c \in Clients : dropped'[c] = dropped[c] \/ asked'[c] >= committed'
  PROVE  DashboardInv'
<1>1. TypeOK' /\ Registered'
  BY NextTypeOK, NextRegistered DEF DashboardInv
<1>2. StaleIsPendingOrDropped'
  <2> SUFFICES ASSUME NEW c \in Clients, conn'[c] = "open", asked'[c] < committed'
               PROVE  Pending(c)' \/ dropped'[c]
    BY DEF StaleIsPendingOrDropped
  <2>1. asked'[c] \in Nat /\ committed' \in Nat
    BY <1>1, HubAssumption DEF TypeOK, HubAssumption
  <2>2. dropped'[c] = dropped[c]
    BY <2>1
  <2>3. CASE dropped[c]
    BY <2>2, <2>3, Zenon
  <2>4. CASE ~dropped[c]
    <3>1. conn[c] = "open" /\ asked[c] < committed => Pending(c)
      BY <2>4 DEF DashboardInv, StaleIsPendingOrDropped
    <3>2. TypeOK /\ Registered
      BY DEF DashboardInv
    <3> QED
      BY <3>1, <3>2, NextPending
  <2> QED
    BY <2>3, <2>4
<1> QED
  BY <1>1, <1>2 DEF DashboardInv

\* A poll brings the page up to date; nothing else of the hub changes.
LEMMA PollKeepsInv ==
  ASSUME DashboardInv, NEW c \in Clients, Poll(c)
  PROVE  DashboardInv'
<1>1. /\ asked' = [asked EXCEPT ![c] = committed]
      /\ dropped' = [dropped EXCEPT ![c] = FALSE]
      /\ UNCHANGED <<committed, callers, throttled, flushing, readers, clients, conn, closed,
                     channel, timer>>
  BY DEF Poll, BeginLoad, server, handler
<1>2. TypeOK' /\ Registered'
  BY <1>1, HubAssumption DEF DashboardInv, TypeOK, Registered, HubAssumption
<1>3. dropped' \in [Clients -> BOOLEAN]
  BY <1>1, Zenon DEF DashboardInv
<1>4. ASSUME NEW d \in Clients, conn'[d] = "open", asked'[d] < committed'
      PROVE  Pending(d)' \/ dropped'[d]
  <2>1. d # c
    BY <1>1, <1>4, HubAssumption DEF DashboardInv, TypeOK, HubAssumption
  <2>2. asked'[d] = asked[d]
    BY <1>1, <2>1 DEF DashboardInv, TypeOK
  <2>3. dropped'[d] = dropped[d]
    BY <1>1, <2>1, Zenon DEF DashboardInv
  <2>4. Pending(d) \/ dropped[d]
    BY <1>1, <1>4, <2>2 DEF DashboardInv, StaleIsPendingOrDropped
  <2> QED
    BY <1>1, <2>3, <2>4 DEF Pending
<1> QED
  BY <1>2, <1>3, <1>4 DEF DashboardInv, StaleIsPendingOrDropped

\* A dropped event is remembered until the page loads again.
LEMMA EventDroppedKeepsInv ==
  ASSUME DashboardInv, NEW c \in Clients, EventDropped(c)
  PROVE  DashboardInv'
<1>1. /\ channel[c] # <<>>
      /\ channel' = [channel EXCEPT ![c] = Tail(@)]
      /\ dropped' = [dropped EXCEPT ![c] = TRUE]
      /\ UNCHANGED <<committed, callers, throttled, flushing, readers, clients, conn, closed,
                     timer, asked>>
  BY DEF EventDropped, server, handler, dashboard
<1>2. channel[c] \in Seq(1..MaxChanges) /\ Len(channel[c]) \in Nat
  BY LenProperties DEF DashboardInv, TypeOK
<1>3. Tail(channel[c]) \in Seq(1..MaxChanges) /\ Len(Tail(channel[c])) = Len(channel[c]) - 1
  BY <1>1, <1>2, HeadTailProperties
<1>4. TypeOK'
  BY <1>1, <1>2, <1>3, HubAssumption DEF HubAssumption, DashboardInv, TypeOK
<1>5. Registered'
  BY <1>1 DEF DashboardInv, Registered
<1>6. dropped' \in [Clients -> BOOLEAN] /\ dropped'[c]
  BY <1>1, Zenon DEF DashboardInv
<1>7. ASSUME NEW d \in Clients, conn'[d] = "open", asked'[d] < committed'
      PROVE  Pending(d)' \/ dropped'[d]
  <2>1. CASE d = c
    BY <1>6, <2>1
  <2>2. CASE d # c
    <3>1. channel'[d] = channel[d]
      BY <1>1, <2>2 DEF DashboardInv, TypeOK
    <3>2. dropped'[d] = dropped[d]
      BY <1>1, <2>2, Zenon DEF DashboardInv
    <3>3. Pending(d) \/ dropped[d]
      BY <1>1, <1>7 DEF DashboardInv, StaleIsPendingOrDropped
    <3> QED
      BY <1>1, <3>1, <3>2, <3>3 DEF Pending
  <2> QED
    BY <2>1, <2>2
<1> QED
  BY <1>4, <1>5, <1>6, <1>7 DEF DashboardInv, StaleIsPendingOrDropped

\* Every step of the composition preserves the invariant.
LEMMA NextDashboardInv == DashboardInv /\ [DashboardNext]_dashboardVars => DashboardInv'
<1> SUFFICES ASSUME DashboardInv, [DashboardNext]_dashboardVars PROVE DashboardInv'
  OBVIOUS
<1>1. ASSUME [Next]_vars, dropped' = dropped PROVE DashboardInv'
  BY <1>1, HubKeepsInv DEF DashboardInv
<1>2. CASE HubStep
  BY <1>1, <1>2 DEF HubStep, Next, page
<1>3. ASSUME NEW c \in Clients, RefreshLoad(c) PROVE DashboardInv'
  <2>1. /\ Refresh(c) /\ asked' = [asked EXCEPT ![c] = committed] /\ committed' = committed
        /\ dropped' = [dropped EXCEPT ![c] = FALSE]
    BY <1>3 DEF RefreshLoad, Refresh, BeginLoad, server
  <2>2. dropped' \in [Clients -> BOOLEAN]
        /\ \A d \in Clients \ {c} : dropped'[d] = dropped[d]
    BY <2>1, Zenon DEF DashboardInv
  <2>3. asked'[c] >= committed'
    BY <2>1, HubAssumption DEF DashboardInv, TypeOK, HubAssumption
  <2>4. [Next]_vars
    BY <2>1 DEF Next
  <2> QED
    BY <2>2, <2>3, <2>4, HubKeepsInv
<1>4. ASSUME NEW c \in Clients, LoadShows(c) \/ LoadFails(c) PROVE DashboardInv'
  BY <1>1, <1>4 DEF LoadShows, LoadFails
<1>5. CASE UNCHANGED dashboardVars
  BY <1>1, <1>5 DEF dashboardVars, page
<1> QED
  BY <1>2, <1>3, <1>4, <1>5, PollKeepsInv, EventDroppedKeepsInv DEF DashboardNext

\* The invariant holds in every reachable state.
LEMMA AlwaysDashboardInv == DashboardSpec => []DashboardInv
<1> QED
  BY InitDashboardInv, NextDashboardInv, PTL DEF DashboardSpec

\* Whatever pages do, no payload is sent on a closed channel (hub.go:81-92, 109-114).
THEOREM DashboardNoPanic == DashboardSpec => []NoSendOnClosed
<1>1. DashboardInv => NoSendOnClosed
  BY DEF DashboardInv, Registered, NoSendOnClosed
<1> QED
  BY <1>1, AlwaysDashboardInv, PTL

\* For any number of pages, any channel capacity and any number of changes, only an
\* event dropped outside the backend can leave a connected page behind with nothing
\* under way to make it reload (hub.go:44-92, App.tsx:322-342).
THEOREM BehindOnlyIfDropped == DashboardSpec => []StaleIsPendingOrDropped
<1>1. DashboardInv => StaleIsPendingOrDropped
  BY DEF DashboardInv
<1> QED
  BY <1>1, AlwaysDashboardInv, PTL

\* The composition is type correct; a client channel never exceeds its capacity.
THEOREM DashboardTypeCorrect == DashboardSpec => []TypeOK
<1>1. DashboardInv => TypeOK
  BY DEF DashboardInv
<1> QED
  BY <1>1, AlwaysDashboardInv, PTL

-----------------------------------------------------------------------------
(* Row locks.                                                              *)

\* The order in which Ingest, RecordProbe and Heartbeat write the tables.
Rank(table) ==
  IF table = "vms" THEN 5
  ELSE IF table = "agents" THEN 4
  ELSE IF table \in {"network_flows", "connection_probes"} THEN 3
  ELSE IF table = "advisory" THEN 2
  ELSE 1

RankOf(lock) == Rank(lock.row.table)

Shared(lock) == lock.mode = "key_share"

\* Rows are only shared where none is deleted.
SharesAbove(p) ==
  \A i \in 1..Len(p) : /\ Shared(p[i]) => RankOf(p[i]) >= 4
                       /\ p[i].mode = "update" => RankOf(p[i]) < 4

\* Every row is written after those of lower rank.
Rises(p) ==
  \A i, j \in 1..Len(p) :
    i < j /\ ~Shared(p[i]) /\ ~Shared(p[j]) => RankOf(p[i]) < RankOf(p[j])

\* A plan that follows the order.
Ordered(p) == Len(p) \in Nat /\ SharesAbove(p) /\ Rises(p)

\* Ingest follows the order (flow_service.go:63-182).
LEMMA IngestOrdered == ASSUME NEW a, NEW b, NEW s \in Scopes PROVE Ordered(Ingest(a, b, s))
<1> SUFFICES ASSUME NEW p, p = Ingest(a, b, s) PROVE Ordered(p)
  OBVIOUS
<1>1. CASE s = "internal"
  <2>1. p = <<Update("advisory", <<a, b, s>>), Update("network_flows", <<a, b, s>>),
              KeyShare("agents", a), KeyShare("vms", a), KeyShare("vms", b),
              NoKeyUpdate("agents", a), NoKeyUpdate("vms", a)>>
    BY <1>1 DEF Ingest
  <2>2. /\ Len(p) = 7
        /\ RankOf(p[1]) = 2 /\ RankOf(p[2]) = 3 /\ RankOf(p[3]) = 4 /\ RankOf(p[4]) = 5
        /\ RankOf(p[5]) = 5 /\ RankOf(p[6]) = 4 /\ RankOf(p[7]) = 5
        /\ p[1].mode = "update" /\ p[2].mode = "update" /\ p[3].mode = "key_share"
        /\ p[4].mode = "key_share" /\ p[5].mode = "key_share" /\ p[6].mode = "no_key_update"
        /\ p[7].mode = "no_key_update"
    BY <2>1 DEF RankOf, Rank, Lock, KeyShare, NoKeyUpdate, Update
  <2>3. \A i \in 1..Len(p) : i \in {1, 2, 3, 4, 5, 6, 7}
    BY <2>2
  <2>4. SharesAbove(p)
    BY <2>2, <2>3 DEF SharesAbove, Shared
  <2>5. Rises(p)
    BY <2>2, <2>3 DEF Rises, Shared
  <2>6. Len(p) \in Nat
    BY <2>2
  <2> QED
    BY <2>4, <2>5, <2>6 DEF Ordered
<1>2. CASE s = "unknown"
  <2>1. p = <<NoKeyUpdate("hosts", b), Update("advisory", <<a, b, s>>),
              Update("network_flows", <<a, b, s>>), KeyShare("agents", a),
              KeyShare("vms", a), NoKeyUpdate("agents", a), NoKeyUpdate("vms", a)>>
    BY <1>2 DEF Ingest
  <2>2. /\ Len(p) = 7
        /\ RankOf(p[1]) = 1 /\ RankOf(p[2]) = 2 /\ RankOf(p[3]) = 3 /\ RankOf(p[4]) = 4
        /\ RankOf(p[5]) = 5 /\ RankOf(p[6]) = 4 /\ RankOf(p[7]) = 5
        /\ p[1].mode = "no_key_update" /\ p[2].mode = "update" /\ p[3].mode = "update"
        /\ p[4].mode = "key_share" /\ p[5].mode = "key_share" /\ p[6].mode = "no_key_update"
        /\ p[7].mode = "no_key_update"
    BY <2>1 DEF RankOf, Rank, Lock, KeyShare, NoKeyUpdate, Update
  <2>3. \A i \in 1..Len(p) : i \in {1, 2, 3, 4, 5, 6, 7}
    BY <2>2
  <2>4. SharesAbove(p)
    BY <2>2, <2>3 DEF SharesAbove, Shared
  <2>5. Rises(p)
    BY <2>2, <2>3 DEF Rises, Shared
  <2>6. Len(p) \in Nat
    BY <2>2
  <2> QED
    BY <2>4, <2>5, <2>6 DEF Ordered
<1> QED
  BY <1>1, <1>2 DEF Scopes

\* RecordProbe follows the order (connection_service.go:157-181).
LEMMA RecordProbeOrdered ==
  ASSUME NEW a, NEW b, NEW c \in {"insert", "update"} PROVE Ordered(RecordProbe(a, b, c))
<1> SUFFICES ASSUME NEW p, p = RecordProbe(a, b, c) PROVE Ordered(p)
  OBVIOUS
<1>1. CASE c = "insert"
  <2>1. p = <<NoKeyUpdate("connection_probes", <<a, b>>), KeyShare("agents", a),
              KeyShare("vms", a), KeyShare("vms", b), NoKeyUpdate("agents", a),
              NoKeyUpdate("vms", a)>>
    BY <1>1 DEF RecordProbe
  <2>2. /\ Len(p) = 6
        /\ RankOf(p[1]) = 3 /\ RankOf(p[2]) = 4 /\ RankOf(p[3]) = 5 /\ RankOf(p[4]) = 5
        /\ RankOf(p[5]) = 4 /\ RankOf(p[6]) = 5
        /\ p[1].mode = "no_key_update" /\ p[2].mode = "key_share" /\ p[3].mode = "key_share"
        /\ p[4].mode = "key_share" /\ p[5].mode = "no_key_update"
        /\ p[6].mode = "no_key_update"
    BY <2>1 DEF RankOf, Rank, Lock, KeyShare, NoKeyUpdate, Update
  <2>3. \A i \in 1..Len(p) : i \in {1, 2, 3, 4, 5, 6}
    BY <2>2
  <2>4. SharesAbove(p)
    BY <2>2, <2>3 DEF SharesAbove, Shared
  <2>5. Rises(p)
    BY <2>2, <2>3 DEF Rises, Shared
  <2>6. Len(p) \in Nat
    BY <2>2
  <2> QED
    BY <2>4, <2>5, <2>6 DEF Ordered
<1>2. CASE c = "update"
  <2>1. p = <<NoKeyUpdate("connection_probes", <<a, b>>), NoKeyUpdate("agents", a),
              NoKeyUpdate("vms", a)>>
    BY <1>2 DEF RecordProbe
  <2>2. /\ Len(p) = 3
        /\ RankOf(p[1]) = 3 /\ RankOf(p[2]) = 4 /\ RankOf(p[3]) = 5
        /\ p[1].mode = "no_key_update" /\ p[2].mode = "no_key_update"
        /\ p[3].mode = "no_key_update"
    BY <2>1 DEF RankOf, Rank, Lock, KeyShare, NoKeyUpdate, Update
  <2>3. \A i \in 1..Len(p) : i \in {1, 2, 3}
    BY <2>2
  <2>4. SharesAbove(p)
    BY <2>2, <2>3 DEF SharesAbove, Shared
  <2>5. Rises(p)
    BY <2>2, <2>3 DEF Rises, Shared
  <2>6. Len(p) \in Nat
    BY <2>2
  <2> QED
    BY <2>4, <2>5, <2>6 DEF Ordered
<1> QED
  BY <1>1, <1>2

\* A statement of Heartbeat writes one row (agent_service.go:238-257).
LEMMA HeartbeatOrdered ==
  ASSUME NEW a, NEW table \in {"agents", "vms"} PROVE Ordered(<<NoKeyUpdate(table, a)>>)
  BY DEF Ordered, SharesAbove, Rises, Shared, RankOf, Rank, Lock, NoKeyUpdate

\* So every plan of a telemetry operation does.
LEMMA PlansOrdered ==
  ASSUME NEW o, o.op \in {"Ingest", "RecordProbe", "Heartbeat"}, NEW p \in Plans(o)
  PROVE  Ordered(p.locks) /\ p.skips = 0
<1>1. CASE o.op = "Ingest"
  <2>1. PICK b \in Agents \ {o.agent}, s \in Scopes :
          p = [locks |-> Ingest(o.agent, b, s), skips |-> 0]
    BY <1>1 DEF Plans
  <2> QED
    BY <2>1, IngestOrdered
<1>2. CASE o.op = "RecordProbe"
  <2>1. PICK b \in Agents \ {o.agent}, c \in {"insert", "update"} :
          p = [locks |-> RecordProbe(o.agent, b, c), skips |-> 0]
    BY <1>2 DEF Plans
  <2> QED
    BY <2>1, RecordProbeOrdered
<1>3. CASE o.op = "Heartbeat"
  <2>1. \/ p = [locks |-> <<NoKeyUpdate("agents", o.agent)>>, skips |-> 0]
        \/ p = [locks |-> <<NoKeyUpdate("vms", o.agent)>>, skips |-> 0]
    BY <1>3 DEF Plans
  <2>2. Ordered(<<NoKeyUpdate("agents", o.agent)>>) /\ Ordered(<<NoKeyUpdate("vms", o.agent)>>)
    BY HeartbeatOrdered
  <2> QED
    BY <2>1, <2>2
<1> QED
  BY <1>1, <1>2, <1>3

-----------------------------------------------------------------------------
\* The inductive invariant: telemetry runs plans that follow the order.
LockInv ==
  /\ plan = [t \in Txns |-> plan[t]] /\ pc = [t \in Txns |-> pc[t]]
  /\ \A t \in Telemetry : Ordered(plan[t]) /\ pc[t] \in 0..Len(plan[t])

\* A transaction that does not run has an ordered plan.
LEMMA EmptyOrdered == Ordered(<<>>) /\ Len(<<>>) = 0
  BY DEF Ordered, SharesAbove, Rises

\* LocksInit establishes the invariant.
LEMMA InitLockInv == LocksInit => LockInv
  BY EmptyOrdered DEF LocksInit, LockInv, Telemetry

\* Every step preserves it: an operation begins with one of its plans, and takes a
\* lock only if its plan has one left.
LEMMA NextLockInv == LockInv /\ [LocksNext]_<<load, lockVars>> => LockInv'
<1> SUFFICES ASSUME LockInv, [LocksNext]_<<load, lockVars>> PROVE LockInv'
  OBVIOUS
<1>1. Telemetry' = Telemetry
  BY DEF LocksNext, Telemetry
<1>2. ASSUME NEW t \in Txns, Begin(t) PROVE LockInv'
  <2>1. PICK p \in Plans(load[t]) : /\ plan' = [plan EXCEPT ![t] = p.locks]
                                   /\ pc' = [pc EXCEPT ![t] = p.skips]
    BY <1>2 DEF Begin
  <2>2. t \in Telemetry => Ordered(p.locks) /\ p.skips = 0
    BY PlansOrdered DEF Telemetry
  <2>3. t \in Telemetry => p.skips \in 0..Len(p.locks)
    BY <2>2 DEF Ordered
  <2> QED
    BY <1>1, <2>1, <2>2, <2>3 DEF LockInv, Telemetry
<1>3. ASSUME NEW t \in Txns, Acquire(t) PROVE LockInv'
  <2>1. /\ pc[t] < Len(plan[t]) /\ plan' = plan
        /\ pc' = [pc EXCEPT ![t] = pc[t] + 1]
    BY <1>3 DEF Acquire, Wanting
  <2>2. ASSUME t \in Telemetry PROVE pc[t] + 1 \in 0..Len(plan[t])
    <3>1. Ordered(plan[t]) /\ pc[t] \in 0..Len(plan[t])
      BY <2>2 DEF LockInv
    <3>2. Len(plan[t]) \in Nat
      BY <3>1 DEF Ordered
    <3> QED
      BY <2>1, <3>1, <3>2
  <2> QED
    BY <1>1, <2>1, <2>2 DEF LockInv, Telemetry
<1>4. ASSUME NEW t \in Txns, End(t) PROVE LockInv'
  <2>1. plan' = [plan EXCEPT ![t] = <<>>] /\ pc' = [pc EXCEPT ![t] = 0]
    BY <1>4 DEF End
  <2>2. 0 \in 0..Len(<<>>)
    BY EmptyOrdered
  <2>3. ASSUME NEW u \in Telemetry PROVE Ordered(plan'[u]) /\ pc'[u] \in 0..Len(plan'[u])
    <3>1. CASE u = t
      <4>1. plan'[u] = <<>> /\ pc'[u] = 0
        BY <2>1, <3>1 DEF LockInv, Telemetry
      <4> QED
        BY <2>2, <4>1, EmptyOrdered
    <3>2. CASE u # t
      BY <2>1, <3>2 DEF LockInv, Telemetry
    <3> QED
      BY <3>1, <3>2
  <2>4. plan' = [u \in Txns |-> plan'[u]] /\ pc' = [u \in Txns |-> pc'[u]]
    BY <2>1 DEF LockInv
  <2> QED
    BY <1>1, <2>3, <2>4 DEF LockInv
<1>5. CASE UNCHANGED <<load, lockVars>>
  BY <1>1, <1>5 DEF lockVars, LockInv
<1> QED
  BY <1>2, <1>3, <1>4, <1>5 DEF LocksNext, CommitTxn, Rollback

\* A rank is one of five numbers.
LEMMA RankIsNat == \A lock : RankOf(lock) \in 1..5
  BY DEF RankOf, Rank

\* Whoever waits in a chain of telemetry transactions wants a table of lower rank
\* than the one it waits for.
LEMMA WaitsGoUp ==
  ASSUME LockInv, NEW t \in Telemetry, NEW u \in Telemetry, NEW x \in Telemetry,
         WaitsFor(t, u), WaitsFor(u, x)
  PROVE  RankOf(Wanted(t)) < RankOf(Wanted(u))
<1>1. PICK i \in 1..pc[u] : Conflict(plan[u][i], Wanted(t))
  BY DEF WaitsFor, Held
<1>2. PICK k \in 1..pc[x] : Conflict(plan[x][k], Wanted(u))
  BY DEF WaitsFor, Held
<1>3. /\ Ordered(plan[t]) /\ Ordered(plan[u]) /\ Ordered(plan[x])
      /\ pc[t] \in 0..Len(plan[t]) /\ pc[u] \in 0..Len(plan[u]) /\ pc[x] \in 0..Len(plan[x])
  BY DEF LockInv
<1>4. /\ pc[t] + 1 \in 1..Len(plan[t]) /\ pc[u] + 1 \in 1..Len(plan[u])
      /\ i \in 1..Len(plan[u]) /\ k \in 1..Len(plan[x]) /\ i < pc[u] + 1
  <2>1. /\ Len(plan[t]) \in Nat /\ Len(plan[u]) \in Nat /\ Len(plan[x]) \in Nat
        /\ pc[t] < Len(plan[t]) /\ pc[u] < Len(plan[u])
    BY <1>3 DEF WaitsFor, Wanting, Ordered
  <2>2. pc[t] \in Nat /\ pc[u] \in Nat /\ pc[x] \in Nat /\ pc[x] <= Len(plan[x])
    BY <1>3, <2>1
  <2>3. pc[t] + 1 \in 1..Len(plan[t]) /\ pc[u] + 1 \in 1..Len(plan[u])
    BY <2>1, <2>2
  <2>4. i \in 1..Len(plan[u]) /\ i < pc[u] + 1
    BY <1>1, <2>1, <2>2
  <2>5. k \in 1..Len(plan[x])
    BY <1>2, <2>1, <2>2
  <2> QED
    BY <2>3, <2>4, <2>5, Zenon
<1>5. RankOf(plan[u][i]) = RankOf(Wanted(t))
  BY <1>1 DEF Conflict, RankOf
<1>6. ~Shared(plan[u][i])
  <2>1. /\ Shared(plan[u][i]) => RankOf(plan[u][i]) >= 4
        /\ Wanted(t).mode = "update" => RankOf(Wanted(t)) < 4
    BY <1>3, <1>4 DEF Ordered, SharesAbove, Wanted
  <2> QED
    BY <1>1, <1>5, <2>1, RankIsNat DEF Conflict, Shared
<1>7. ~Shared(Wanted(u))
  <2>1. /\ Shared(Wanted(u)) => RankOf(Wanted(u)) >= 4
        /\ plan[x][k].mode = "update" => RankOf(plan[x][k]) < 4
    BY <1>3, <1>4 DEF Ordered, SharesAbove, Wanted
  <2>2. RankOf(plan[x][k]) = RankOf(Wanted(u))
    BY <1>2 DEF Conflict, RankOf
  <2> QED
    BY <1>2, <2>1, <2>2, RankIsNat DEF Conflict, Shared
<1>8. RankOf(plan[u][i]) < RankOf(Wanted(u))
  BY <1>3, <1>4, <1>6, <1>7 DEF Ordered, Rises, Wanted
<1> QED
  BY <1>5, <1>8

\* However many agents, handlers, retries and probes there are, Ingest, RecordProbe
\* and Heartbeat never wait for each other in a circle; every deadlock PostgreSQL has
\* to break involves a registration or the sweep.
THEOREM NoTelemetryDeadlock == LocksSpec => []TelemetryNeverDeadlocks
<1>1. LockInv => TelemetryNeverDeadlocks
  <2> SUFFICES ASSUME LockInv, NEW S \in SUBSET Telemetry, Deadlocked(S) PROVE FALSE
    BY DEF TelemetryNeverDeadlocks
  <2> DEFINE r(t) == RankOf(Wanted(t))
  <2>1. \A t \in S : \E u \in S : r(t) < r(u)
    BY WaitsGoUp DEF Deadlocked
  <2>2. \A t \in S : r(t) \in 1..5
    BY RankIsNat
  <2> HIDE DEF r
  <2>3. \A t \in S : r(t) < 5
    BY <2>1, <2>2
  <2>4. \A t \in S : r(t) < 4
    BY <2>1, <2>2, <2>3
  <2>5. \A t \in S : r(t) < 3
    BY <2>1, <2>2, <2>4
  <2>6. \A t \in S : r(t) < 2
    BY <2>1, <2>2, <2>5
  <2>7. S = {}
    BY <2>1, <2>2, <2>6
  <2> QED
    BY <2>7 DEF Deadlocked
<1> QED
  BY <1>1, InitLockInv, NextLockInv, PTL DEF LocksSpec
=============================================================================
