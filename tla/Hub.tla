-------------------------------- MODULE Hub --------------------------------
(***************************************************************************)
(* Realtime updates: the hub that fans events out to browsers over         *)
(* server-sent events (src/backend/internal/realtime/hub.go), and the      *)
(* dashboard that reloads its data when an event arrives                   *)
(* (src/frontend/src/App.tsx).                                             *)
(*                                                                         *)
(* The backend commits change number 1, 2, ... and then notifies: through  *)
(* BroadcastLatest for a flow, through Broadcast for anything else.  What  *)
(* an event says is not looked at; a dashboard that gets one reloads.      *)
(* What becomes of the reload is the subject of module Dashboard.          *)
(***************************************************************************)
EXTENDS Naturals, Sequences, FiniteSets

CONSTANTS
  Clients,     \* dashboards
  ClientCap,   \* capacity of a client channel (32 in the code)
  MaxChanges   \* bound: changes the backend commits

ASSUME HubAssumption == ClientCap \in Nat \ {0} /\ MaxChanges \in Nat

VARIABLES
  committed,   \* number of changes committed to the database
  callers,     \* changes whose goroutine has not called the hub yet, with the call
  throttled,   \* payload of the throttled event; {} if there is none
  flushing,    \* payloads flushLatest has taken out and not broadcast yet
  readers,     \* running broadcastPayload loops: payload and clients still to visit
  clients,     \* the map of registered channels
  conn,        \* client -> state of its ServeHTTP handler
  channel,     \* client -> content of its channel
  closed,      \* client -> its channel has been closed
  timer,       \* client -> refreshTimer of the dashboard is set
  asked        \* client -> newest change that was committed when it last reloaded

server    == <<committed, callers, throttled, flushing, readers>>
handler   == <<clients, conn, closed>>
dashboard == <<timer, asked>>
vars      == <<server, handler, channel, dashboard>>

Init ==
  /\ committed = 0
  /\ callers = {}
  /\ throttled = {}
  /\ flushing = {}
  /\ readers = {}
  /\ clients = {}
  /\ conn = [c \in Clients |-> "away"]
  /\ channel = [c \in Clients |-> <<>>]
  /\ closed = [c \in Clients |-> FALSE]
  /\ timer = [c \in Clients |-> FALSE]
  /\ asked = [c \in Clients |-> 0]

-----------------------------------------------------------------------------
(* The backend: a service commits a transaction, then calls the hub.       *)

Commit(call) ==
  /\ committed < MaxChanges
  /\ committed' = committed + 1
  /\ callers' = callers \cup {[change |-> committed + 1, call |-> call]}
  /\ UNCHANGED <<throttled, flushing, readers, handler, channel, dashboard>>

\* broadcastPayload takes the read lock; clients does not change until it is done.
StartBroadcast(p) == readers' = readers \cup {[payload |-> p, todo |-> clients]}

Broadcast(w) ==
  /\ w.call = "Broadcast"
  /\ callers' = callers \ {w}
  /\ StartBroadcast(w.change)
  /\ UNCHANGED <<committed, throttled, flushing, handler, channel, dashboard>>

\* BroadcastLatest replaces the waiting payload, or stores one and arms a timer.
BroadcastLatest(w) ==
  /\ w.call = "BroadcastLatest"
  /\ callers' = callers \ {w}
  /\ throttled' = {w.change}
  /\ UNCHANGED <<committed, flushing, readers, handler, channel, dashboard>>

\* Faulty flush: the entry is deleted and its payload forgotten.
FlushTake_Clears ==
  /\ throttled # {}
  /\ throttled' = {}
  /\ flushing' = flushing
  /\ UNCHANGED <<committed, callers, readers, handler, channel, dashboard>>

\* The timer fires: flushLatest takes the payload out and releases throttleMu ...
FlushTake ==
  /\ throttled # {}
  /\ throttled' = {}
  /\ flushing' = flushing \cup throttled
  /\ UNCHANGED <<committed, callers, readers, handler, channel, dashboard>>

\* ... and broadcasts it afterwards.
FlushBroadcast(p) ==
  /\ flushing' = flushing \ {p}
  /\ StartBroadcast(p)
  /\ UNCHANGED <<committed, callers, throttled, handler, channel, dashboard>>

\* One turn of the loop: a send that does not wait.
Send(b, c) ==
  /\ c \in b.todo
  /\ readers' = (readers \ {b}) \cup {[b EXCEPT !.todo = @ \ {c}]}
  /\ channel' = IF Len(channel[c]) < ClientCap
                THEN [channel EXCEPT ![c] = Append(@, b.payload)] ELSE channel
  /\ UNCHANGED <<committed, callers, throttled, flushing, handler, dashboard>>

\* The loop ends and releases the read lock.
EndBroadcast(b) ==
  /\ b.todo = {}
  /\ readers' = readers \ {b}
  /\ UNCHANGED <<committed, callers, throttled, flushing, handler, channel, dashboard>>

-----------------------------------------------------------------------------
(* ServeHTTP.  The write lock waits for every running broadcast.           *)

WriteLock == readers = {}

\* A new channel is registered; the "connected" event reaches the dashboard.
Subscribe(c) ==
  /\ conn[c] = "away"
  /\ WriteLock
  /\ conn' = [conn EXCEPT ![c] = "open"]
  /\ clients' = clients \cup {c}
  /\ channel' = [channel EXCEPT ![c] = <<>>]
  /\ closed' = [closed EXCEPT ![c] = FALSE]
  /\ timer' = [timer EXCEPT ![c] = TRUE]
  /\ UNCHANGED <<server, asked>>

\* Faulty dashboard: an event only repaints the line it is about.
Receive_NoRefresh(c) ==
  /\ conn[c] = "open"
  /\ channel[c] # <<>>
  /\ channel' = [channel EXCEPT ![c] = Tail(@)]
  /\ UNCHANGED <<server, handler, dashboard>>

\* An event is written to the stream; the dashboard sets its timer if it is not.
Receive(c) ==
  /\ conn[c] = "open"
  /\ channel[c] # <<>>
  /\ channel' = [channel EXCEPT ![c] = Tail(@)]
  /\ timer' = [timer EXCEPT ![c] = TRUE]
  /\ UNCHANGED <<server, handler, asked>>

\* Faulty handler: the channel is closed before it is taken out of the map.
Disconnect_Closes(c) ==
  /\ conn[c] = "open"
  /\ conn' = [conn EXCEPT ![c] = "leaving"]
  /\ closed' = [closed EXCEPT ![c] = TRUE]
  /\ UNCHANGED <<server, clients, channel, dashboard>>

\* The browser goes away: the request's context is done.
Disconnect(c) ==
  /\ conn[c] = "open"
  /\ conn' = [conn EXCEPT ![c] = "leaving"]
  /\ UNCHANGED <<server, clients, closed, channel, dashboard>>

\* The deferred function deletes the channel under the lock ...
Unregister(c) ==
  /\ conn[c] = "leaving"
  /\ WriteLock
  /\ conn' = [conn EXCEPT ![c] = "closing"]
  /\ clients' = clients \ {c}
  /\ UNCHANGED <<server, closed, channel, dashboard>>

\* ... and closes it after the lock is released.
Close(c) ==
  /\ conn[c] = "closing"
  /\ conn' = [conn EXCEPT ![c] = "away"]
  /\ closed' = [closed EXCEPT ![c] = TRUE]
  /\ UNCHANGED <<server, clients, channel, dashboard>>

\* refreshTimer fires: it is cleared first, then load() asks for the current data.
Refresh(c) ==
  /\ timer[c]
  /\ timer' = [timer EXCEPT ![c] = FALSE]
  /\ asked' = [asked EXCEPT ![c] = committed]
  /\ UNCHANGED <<server, handler, channel>>

-----------------------------------------------------------------------------
Deliver ==
  \/ \E w \in callers : Broadcast(w) \/ BroadcastLatest(w)
  \/ FlushTake
  \/ \E p \in flushing : FlushBroadcast(p)
  \/ \E b \in readers : EndBroadcast(b) \/ \E c \in Clients : Send(b, c)

Stream(c) == Subscribe(c) \/ Receive(c) \/ Disconnect(c) \/ Unregister(c) \/ Close(c)

Next ==
  \/ \E call \in {"Broadcast", "BroadcastLatest"} : Commit(call)
  \/ Deliver
  \/ \E c \in Clients : Stream(c) \/ Refresh(c)

Spec == Init /\ [][Next]_vars

-----------------------------------------------------------------------------
(* Properties.                                                             *)

\* Type correctness; a client channel never exceeds its capacity (hub.go:105).
TypeOK ==
  /\ committed \in 0..MaxChanges
  /\ callers \subseteq [change : 1..MaxChanges, call : {"Broadcast", "BroadcastLatest"}]
  /\ throttled \subseteq 1..MaxChanges
  /\ flushing \subseteq 1..MaxChanges
  /\ readers \subseteq [payload : 1..MaxChanges, todo : SUBSET Clients]
  /\ clients \subseteq Clients
  /\ conn \in [Clients -> {"away", "open", "leaving", "closing"}]
  /\ channel \in [Clients -> Seq(1..MaxChanges)]
  /\ \A c \in Clients : Len(channel[c]) <= ClientCap
  /\ closed \in [Clients -> BOOLEAN]
  /\ timer \in [Clients -> BOOLEAN]
  /\ asked \in [Clients -> 0..MaxChanges]

\* No send on a closed channel, which would panic: a handler closes its channel
\* only when no broadcast can still visit it (hub.go:81-92, 109-114).
NoSendOnClosed ==
  /\ \A b \in readers : \A c \in b.todo : ~closed[c]
  /\ \A c \in clients : ~closed[c]

\* Something that will make the dashboard of c reload is still under way.
Pending(c) ==
  \/ timer[c]
  \/ channel[c] # <<>>
  \/ \E b \in readers : c \in b.todo
  \/ callers # {} \/ throttled # {} \/ flushing # {}

\* A dashboard that is behind is about to reload: throttling, a full channel ("a
\* slow browser must not block agent ingestion. The frontend will refetch", hub.go
\* :88-89) and a lost race never swallow the last notification.
StaleIsPending ==
  \A c \in Clients : conn[c] = "open" /\ asked[c] < committed => Pending(c)
=============================================================================
