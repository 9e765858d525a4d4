----------------------------- MODULE Dashboard -----------------------------
(***************************************************************************)
(* What a browser shows (src/frontend/src/App.tsx), composed with the hub: *)
(* load() asks the API for everything and shows the answers; it is started *)
(* by the refresh timer, by an interval of ten seconds and when the page   *)
(* opens.  Loads may overlap, fail, and end in any order; the proxy may    *)
(* drop a realtime event.                                                  *)
(*                                                                         *)
(* The five requests of a load are one; the answer is the database of some *)
(* moment between its begin and its end.  Loads of a page that began with  *)
(* the same change are one load.                                           *)
(***************************************************************************)
EXTENDS Hub

VARIABLES
  loads,   \* client -> the loads under way, by the newest change when they began
  shown,   \* client -> newest change the page shows
  dropped  \* client -> an event was dropped since its last load began

page == <<loads, shown, dropped>>
dashboardVars == <<vars, page>>

DashboardInit ==
  /\ Init
  /\ loads = [c \in Clients |-> {0}]
  /\ shown = [c \in Clients |-> 0]
  /\ dropped = [c \in Clients |-> FALSE]

BeginLoad(c) ==
  /\ loads' = [loads EXCEPT ![c] = @ \cup {committed}]
  /\ dropped' = [dropped EXCEPT ![c] = FALSE]
  /\ UNCHANGED shown

RefreshLoad(c) == Refresh(c) /\ BeginLoad(c)

\* Faulty polling: only while the stream is down.
Poll_OnlyOffline(c) ==
  /\ conn[c] # "open"
  /\ asked' = [asked EXCEPT ![c] = committed]
  /\ BeginLoad(c)
  /\ UNCHANGED <<server, handler, channel, timer>>

\* setInterval(load, 10_000)
Poll(c) ==
  /\ asked' = [asked EXCEPT ![c] = committed]
  /\ BeginLoad(c)
  /\ UNCHANGED <<server, handler, channel, timer>>

\* The answers arrive and replace what is shown.
LoadShows(c) ==
  /\ \E n \in loads[c] :
       /\ loads' = [loads EXCEPT ![c] = @ \ {n}]
       /\ \E read \in n..committed : shown' = [shown EXCEPT ![c] = read]
  /\ UNCHANGED <<vars, dropped>>

\* A request fails: what is shown stays.
LoadFails(c) ==
  /\ \E n \in loads[c] : loads' = [loads EXCEPT ![c] = @ \ {n}]
  /\ UNCHANGED <<vars, shown, dropped>>

\* "A browser/proxy silently drops a realtime event."
EventDropped(c) ==
  /\ conn[c] = "open"
  /\ channel[c] # <<>>
  /\ channel' = [channel EXCEPT ![c] = Tail(@)]
  /\ dropped' = [dropped EXCEPT ![c] = TRUE]
  /\ UNCHANGED <<server, handler, dashboard, loads, shown>>

-----------------------------------------------------------------------------
HubStep ==
  /\ \/ \E call \in {"Broadcast", "BroadcastLatest"} : Commit(call)
     \/ Deliver
     \/ \E c \in Clients : Stream(c)
  /\ UNCHANGED page

DashboardNext ==
  \/ HubStep
  \/ \E c \in Clients :
       RefreshLoad(c) \/ Poll(c) \/ LoadShows(c) \/ LoadFails(c) \/ EventDropped(c)

\* The requests of a load end; not all of them fail for ever.
DashboardSpec ==
  /\ DashboardInit
  /\ [][DashboardNext]_dashboardVars
  /\ \A c \in Clients : /\ WF_dashboardVars(LoadShows(c) \/ LoadFails(c))
                        /\ SF_dashboardVars(LoadShows(c))

\* The interval keeps firing.
PollingWorks == \A c \in Clients : WF_dashboardVars(Poll(c))

\* Goroutines, handlers and refresh timers make progress and no event is dropped;
\* nobody has to commit, connect or disconnect.
StreamWorks ==
  /\ WF_dashboardVars(Deliver /\ UNCHANGED page)
  /\ \A c \in Clients : /\ WF_dashboardVars(Receive(c) /\ UNCHANGED page)
                        /\ WF_dashboardVars(RefreshLoad(c))
                        /\ []~dropped[c]

-----------------------------------------------------------------------------
(* Properties.                                                             *)

\* A connected dashboard that is behind is about to reload, unless the network has
\* dropped an event: throttling, a full channel ("a slow browser must not block
\* agent ingestion. The frontend will refetch", hub.go:88-89) and a lost race
\* never swallow the last notification (hub.go:44-92, App.tsx:337-342).
StaleIsPendingOrDropped ==
  \A c \in Clients :
    conn[c] = "open" /\ asked[c] < committed => Pending(c) \/ dropped[c]

\* The stream alone is enough: without any polling, a connected dashboard reloads
\* after every committed change (hub.go:44-92, App.tsx:337-342).
StreamSuffices ==
  StreamWorks =>
    \A c \in Clients : \A n \in 1..MaxChanges :
      (conn[c] = "open" /\ committed >= n) ~> (asked[c] >= n \/ conn[c] # "open")

\* Polling alone is enough: "Polling guarantees status changes are reflected even if
\* a browser/proxy silently drops a realtime event" (App.tsx:322-324).  Every
\* committed change is eventually shown, although an older answer may overtake a
\* newer one and nothing is assumed of the stream.
PollingSuffices ==
  PollingWorks => \A c \in Clients : \A n \in 1..MaxChanges : committed >= n ~> shown[c] >= n
=============================================================================
