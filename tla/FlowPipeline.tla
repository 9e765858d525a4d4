---------------------------- MODULE FlowPipeline ----------------------------
(***************************************************************************)
(* The agent's delivery path, from a decoded capture event to the backend: *)
(*                                                                         *)
(*   collector -> filters -> Accumulator -> ticker/Drain -> flowBatches    *)
(*             -> runFlowSender/sendFlow -> POST /api/flows/ingest         *)
(*                                                                         *)
(* (src/agent/cmd/agent/main.go, src/agent/internal/flow/store.go,         *)
(* src/agent/internal/exporter/backend.go).  Two goroutines share the      *)
(* bounded channel flowBatches; the network and the backend are the        *)
(* environment of the sender.                                              *)
(*                                                                         *)
(* A flow.State is a bundle of counters that are only ever added to, so it *)
(* is represented by the set of capture events it has counted: Apply adds  *)
(* one event, Merge is union, and "the same bytes are counted twice" is    *)
(* "the same event is in two places".                                      *)
(***************************************************************************)
EXTENDS Naturals, Sequences, FiniteSets

CONSTANTS
  Events,        \* the capture events: records of type pipeline.FlowMetric
  Captures,      \* the sets of them a life of the agent may see
  ControlPlane,  \* addresses of newEndpointFilter
  IgnorePorts,   \* cfg.IgnorePorts
  AllowCIDRs,    \* the addresses covered by cfg.AllowCIDRs; {} if none is set
  DenyCIDRs,     \* the addresses covered by cfg.DenyCIDRs
  LocalOnly,     \* unparsable, unspecified and loopback destinations
  BatchCap,      \* capacity of the channel flowBatches (32 in the code)
  MaxAttempts    \* attempts of sendFlow (3 in the code)

ASSUME BoundsAssumption ==
  /\ Captures \subseteq SUBSET Events
  /\ BatchCap \in Nat \ {0}
  /\ MaxAttempts \in Nat \ {0}

VARIABLES
  unseen,        \* capture events the collector has not handed over yet
  closed,        \* which of the collector's two channels were seen closed
  ctx,           \* "running", or "cancelled" after SIGINT/SIGTERM
  alive,         \* the process exists
  pendingFlows,  \* the Accumulator: key -> events counted since the last Drain
  flowBatches,   \* the channel between the main loop and the sender
  batch,         \* states of the batch in hand the sender has not settled
  phase,         \* where the sender goroutine is
  current,       \* the state (its events) sendFlow is working on
  attempt,       \* number of POSTs sendFlow has made for it
  wire,          \* requests that the network or a backend handler still holds
  replies,       \* attempts answered with a 2xx status, for the current state
  posted,        \* event -> number of requests that carried it
  applied,       \* event -> how often the backend has counted it
  admitted,      \* events that passed the filters
  acked,         \* events whose request was answered with a 2xx status
  dropped,       \* events sendFlow gave up
  lost           \* events the process still held when it exited

source   == <<unseen, closed, ctx, alive>>
sender   == <<batch, phase, current, attempt>>
outcome  == <<acked, dropped, lost>>
backend  == <<wire, replies, posted, applied>>
vars     == <<source, pendingFlows, flowBatches, sender, backend, admitted, outcome>>

-----------------------------------------------------------------------------
(* Flow keys and filters.                                                  *)

\* AgentID, the same for all events of a process, is left out of the key.
KeyFromMetric(e) ==
  [SrcIP |-> e.SrcIP, DstIP |-> e.DstIP, DstPort |-> e.DstPort, Protocol |-> e.Protocol,
   Direction |-> e.Direction, Interface |-> e.Interface]

Keys == {KeyFromMetric(e) : e \in Events}

ignoreFlow(e) ==
  \/ e.DstIP \in LocalOnly
  \/ e.DstIP \in ControlPlane
  \/ {e.SrcPort, e.DstPort} \cap IgnorePorts # {}

allows(e) ==
  LET ends == {e.SrcIP, e.DstIP} IN
    /\ ends \cap DenyCIDRs = {}
    /\ AllowCIDRs = {} \/ ends \cap AllowCIDRs # {}

-----------------------------------------------------------------------------
(* The Accumulator.  A key is present iff it has counted an event.         *)

Flows == [Keys -> SUBSET Events]

NewAccumulator == [k \in Keys |-> {}]

Add(flows, e) == [flows EXCEPT ![KeyFromMetric(e)] = @ \cup {e}]

\* Faulty AddAll: every key stores the address of one shared loop variable.
AddAll_Aliased(flows, states) ==
  LET last == CHOOSE k \in Keys : states[k] # {}
  IN  [k \in Keys |-> flows[k] \cup (IF states[k] # {} THEN states[last] ELSE {})]

AddAll(flows, states) == [k \in Keys |-> flows[k] \cup states[k]]

\* Faulty Drain: the map that was copied is kept.
Drain_Keeps(flows) == flows

\* What is left when Drain has copied all states out: a new map.
Drain(flows) == NewAccumulator

EventsOf(flows) == UNION {flows[k] : k \in Keys}

Queued == UNION {EventsOf(flowBatches[i]) : i \in 1..Len(flowBatches)}

\* Events the process holds in memory.
Held == EventsOf(pendingFlows) \cup Queued \cup EventsOf(batch) \cup current

-----------------------------------------------------------------------------
Init ==
  /\ unseen \in Captures
  /\ closed = {}
  /\ ctx = "running"
  /\ alive = TRUE
  /\ pendingFlows = NewAccumulator
  /\ flowBatches = <<>>
  /\ batch = NewAccumulator
  /\ phase = "receive"
  /\ current = {}
  /\ attempt = 0
  /\ wire = {}
  /\ replies = {}
  /\ posted = [e \in Events |-> 0]
  /\ applied = [e \in Events |-> 0]
  /\ admitted = {}
  /\ acked = {}
  /\ dropped = {}
  /\ lost = {}

-----------------------------------------------------------------------------
(* The main loop of run().                                                 *)

\* The loop condition: a channel is still open.
Looping == alive /\ closed # {"events", "errors"}

CollectEvent(e) ==
  /\ Looping /\ "events" \notin closed
  /\ e \in unseen
  /\ unseen' = unseen \ {e}
  /\ IF ~ignoreFlow(e) /\ allows(e)
     THEN /\ pendingFlows' = Add(pendingFlows, e)
          /\ admitted' = admitted \cup {e}
     ELSE UNCHANGED <<pendingFlows, admitted>>
  /\ UNCHANGED <<closed, ctx, alive, flowBatches, sender, backend, outcome>>

\* Faulty tick: a full channel drops the batch.
FlowTick_DropsWhenFull ==
  /\ Looping
  /\ pendingFlows # NewAccumulator
  /\ flowBatches' = IF Len(flowBatches) < BatchCap
                    THEN Append(flowBatches, pendingFlows) ELSE flowBatches
  /\ pendingFlows' = NewAccumulator
  /\ UNCHANGED <<source, sender, backend, admitted, outcome>>

\* The ticker fires with flows pending: Drain, then a non-blocking send.
FlowTick ==
  /\ Looping
  /\ pendingFlows # NewAccumulator
  /\ IF Len(flowBatches) < BatchCap
     THEN /\ flowBatches' = Append(flowBatches, pendingFlows)
          /\ pendingFlows' = Drain(pendingFlows)
     ELSE /\ flowBatches' = flowBatches
          /\ pendingFlows' = AddAll(Drain(pendingFlows), pendingFlows)
  /\ UNCHANGED <<source, sender, backend, admitted, outcome>>

\* A receive from a closed channel: events = nil or collectorErrors = nil.
ChannelClosed(ch) ==
  /\ Looping
  /\ ch \notin closed
  /\ closed' = closed \cup {ch}
  /\ UNCHANGED <<unseen, ctx, alive, pendingFlows, flowBatches, sender, backend,
                 admitted, outcome>>

\* SIGINT or SIGTERM cancels the context every goroutine shares.
Signal ==
  /\ alive /\ ctx = "running"
  /\ ctx' = "cancelled"
  /\ UNCHANGED <<unseen, closed, alive, pendingFlows, flowBatches, sender, backend,
                 admitted, outcome>>

\* run() returns: the loop sees ctx.Done(), or both channels are nil.  What the
\* process still holds goes with it.
Exit ==
  /\ alive
  /\ ctx = "cancelled" \/ ~Looping
  /\ alive' = FALSE
  /\ lost' = lost \cup Held
  /\ pendingFlows' = NewAccumulator
  /\ flowBatches' = <<>>
  /\ batch' = NewAccumulator
  /\ current' = {}
  /\ phase' = "returned"
  /\ attempt' = 0
  /\ replies' = {}
  /\ UNCHANGED <<unseen, closed, ctx, wire, posted, applied, admitted, acked, dropped>>

-----------------------------------------------------------------------------
(* runFlowSender and sendFlow.                                             *)

ReceiveBatch ==
  /\ alive /\ phase = "receive"
  /\ flowBatches # <<>>
  /\ batch' = Head(flowBatches)
  /\ flowBatches' = Tail(flowBatches)
  /\ phase' = "next"
  /\ UNCHANGED <<source, pendingFlows, current, attempt, backend, admitted, outcome>>

\* The goroutine selects ctx.Done() instead of a batch.
SenderReturn ==
  /\ alive /\ phase = "receive"
  /\ ctx = "cancelled"
  /\ phase' = "returned"
  /\ UNCHANGED <<source, pendingFlows, flowBatches, batch, current, attempt, backend,
                 admitted, outcome>>

\* One POST of the states S: client.Flow puts a request on the wire, unless the
\* context is already cancelled and the client fails without sending anything.
Post(S, n) ==
  /\ IF ctx = "running"
     THEN /\ wire' = wire \cup {[evs |-> S, attempt |-> n]}
          /\ posted' = [e \in Events |-> IF e \in S THEN posted[e] + 1 ELSE posted[e]]
          /\ phase' = "posting"
     ELSE /\ UNCHANGED <<wire, posted>>
          /\ phase' = "backoff"
  /\ attempt' = n

\* Faulty NextState: the state stays in the batch after it has been posted.
NextState_Repeats ==
  /\ alive /\ phase = "next"
  /\ \E k \in Keys :
       /\ batch[k] # {}
       /\ current' = batch[k]
       /\ Post(batch[k], 1)
  /\ UNCHANGED <<source, pendingFlows, flowBatches, batch, replies, applied, admitted,
                 outcome>>

\* The next state of the batch; map iteration made their order arbitrary.
NextState ==
  /\ alive /\ phase = "next"
  /\ \E k \in Keys :
       /\ batch[k] # {}
       /\ current' = batch[k]
       /\ batch' = [batch EXCEPT ![k] = {}]
       /\ Post(batch[k], 1)
  /\ UNCHANGED <<source, pendingFlows, flowBatches, replies, applied, admitted, outcome>>

BatchDone ==
  /\ alive /\ phase = "next"
  /\ batch = NewAccumulator
  /\ phase' = "receive"
  /\ UNCHANGED <<source, pendingFlows, flowBatches, batch, current, attempt, backend,
                 admitted, outcome>>

\* Faulty success: the status code of the answer is not looked at.
PostSucceeds_AnyStatus ==
  /\ alive /\ phase = "posting"
  /\ acked' = acked \cup current
  /\ current' = {}
  /\ attempt' = 0
  /\ replies' = {}
  /\ phase' = "next"
  /\ UNCHANGED <<source, pendingFlows, flowBatches, batch, wire, posted, applied,
                 admitted, dropped, lost>>

\* A 2xx answer to the attempt in progress.
PostSucceeds ==
  /\ alive /\ phase = "posting"
  /\ attempt \in replies
  /\ acked' = acked \cup current
  /\ current' = {}
  /\ attempt' = 0
  /\ replies' = {}
  /\ phase' = "next"
  /\ UNCHANGED <<source, pendingFlows, flowBatches, batch, wire, posted, applied,
                 admitted, dropped, lost>>

\* The client gives an error: timeout, broken connection, cancelled context or a
\* status that is not 2xx.  A timeout may strike after the backend has applied
\* the request, and before or after it has done so.
PostFails ==
  /\ alive /\ phase = "posting"
  /\ phase' = "backoff"
  /\ UNCHANGED <<source, pendingFlows, flowBatches, batch, current, attempt, backend,
                 admitted, outcome>>

\* The wait after a failed attempt ends with another attempt ...
Retry ==
  /\ alive /\ phase = "backoff"
  /\ attempt < MaxAttempts
  /\ Post(current, attempt + 1)
  /\ UNCHANGED <<source, pendingFlows, flowBatches, batch, current, replies, applied,
                 admitted, outcome>>

\* Faulty endings: one attempt too few; the error ends the sender goroutine.
GiveUp_OneFewer ==
  /\ alive /\ phase = "backoff"
  /\ attempt >= MaxAttempts - 1 \/ ctx = "cancelled"
  /\ dropped' = dropped \cup current
  /\ current' = {}
  /\ attempt' = 0
  /\ replies' = {}
  /\ phase' = "next"
  /\ UNCHANGED <<source, pendingFlows, flowBatches, batch, wire, posted, applied,
                 admitted, acked, lost>>

GiveUp_EndsSender ==
  /\ alive /\ phase = "backoff"
  /\ attempt = MaxAttempts \/ ctx = "cancelled"
  /\ dropped' = dropped \cup current
  /\ current' = {}
  /\ attempt' = 0
  /\ replies' = {}
  /\ phase' = "returned"
  /\ UNCHANGED <<source, pendingFlows, flowBatches, batch, wire, posted, applied,
                 admitted, acked, lost>>

\* ... or sendFlow returns an error that its caller only logs.
GiveUp ==
  /\ alive /\ phase = "backoff"
  /\ attempt = MaxAttempts \/ ctx = "cancelled"
  /\ dropped' = dropped \cup current
  /\ current' = {}
  /\ attempt' = 0
  /\ replies' = {}
  /\ phase' = "next"
  /\ UNCHANGED <<source, pendingFlows, flowBatches, batch, wire, posted, applied,
                 admitted, acked, lost>>

-----------------------------------------------------------------------------
(* The network and the backend.  A request is lost, rejected, or applied;  *)
(* a handler may apply it after its client stopped waiting.                *)

\* Faulty network: the request is delivered again after it has been applied.
Apply_Replays(r) ==
  /\ r \in wire
  /\ applied' = [e \in Events |-> IF e \in r.evs THEN applied[e] + 1 ELSE applied[e]]
  /\ replies' = IF r.evs = current THEN replies \cup {r.attempt} ELSE replies
  /\ UNCHANGED <<source, pendingFlows, flowBatches, sender, wire, posted, admitted, outcome>>

\* FlowService.Ingest commits, the handler answers 202.
Apply(r) ==
  /\ r \in wire
  /\ wire' = wire \ {r}
  /\ applied' = [e \in Events |-> IF e \in r.evs THEN applied[e] + 1 ELSE applied[e]]
  /\ replies' = IF r.evs = current THEN replies \cup {r.attempt} ELSE replies
  /\ UNCHANGED <<source, pendingFlows, flowBatches, sender, posted, admitted, outcome>>

\* The request never reaches the backend, or Ingest returns an error (400).
Discard(r) ==
  /\ r \in wire
  /\ wire' = wire \ {r}
  /\ UNCHANGED <<source, pendingFlows, flowBatches, sender, replies, posted, applied,
                 admitted, outcome>>

-----------------------------------------------------------------------------
MainLoop ==
  \/ \E e \in Events : CollectEvent(e)
  \/ FlowTick
  \/ \E ch \in {"events", "errors"} : ChannelClosed(ch)
  \/ Signal
  \/ Exit

Sender ==
  \/ ReceiveBatch
  \/ SenderReturn
  \/ NextState
  \/ BatchDone
  \/ PostSucceeds
  \/ PostFails
  \/ Retry
  \/ GiveUp

Network == \E r \in wire : Apply(r) \/ Discard(r)

Next == MainLoop \/ Sender \/ Network

Spec == Init /\ [][Next]_vars

\* The Go scheduler runs both goroutines; the ticker keeps firing; the HTTP
\* client's timeout ends every POST; a handler finishes.  Nothing obliges the
\* collector to produce events, a signal to arrive or a channel to close.
Fairness ==
  /\ WF_vars(FlowTick)
  /\ WF_vars(Exit)
  /\ WF_vars(Sender)
  /\ WF_vars(Network)

FairSpec == Spec /\ Fairness

-----------------------------------------------------------------------------
(* Properties.                                                             *)

Request == [evs : SUBSET Events, attempt : 1..MaxAttempts]

\* Type correctness: every counter bundle is keyed, the channel respects its
\* capacity (main.go:95), and an attempt number stays within sendFlow's loop.
TypeOK ==
  /\ unseen \subseteq Events
  /\ closed \subseteq {"events", "errors"}
  /\ ctx \in {"running", "cancelled"}
  /\ alive \in BOOLEAN
  /\ pendingFlows \in Flows
  /\ flowBatches \in Seq(Flows) /\ Len(flowBatches) <= BatchCap
  /\ batch \in Flows
  /\ phase \in {"receive", "next", "posting", "backoff", "returned"}
  /\ current \subseteq Events
  /\ attempt \in 0..MaxAttempts
  /\ wire \subseteq Request
  /\ replies \subseteq 1..MaxAttempts
  /\ posted \in [Events -> Nat]
  /\ applied \in [Events -> Nat]
  /\ admitted \subseteq Events
  /\ acked \subseteq Events /\ dropped \subseteq Events /\ lost \subseteq Events

\* No counter disappears between Add and the end of sendFlow: an admitted event
\* is in the accumulator, in a queued batch, with the sender, or was settled.
\* In particular a full channel ("retaining", main.go:129-133) loses nothing.
NoEventLost == admitted \subseteq Held \cup acked \cup dropped \cup lost

\* No counter is in two places at once, so that the agent itself never reports
\* the same bytes in two different flow states (main.go:119-134, store.go:22-59).
NoEventTwice ==
  /\ \A e \in EventsOf(pendingFlows) :
       e \notin Queued \cup EventsOf(batch) \cup current \cup acked \cup dropped \cup lost
  /\ \A e \in Queued :
       e \notin EventsOf(batch) \cup current \cup acked \cup dropped \cup lost
  /\ \A i, j \in 1..Len(flowBatches) :
       i # j => EventsOf(flowBatches[i]) \cap EventsOf(flowBatches[j]) = {}
  /\ \A e \in EventsOf(batch) : e \notin current \cup acked \cup dropped \cup lost
  /\ \A e \in current : e \notin acked \cup dropped \cup lost
  /\ acked \cap dropped = {} /\ acked \cap lost = {} /\ dropped \cap lost = {}

\* A flow state never mixes events of two flow keys, whatever sequence of Add,
\* Drain and AddAll built it (store.go:22-47, key.go).
KeysSeparate ==
  \A k \in Keys :
    /\ \A e \in pendingFlows[k] \cup batch[k] : KeyFromMetric(e) = k
    /\ \A i \in 1..Len(flowBatches) : \A e \in flowBatches[i][k] : KeyFromMetric(e) = k

InFlight(e) == {r \in wire : e \in r.evs}

\* The backend counts an event at most once per POST that carried it and at most
\* MaxAttempts times in all, even when a handler outlives its client's timeout
\* and applies a request after the retry (main.go:306-321, backend.go:73-101).
OvercountBounded ==
  \A e \in Events : /\ applied[e] + Cardinality(InFlight(e)) <= posted[e]
                    /\ posted[e] <= MaxAttempts

\* A 2xx answer is never misattributed: what sendFlow regards as delivered has
\* been counted by the backend (main.go:309-310).
AckedIsCounted == \A e \in acked : applied[e] >= 1

\* While no signal arrives, sendFlow gives up a state only after it has really
\* been posted MaxAttempts times (main.go:308-320).
DroppedAfterAllAttempts ==
  ctx = "running" => \A e \in dropped : posted[e] = MaxAttempts

\* A settled state is never posted again, and what was settled stays settled: no
\* later Drain or retry resurrects counters the sender has finished with.
SettledIsFinal ==
  [][ /\ acked \subseteq acked' /\ dropped \subseteq dropped' /\ lost \subseteq lost'
      /\ \A e \in acked \cup dropped \cup lost : posted'[e] = posted[e] ]_vars

\* Every admitted event is eventually delivered, given up, or lost with the
\* process: a backlog is always worked off and nothing waits in the accumulator
\* for ever (main.go:119-134, 148-164).  Events only move into these sets and there
\* are finitely many, so it is enough that again and again none is outstanding.
EventuallySettled ==
  []<>(admitted \subseteq acked \cup dropped \cup lost)

\* The delivery path implements the promise of module FlowDelivery: per event,
\* zero to MaxAttempts counts, confirmed only when counted, and settled once.
\* sendFlow's error and the exit of the process are the two ways to abandon an
\* event (main.go:99-100, 306-321).
Delivery == INSTANCE FlowDelivery
              WITH confirmed <- acked, abandoned <- dropped \cup lost

ImplementsDelivery == Delivery!Spec

=============================================================================
