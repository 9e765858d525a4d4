----------------------------- MODULE Collectors -----------------------------
(***************************************************************************)
(* The goroutines between the kernel and the agent's main loop:            *)
(* EBPFCollector.Run reads the ring buffer of Capture, icmp.Collector.Run  *)
(* a packet socket, MultiCollector.Run forwards what both produce to one   *)
(* pair of channels, and run (src/agent/cmd/agent/main.go) consumes it     *)
(* until the context ends or both channels are closed.                     *)
(*                                                                         *)
(* An event is its number in the order its source read it.  The channels   *)
(* of a source are closed when its goroutine returns, the merged channels  *)
(* by the goroutine that waits for all forwarders.                         *)
(***************************************************************************)
EXTENDS Integers, Capture

CONSTANTS
  ChanCap         \* capacity of every channel (1024, 256, 8, 4 in the code)

ASSUME CollectorsAssumption == ChanCap \in Nat \ {0}

VARIABLES
  ctx,        \* TRUE once the context is cancelled by a signal
  multi,      \* TRUE iff the source is a MultiCollector
  src,        \* source -> where its goroutine is
  readerOpen, \* source -> its reader or socket is open
  nread,      \* source -> number of events it has read
  nerr,       \* number of errors that happened
  events,     \* source -> its events channel
  errors,     \* source -> number of errors in its error channel
  fwd,        \* source -> where its event forwarder is
  held,       \* source -> event its forwarder holds, or 0
  efwd,       \* source -> where its error forwarder is
  merged,     \* merged events channel, of <<source, event>>
  mergedErrors,  \* number of errors in the merged error channel
  mergedClosed,  \* the merged channels are closed
  nilled,     \* channels run has seen closed
  main,       \* "start", "loop" or "returned"
  got         \* source -> number of its events run has received

goroutines == <<src, readerOpen, nread, nerr, events, errors>>
forwarders == <<fwd, held, efwd>>
mergedChan == <<merged, mergedErrors, mergedClosed>>
mainLoop   == <<nilled, main, got>>
user       == <<ctx, multi, goroutines, forwarders, mergedChan, mainLoop>>
vars       == <<kernel, user>>

Sources == {"ebpf", "icmp"}

Init ==
  /\ CaptureInit
  /\ ctx = FALSE
  /\ multi = FALSE
  /\ src = [s \in Sources |-> "off"]
  /\ readerOpen = [s \in Sources |-> FALSE]
  /\ nread = [s \in Sources |-> 0]
  /\ nerr = 0
  /\ events = [s \in Sources |-> << >>]
  /\ errors = [s \in Sources |-> 0]
  /\ fwd = [s \in Sources |-> "off"]
  /\ held = [s \in Sources |-> 0]
  /\ efwd = [s \in Sources |-> "off"]
  /\ merged = << >>
  /\ mergedErrors = 0
  /\ mergedClosed = FALSE
  /\ nilled = {}
  /\ main = "start"
  /\ got = [s \in Sources |-> 0]

-----------------------------------------------------------------------------
(* run: the choice of the source, and source.Run.                          *)

Start(icmp) ==
  LET both == mode = "kprobe" /\ icmp
      on == IF both THEN Sources ELSE {"ebpf"}
      State(value, off) == [s \in Sources |-> IF s \in on THEN value ELSE off]
  IN
  /\ main = "start" /\ mode # "new"
  /\ IF mode = "failed"
     THEN main' = "returned" /\ UNCHANGED <<multi, src, readerOpen, fwd, efwd>>
     ELSE /\ main' = "loop"
          /\ multi' = both
          /\ src' = State("read", "off")
          /\ readerOpen' = State(TRUE, FALSE)
          /\ fwd' = IF both THEN State("range", "off") ELSE fwd
          /\ efwd' = IF both THEN State("range", "off") ELSE efwd
  /\ UNCHANGED <<kernel, ctx, nread, nerr, events, errors, held, mergedChan, nilled, got>>

\* A signal cancels the context ...
Cancel ==
  /\ ~ctx /\ main = "loop" /\ load.signal
  /\ ctx' = TRUE
  /\ UNCHANGED <<kernel, multi, goroutines, forwarders, mergedChan, mainLoop>>

\* ... and the helper goroutine of each source closes it, as does run when it returns.
\* Close of the eBPF source also detaches its programs.
Close(s) ==
  /\ readerOpen[s] /\ (ctx \/ main = "returned")
  /\ readerOpen' = [readerOpen EXCEPT ![s] = FALSE]
  /\ links' = IF s = "ebpf" THEN {} ELSE links
  /\ UNCHANGED <<load, mode, thread, maps, ring, stats, calls, history, ctx, multi, src, nread, nerr,
                 events, errors, forwarders, mergedChan, mainLoop>>

-----------------------------------------------------------------------------
(* The goroutine of a source.                                              *)

\* A record or a packet is read and converted.
Read(s) ==
  /\ src[s] = "read" /\ readerOpen[s]
  /\ \/ s = "ebpf" /\ ring > 0 /\ ring' = ring - 1
     \/ s = "icmp" /\ nread[s] < load.icmp /\ UNCHANGED ring
  /\ nread' = [nread EXCEPT ![s] = @ + 1]
  /\ src' = [src EXCEPT ![s] = "send"]
  /\ UNCHANGED <<attachment, thread, maps, stats, calls, history, ctx, multi, readerOpen, nerr,
                 events, errors, forwarders, mergedChan, mainLoop>>

\* The read fails while the reader is open.  For eBPF the error is reported and the
\* goroutine ends; for ICMP a cancelled context ends it, else it is reported and reading
\* goes on.
ReadError(s) ==
  /\ src[s] = "read" /\ readerOpen[s] /\ nerr < load.errors
  /\ nerr' = nerr + 1
  /\ src' = [src EXCEPT ![s] = IF s = "ebpf" THEN "last_error" ELSE IF ctx THEN "done" ELSE "error"]
  /\ UNCHANGED <<kernel, ctx, multi, readerOpen, nread, events, errors, forwarders, mergedChan, mainLoop>>

\* A record of the wrong size: reported, and reading goes on.
DecodeError ==
  /\ src["ebpf"] = "read" /\ readerOpen["ebpf"] /\ ring > 0 /\ nerr < load.errors
  /\ ring' = ring - 1
  /\ nerr' = nerr + 1
  /\ src' = [src EXCEPT !["ebpf"] = "error"]
  /\ UNCHANGED <<attachment, thread, maps, stats, calls, history, ctx, multi, readerOpen, nread,
                 events, errors, forwarders, mergedChan, mainLoop>>

\* ErrClosed or EBADF: the goroutine ends and closes its channels.
ReadClosed(s) ==
  /\ src[s] = "read" /\ ~readerOpen[s]
  /\ src' = [src EXCEPT ![s] = "done"]
  /\ UNCHANGED <<kernel, ctx, multi, readerOpen, nread, nerr, events, errors, forwarders, mergedChan, mainLoop>>

\* Faulty send: an event is dropped when the channel is full.
SendEvent_Drops(s) ==
  /\ src[s] = "send"
  /\ src' = [src EXCEPT ![s] = "read"]
  /\ events' = IF Len(events[s]) < ChanCap THEN [events EXCEPT ![s] = Append(@, nread[s])] ELSE events
  /\ UNCHANGED <<kernel, ctx, multi, readerOpen, nread, nerr, errors, forwarders, mergedChan, mainLoop>>

\* The event is sent when the channel has room; ICMP gives up when the context ends.
SendEvent(s) ==
  /\ src[s] = "send"
  /\ \/ /\ Len(events[s]) < ChanCap
        /\ events' = [events EXCEPT ![s] = Append(@, nread[s])]
        /\ src' = [src EXCEPT ![s] = "read"]
     \/ /\ s = "icmp" /\ ctx
        /\ src' = [src EXCEPT ![s] = "done"]
        /\ UNCHANGED events
  /\ UNCHANGED <<kernel, ctx, multi, readerOpen, nread, nerr, errors, forwarders, mergedChan, mainLoop>>

SendError(s) ==
  /\ src[s] \in {"error", "last_error"} /\ errors[s] < ChanCap
  /\ errors' = [errors EXCEPT ![s] = @ + 1]
  /\ src' = [src EXCEPT ![s] = IF @ = "error" THEN "read" ELSE "done"]
  /\ UNCHANGED <<kernel, ctx, multi, readerOpen, nread, nerr, events, forwarders, mergedChan, mainLoop>>

-----------------------------------------------------------------------------
(* MultiCollector.Run.                                                     *)

\* The event forwarder: range over the source's channel ...
ForwardTake(s) ==
  /\ fwd[s] = "range"
  /\ \/ /\ events[s] # << >>
        /\ held' = [held EXCEPT ![s] = Head(events[s])]
        /\ events' = [events EXCEPT ![s] = Tail(@)]
        /\ fwd' = [fwd EXCEPT ![s] = "select"]
     \/ /\ events[s] = << >> /\ src[s] = "done"
        /\ fwd' = [fwd EXCEPT ![s] = "done"]
        /\ UNCHANGED <<held, events>>
  /\ UNCHANGED <<kernel, ctx, multi, src, readerOpen, nread, nerr, errors, efwd, mergedChan, mainLoop>>

\* ... and select between the merged channel and the end of the context.
ForwardPut(s) ==
  /\ fwd[s] = "select"
  /\ held' = [held EXCEPT ![s] = 0]
  /\ \/ /\ Len(merged) < ChanCap
        /\ merged' = Append(merged, <<s, held[s]>>)
        /\ fwd' = [fwd EXCEPT ![s] = "range"]
     \/ /\ ctx
        /\ fwd' = [fwd EXCEPT ![s] = "done"]
        /\ UNCHANGED merged
  /\ UNCHANGED <<kernel, ctx, multi, goroutines, efwd, mergedErrors, mergedClosed, mainLoop>>

\* The error forwarder, the same.
ForwardError(s) ==
  /\ \/ /\ efwd[s] = "range" /\ errors[s] > 0
        /\ errors' = [errors EXCEPT ![s] = @ - 1]
        /\ efwd' = [efwd EXCEPT ![s] = "select"]
        /\ UNCHANGED mergedErrors
     \/ /\ efwd[s] = "range" /\ errors[s] = 0 /\ src[s] = "done"
        /\ efwd' = [efwd EXCEPT ![s] = "done"]
        /\ UNCHANGED <<errors, mergedErrors>>
     \/ /\ efwd[s] = "select" /\ mergedErrors < Cardinality(Sources)
        /\ mergedErrors' = mergedErrors + 1
        /\ efwd' = [efwd EXCEPT ![s] = "range"]
        /\ UNCHANGED errors
     \/ /\ efwd[s] = "select" /\ ctx
        /\ efwd' = [efwd EXCEPT ![s] = "done"]
        /\ UNCHANGED <<errors, mergedErrors>>
  /\ UNCHANGED <<kernel, ctx, multi, src, readerOpen, nread, nerr, events, fwd, held, merged,
                 mergedClosed, mainLoop>>

\* Faulty closer: it waits for one source only.
CloseMerged_One ==
  /\ multi /\ ~mergedClosed
  /\ \E s \in Sources : fwd[s] = "done" /\ efwd[s] = "done"
  /\ mergedClosed' = TRUE
  /\ UNCHANGED <<kernel, ctx, multi, goroutines, forwarders, merged, mergedErrors, mainLoop>>

\* wg.Wait, then both merged channels are closed.
CloseMerged ==
  /\ multi /\ ~mergedClosed
  /\ \A s \in Sources : fwd[s] = "done" /\ efwd[s] = "done"
  /\ mergedClosed' = TRUE
  /\ UNCHANGED <<kernel, ctx, multi, goroutines, forwarders, merged, mergedErrors, mainLoop>>

-----------------------------------------------------------------------------
(* The select of run, over the merged channels or those of the one source. *)

MainEvent ==
  /\ main = "loop" /\ "events" \notin nilled
  /\ IF multi
     THEN /\ merged # << >>
          /\ got' = [got EXCEPT ![Head(merged)[1]] = @ + 1]
          /\ merged' = Tail(merged)
          /\ UNCHANGED events
     ELSE /\ events["ebpf"] # << >>
          /\ got' = [got EXCEPT !["ebpf"] = @ + 1]
          /\ events' = [events EXCEPT !["ebpf"] = Tail(@)]
          /\ UNCHANGED merged
  /\ UNCHANGED <<kernel, ctx, multi, src, readerOpen, nread, nerr, errors, forwarders, mergedErrors,
                 mergedClosed, nilled, main>>

MainError ==
  /\ main = "loop" /\ "errors" \notin nilled
  /\ IF multi
     THEN mergedErrors > 0 /\ mergedErrors' = mergedErrors - 1 /\ UNCHANGED errors
     ELSE errors["ebpf"] > 0 /\ errors' = [errors EXCEPT !["ebpf"] = @ - 1] /\ UNCHANGED mergedErrors
  /\ UNCHANGED <<kernel, ctx, multi, src, readerOpen, nread, nerr, events, forwarders, merged,
                 mergedClosed, mainLoop>>

\* Faulty loop: the channel is not set to nil and is read again.
MainClosed_Spins(channel) == main = "loop" /\ channel \notin nilled /\ UNCHANGED vars

\* A closed and empty channel is set to nil; with both nil the loop ends.
MainClosed(channel) ==
  LET over == IF multi THEN mergedClosed ELSE src["ebpf"] = "done"
      empty == IF channel = "events" THEN (IF multi THEN merged ELSE events["ebpf"]) = << >>
               ELSE (IF multi THEN mergedErrors ELSE errors["ebpf"]) = 0
  IN
  /\ main = "loop" /\ channel \notin nilled /\ over /\ empty
  /\ nilled' = nilled \cup {channel}
  /\ main' = IF nilled' = {"events", "errors"} THEN "returned" ELSE main
  /\ UNCHANGED <<kernel, ctx, multi, goroutines, forwarders, mergedChan, got>>

MainDone ==
  /\ main = "loop" /\ ctx
  /\ main' = "returned"
  /\ UNCHANGED <<kernel, ctx, multi, goroutines, forwarders, mergedChan, nilled, got>>

-----------------------------------------------------------------------------
SourceStep(s) ==
  Read(s) \/ ReadError(s) \/ ReadClosed(s) \/ SendEvent(s) \/ SendError(s) \/ Close(s)

ForwardStep(s) == ForwardTake(s) \/ ForwardPut(s) \/ ForwardError(s)

MainStep ==
  MainEvent \/ MainError \/ MainDone \/ \E channel \in {"events", "errors"} : MainClosed(channel)

Next ==
  \/ KernelStep /\ UNCHANGED user
  \/ \E icmp \in BOOLEAN : Start(icmp)
  \/ Cancel
  \/ DecodeError
  \/ \E s \in Sources : SourceStep(s) \/ ForwardStep(s)
  \/ CloseMerged
  \/ MainStep

Spec == Init /\ [][Next]_vars

\* A goroutine that can run is scheduled; reads, errors, calls and the signal need not
\* happen.
Fairness ==
  /\ WF_vars(MainStep) /\ WF_vars(MainDone) /\ WF_vars(CloseMerged)
  /\ \A s \in Sources : /\ WF_vars(ForwardTake(s) \/ ForwardPut(s)) /\ WF_vars(ForwardError(s))
                        /\ WF_vars(SendEvent(s) \/ SendError(s) \/ ReadClosed(s))
                        /\ WF_vars(Close(s))

FairSpec == Spec /\ Fairness

-----------------------------------------------------------------------------
(* Properties of the kernel programs.                                      *)

\* The bytes of a socket call are carried by at most one record, whichever of the TC
\* hook and the socket probes NewEBPF attached and whatever failed on the way
\* (tcpMetricAttachments: "They carry no byte or packet accounting").
BytesCountedOnce == \A c \in Calls : bytesOf[c] <= 1

\* A record of finish_io carries the socket of the call that returned, never that of a
\* call of another thread, although entries are evicted and calls overlap.
OwnMetadata == \A c \in Calls : credit[c] \in {0, c}

\* A request is measured at most once by each thread that receives on the socket: only
\* receivers that pass the lookup of take_response_delay_us together measure it twice.
DelayOncePerReceiver == \A c \in Calls : samples[c] <= Cardinality(load.threads)

\* In TC mode every record the full ring cost is counted in capture_stats, and every
\* packet seen is accounted for by one outcome.
LossIsCounted ==
  mode = "tc" => /\ lost = stats.full
                 /\ stats.seen <= stats.emitted + stats.skipped + stats.full

(* Properties of the goroutines.                                           *)

\* Type correctness: the channels and the ring buffer stay within their capacities
\* (ebpf_collector.go:290-291, multi_collector.go:19-20, flow_maps.h:22-25).
TypeOK ==
  /\ mode \in {"new", "tc", "kprobe", "failed"}
  /\ ring \in 0..RingCap
  /\ \A t \in Threads : thread[t].at \in {"user", "mark", "marking", "io", "return", "taking"}
  /\ \A s \in Sources : /\ src[s] \in {"off", "read", "send", "error", "last_error", "done"}
                        /\ fwd[s] \in {"off", "range", "select", "done"}
                        /\ Len(events[s]) <= ChanCap /\ errors[s] \in 0..ChanCap
  /\ Len(merged) <= ChanCap /\ mergedErrors \in 0..Cardinality(Sources)
  /\ main \in {"start", "loop", "returned"}

\* Number of the last event of a source that is no longer in its own channel or on either
\* side of it: passed on to the merged channel, or received by run if there is none.
PassedOn(s) ==
  LET One(b) == IF b THEN 1 ELSE 0
  IN  nread[s] - One(src[s] = "send") - Len(events[s]) - One(held[s] # 0)

\* The merged channel holds exactly the events of a source after the last received up to
\* the last passed on, in increasing order; the forwarder holds the next one; and the
\* channel of the source holds those that follow, without a gap.
InOrder(s) ==
  /\ {e[2] : e \in {e \in Range(merged) : e[1] = s}} = (got[s] + 1)..PassedOn(s)
  /\ \A i, j \in DOMAIN merged :
       i < j /\ merged[i][1] = s /\ merged[j][1] = s => merged[i][2] < merged[j][2]
  /\ got[s] <= PassedOn(s)
  /\ held[s] \in {0, PassedOn(s) + 1}
  /\ \A i \in DOMAIN events[s] :
       events[s][i] = PassedOn(s) + (IF held[s] = 0 THEN 0 ELSE 1) + i

\* Until the context ends, the events a source has read reach run in the order they were
\* read, each once and none lost.
InOrderNoLoss == ~ctx => \A s \in Sources : InOrder(s)

\* When the merged channels are closed no forwarder can send on them; and unless the
\* context ended, run returns only when it has received every event that was read.
ClosedIsDrained ==
  /\ mergedClosed => \A s \in Sources : fwd[s] = "done" /\ efwd[s] = "done"
  /\ main = "returned" /\ ~ctx => got = nread

\* run returns after a signal, and when every source has ended, although a source may
\* stay blocked on a full channel.
RunReturns ==
  /\ ctx ~> main = "returned"
  /\ (\A s \in Sources : src[s] \in {"done", "off"}) /\ main = "loop" ~> main = "returned"
=============================================================================
