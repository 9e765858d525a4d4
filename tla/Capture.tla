------------------------------ MODULE Capture ------------------------------
(***************************************************************************)
(* Capture in the kernel: NewEBPF attaches the programs                    *)
(* (src/agent/internal/features/traffic/packet/ebpf_collector.go), and the *)
(* programs write records to the ring buffer while threads send and        *)
(* receive on TCP sockets (parser.bpf.h, socket_capture.bpf.h,             *)
(* connect.bpf.c, delay.bpf.h and delay.bpf.c under                        *)
(* src/agent/internal/features).                                           *)
(*                                                                         *)
(* A call moves one packet through the TC hook.  A program runs as one     *)
(* step, except that two CPUs may interleave between the lookup and the    *)
(* update or delete of app_delay_start, whose key is the socket.  Of a     *)
(* record only its place in the ring matters; what it counts is kept in    *)
(* history variables.                                                      *)
(***************************************************************************)
EXTENDS Naturals, Sequences, FiniteSets, Functions

CONSTANTS
  Threads, Socks,
  RingCap,        \* records the ring buffer has room for
  MapCap,         \* max_entries of the LRU maps (32768 in the code)
  Workloads       \* bounds, one record for a behaviour: threads and number of socket calls,
                  \* optional probes that can be attached, ICMP packets, read errors, signals

ASSUME CaptureAssumption == RingCap \in Nat \ {0} /\ MapCap \in Nat \ {0}

VARIABLES
  load,       \* the workload of this behaviour
  mode,       \* captureMode once NewEBPF has returned, "failed", or "new"
  links,      \* attached programs
  thread,     \* thread -> the call it is in, and where
  pending_io,           \* thread -> call remembered at entry
  app_delay_start,      \* socket -> call that sent the unanswered request
  app_delay_recv_sock,  \* thread -> socket it receives on
  ring,       \* number of records in the ring buffer
  stats,      \* capture_stats
  calls,      \* number of calls so far
  bytesOf,    \* call -> records that carry its bytes (history)
  credit,     \* call -> call whose metadata its bytes carry, or 0 (history)
  samples,    \* call -> delay records measured from it (history)
  lost        \* records not written because the ring was full (history)

attachment == <<load, mode, links>>
maps       == <<pending_io, app_delay_start, app_delay_recv_sock>>
history    == <<bytesOf, credit, samples, lost>>
kernel     == <<attachment, thread, maps, ring, stats, calls, history>>

Calls == 1..load.calls

User == [at |-> "user", op |-> "none", sock |-> 0, call |-> 0, start |-> 0]

CaptureInit ==
  /\ load \in Workloads
  /\ mode = "new"
  /\ links = {}
  /\ thread = [t \in Threads |-> User]
  /\ pending_io = << >>
  /\ app_delay_start = << >>
  /\ app_delay_recv_sock = << >>
  /\ ring = 0
  /\ stats = [seen |-> 0, emitted |-> 0, full |-> 0, skipped |-> 0]
  /\ calls = 0
  /\ bytesOf = [c \in Calls |-> 0]
  /\ credit = [c \in Calls |-> 0]
  /\ samples = [c \in Calls |-> 0]
  /\ lost = 0

-----------------------------------------------------------------------------
(* NewEBPF.                                                                *)

connectionAttachments == {"connect", "send", "send_ret", "recv", "recv_ret"}
tcpMetricAttachments  == {"delay_send", "delay_recv", "delay_recv_ret"}

\* What can happen in a behaviour: finitely many threads of the system make finitely many
\* calls, and only the probes of attachOptional are optional.
ASSUME WorkloadsAssumption ==
  \A w \in Workloads : /\ w.threads \subseteq Threads /\ IsFiniteSet(w.threads)
                       /\ w.calls \in Nat
                       /\ w.optional \subseteq tcpMetricAttachments

\* Faulty cleanup: the ingress link stays when egress cannot be attached.
attachTCX_KeepsIngress(tcx) ==
  CASE tcx = "attached"  -> {"tc_ingress", "tc_egress"}
    [] tcx = "no_egress" -> {"tc_ingress"}
    [] OTHER             -> {}

\* The links that remain: none if either of the two fails.
attachTCX(tcx) == IF tcx = "attached" THEN {"tc_ingress", "tc_egress"} ELSE {}

\* TC if it can be attached, else the socket probes if the mode allows them.  Optional
\* probes may be missing; if a required one or the ring reader is, Close undoes it all.
NewEBPF(option, tcx, optional, ready) ==
  LET viaTC == option # "kprobe" /\ tcx = "attached"
      tried == IF option = "kprobe" THEN {} ELSE attachTCX(tcx)
  IN
  /\ mode = "new"
  /\ \/ /\ viaTC /\ ready
        /\ mode' = "tc"
        /\ links' = tried \cup optional
     \/ /\ ~viaTC /\ option # "tc" /\ ready
        /\ mode' = "kprobe"
        /\ links' = tried \cup connectionAttachments \cup optional
     \/ /\ ~ready \/ (option = "tc" /\ ~viaTC)
        /\ mode' = "failed"
        /\ links' = {}
  /\ UNCHANGED <<load, thread, maps, ring, stats, calls, history>>

-----------------------------------------------------------------------------
(* Maps and ring buffer.                                                   *)

\* bpf_map_update_elem(BPF_ANY) on an LRU map: a full map gives up another key.
LRUUpdate(map, key, value) ==
  LET full == key \notin DOMAIN map /\ Cardinality(DOMAIN map) >= MapCap
      kept == IF full THEN {DOMAIN map \ {k} : k \in DOMAIN map} ELSE {DOMAIN map}
  IN  {[k \in K \cup {key} |-> IF k = key THEN value ELSE map[k]] : K \in kept}

Delete(map, key) == Restrict(map, DOMAIN map \ {key})

\* Faulty reservation: one record too many.
Room_OffByOne == ring <= RingCap

\* bpf_ringbuf_reserve succeeds; otherwise the record is lost.
Room == ring < RingCap

\* Faulty accounting: a full ring is not counted, as in emit_connection and finish_io.
count_capture_stat_NotFull(st, key, happened) ==
  IF happened /\ key # "full" THEN [st EXCEPT ![key] = @ + 1] ELSE st

count_capture_stat(st, key, happened) == IF happened THEN [st EXCEPT ![key] = @ + 1] ELSE st

-----------------------------------------------------------------------------
(* A thread calls tcp_sendmsg or tcp_recvmsg.                              *)

Goto(t, at) == thread' = [thread EXCEPT ![t].at = at]

\* Faulty key: the process id alone, which all threads share.
Key_Process(t) == 0

\* bpf_get_current_pid_tgid
Key(t) == t

\* tcp_v4_connect or inet_csk_accept: emit_connection, which counts no loss.
Connect(t) ==
  /\ mode \in {"tc", "kprobe"}
  /\ thread[t].at = "user"
  /\ calls < load.calls /\ t \in load.threads
  /\ calls' = calls + 1
  /\ ring' = IF "connect" \in links /\ Room THEN ring + 1 ELSE ring
  /\ lost' = IF "connect" \in links /\ ~Room THEN lost + 1 ELSE lost
  /\ UNCHANGED <<attachment, thread, maps, stats, bytesOf, credit, samples>>

\* The entry probes: remember_io, and trace_tcp_delay_recv for a receive.
Enter(t, op, s) ==
  /\ mode \in {"tc", "kprobe"}
  /\ thread[t].at = "user"
  /\ calls < load.calls /\ t \in load.threads
  /\ calls' = calls + 1
  /\ thread' = [thread EXCEPT ![t] =
       [at |-> IF op = "send" /\ "delay_send" \in links THEN "mark" ELSE "io",
        op |-> op, sock |-> s, call |-> calls + 1, start |-> 0]]
  /\ pending_io' \in IF op \in links THEN LRUUpdate(pending_io, Key(t), calls + 1) ELSE {pending_io}
  /\ app_delay_recv_sock' \in
       IF op = "recv" /\ "delay_recv" \in links
       THEN LRUUpdate(app_delay_recv_sock, t, s) ELSE {app_delay_recv_sock}
  /\ UNCHANGED <<attachment, app_delay_start, ring, stats, history>>

\* mark_request_sent keeps the earliest unanswered send: lookup ...
MarkLookup(t) ==
  /\ thread[t].at = "mark"
  /\ Goto(t, IF thread[t].sock \in DOMAIN app_delay_start THEN "io" ELSE "marking")
  /\ UNCHANGED <<attachment, maps, ring, stats, calls, history>>

\* ... and update.
MarkUpdate(t) ==
  /\ thread[t].at = "marking"
  /\ app_delay_start' \in LRUUpdate(app_delay_start, thread[t].sock, thread[t].call)
  /\ Goto(t, "io")
  /\ UNCHANGED <<attachment, pending_io, app_delay_recv_sock, ring, stats, calls, history>>

\* The packet of the call passes the TC hook: emit_tc_packet, if it is attached.
\* A packet that is not parsed or has an ignored port is counted as such.
Packet(t, parsed) ==
  LET hooked == (IF thread[t].op = "send" THEN "tc_egress" ELSE "tc_ingress") \in links
      emits  == hooked /\ parsed /\ Room
      full   == hooked /\ parsed /\ ~Room
      One(b) == IF b THEN 1 ELSE 0
  IN
  /\ thread[t].at = "io"
  /\ Goto(t, "return")
  /\ ring' = ring + One(emits)
  /\ stats' = count_capture_stat(count_capture_stat(stats, "seen", hooked),
                CASE emits -> "emitted" [] full -> "full" [] OTHER -> "skipped", hooked)
  /\ bytesOf' = [bytesOf EXCEPT ![thread[t].call] = @ + One(emits)]
  /\ lost' = lost + One(full)
  /\ UNCHANGED <<attachment, maps, calls, credit, samples>>

returnProbe(op) == IF op = "send" THEN "send_ret" ELSE "recv_ret"

\* The return probe finish_io: the entry is deleted whatever the result.
FinishIO(t, result) ==
  LET saved == returnProbe(thread[t].op) \in links /\ Key(t) \in DOMAIN pending_io
      c == thread[t].call
  IN
  /\ IF saved /\ result > 0 /\ Room
     THEN /\ ring' = ring + 1
          /\ bytesOf' = [bytesOf EXCEPT ![c] = @ + 1]
          /\ credit' = [credit EXCEPT ![c] = pending_io[Key(t)]]
          /\ lost' = lost
     ELSE /\ lost' = IF saved /\ result > 0 THEN lost + 1 ELSE lost
          /\ UNCHANGED <<ring, bytesOf, credit>>
  /\ pending_io' = IF saved THEN Delete(pending_io, Key(t)) ELSE pending_io

\* The call returns: finish_io, then the first half of trace_tcp_delay_recv_ret up
\* to the lookup in take_response_delay_us.
Return(t, result) ==
  LET known == thread[t].op = "recv" /\ "delay_recv_ret" \in links /\ t \in DOMAIN app_delay_recv_sock
      s == app_delay_recv_sock[t]
  IN
  /\ thread[t].at = "return"
  /\ FinishIO(t, result)
  /\ app_delay_recv_sock' = IF known THEN Delete(app_delay_recv_sock, t) ELSE app_delay_recv_sock
  /\ thread' = [thread EXCEPT ![t] =
       IF known /\ result > 0 /\ s \in DOMAIN app_delay_start
       THEN [@ EXCEPT !.at = "taking", !.sock = s, !.start = app_delay_start[s]] ELSE User]
  /\ UNCHANGED <<attachment, app_delay_start, stats, calls, samples>>

\* Faulty measurement: the start is left in the map.
TakeDelay_Keeps(t, plausible) ==
  /\ thread[t].at = "taking"
  /\ thread' = [thread EXCEPT ![t] = User]
  /\ ring' = IF plausible /\ Room THEN ring + 1 ELSE ring
  /\ samples' = IF plausible /\ Room THEN [samples EXCEPT ![thread[t].start] = @ + 1] ELSE samples
  /\ stats' = count_capture_stat(stats, "full", plausible /\ ~Room)
  /\ lost' = IF plausible /\ ~Room THEN lost + 1 ELSE lost
  /\ UNCHANGED <<attachment, maps, calls, bytesOf, credit>>

\* The second half: the start is deleted, and the delay reported unless it is zero
\* or longer than a minute.
TakeDelay(t, plausible) ==
  /\ thread[t].at = "taking"
  /\ app_delay_start' = Delete(app_delay_start, thread[t].sock)
  /\ thread' = [thread EXCEPT ![t] = User]
  /\ ring' = IF plausible /\ Room THEN ring + 1 ELSE ring
  /\ samples' = IF plausible /\ Room THEN [samples EXCEPT ![thread[t].start] = @ + 1] ELSE samples
  /\ stats' = count_capture_stat(stats, "full", plausible /\ ~Room)
  /\ lost' = IF plausible /\ ~Room THEN lost + 1 ELSE lost
  /\ UNCHANGED <<attachment, pending_io, app_delay_recv_sock, calls, bytesOf, credit>>

-----------------------------------------------------------------------------
KernelStep ==
  \/ \E option \in {"auto", "tc", "kprobe"}, tcx \in {"attached", "no_ingress", "no_egress"},
        ready \in BOOLEAN :
       NewEBPF(option, tcx, load.optional, ready)
  \/ \E t \in Threads :
       \/ \E op \in {"send", "recv"}, s \in Socks : Enter(t, op, s)
       \/ Connect(t) \/ MarkLookup(t) \/ MarkUpdate(t)
       \/ \E parsed \in BOOLEAN : Packet(t, parsed)
       \/ \E result \in {0, 1} : Return(t, result)
       \/ \E plausible \in BOOLEAN : TakeDelay(t, plausible)
=============================================================================
