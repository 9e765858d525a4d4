--------------------------- MODULE CaptureProofs ---------------------------
(***************************************************************************)
(* Proofs about the kernel side, Capture, in every behaviour of            *)
(* Collectors: for every number of threads, calls and sockets and every    *)
(* capacity of ring buffer and maps.                                       *)
(*                                                                         *)
(* They rest on KernelInv: which programs NewEBPF can leave attached, and  *)
(* what the maps say of the call a thread is in.                           *)
(***************************************************************************)
EXTENDS Collectors, FiniteSetTheorems, TLAPS

Places == {"user", "mark", "marking", "io", "return", "taking"}

\* The call has been entered and its packet has not passed the TC hook.
Early == {"mark", "marking", "io"}

CallStates ==
  [at : Places, op : {"none", "send", "recv"}, sock : Socks \cup {0}, call : Nat, start : Nat]

KernelType ==
  /\ load \in Workloads
  /\ mode \in {"new", "tc", "kprobe", "failed"}
  /\ ring \in 0..RingCap
  /\ calls \in 0..load.calls
  /\ thread \in [Threads -> CallStates]
  /\ DOMAIN pending_io \subseteq Threads
  /\ DOMAIN app_delay_recv_sock \subseteq Threads
  /\ \A t \in DOMAIN app_delay_recv_sock : app_delay_recv_sock[t] \in Socks
  /\ stats \in [seen : Nat, emitted : Nat, full : Nat, skipped : Nat]
  /\ lost \in Nat
  /\ bytesOf \in [Calls -> Nat]
  /\ credit \in [Calls -> Nat]
  /\ samples \in [Calls -> Nat]

\* The programs that can be attached together.
LinksInv ==
  /\ mode \in {"new", "failed"} => links = {}
  /\ mode = "tc" => links \subseteq {"tc_ingress", "tc_egress"} \cup tcpMetricAttachments
  /\ mode = "kprobe" => /\ links \subseteq connectionAttachments \cup tcpMetricAttachments
                        /\ links = {} \/ connectionAttachments \subseteq links

\* A call belongs to one thread, and nothing is known of calls that were not made.
CallInv ==
  /\ \A t \in Threads : thread[t].at # "user" =>
       /\ mode \in {"tc", "kprobe"}
       /\ t \in load.threads
       /\ thread[t].call \in 1..calls
       /\ thread[t].op \in {"send", "recv"}
  /\ \A t, u \in Threads : thread[t].at # "user" /\ thread[u].at # "user" /\ t # u =>
       thread[t].call # thread[u].call
  /\ \A c \in Calls : c > calls => bytesOf[c] = 0 /\ samples[c] = 0

\* The bytes of a call are not counted before its packet, or, with the socket probes,
\* before it returns.
BytesInv ==
  /\ \A c \in Calls : bytesOf[c] <= 1
  /\ \A t \in Threads :
       thread[t].at \in Early \/ (thread[t].at = "return" /\ mode = "kprobe") =>
         bytesOf[thread[t].call] = 0

\* While the return probes are attached, an entry of pending_io is of the call its thread
\* is in.
MetadataInv ==
  /\ \A c \in Calls : credit[c] \in {0, c}
  /\ mode = "new" => DOMAIN pending_io = {}
  /\ mode = "kprobe" /\ connectionAttachments \subseteq links =>
       \A t \in DOMAIN pending_io : /\ thread[t].at \in Early \cup {"return"}
                                    /\ pending_io[t] = thread[t].call

\* Threads that have looked up the start of call c and not yet measured it.
Takers(c) == {t \in load.threads : thread[t].at = "taking" /\ thread[t].start = c}

\* A request is in app_delay_start once at most, not before it is marked and not after it
\* was measured.
DelayInv ==
  /\ \A s \in DOMAIN app_delay_start :
       app_delay_start[s] \in 1..calls /\ samples[app_delay_start[s]] = 0
  /\ \A s, r \in DOMAIN app_delay_start : app_delay_start[s] = app_delay_start[r] => s = r
  /\ \A t \in Threads : thread[t].at = "taking" =>
       /\ thread[t].start \in 1..calls
       /\ \A s \in DOMAIN app_delay_start :
            app_delay_start[s] = thread[t].start => s = thread[t].sock
  /\ \A t \in Threads : thread[t].at \in {"mark", "marking"} =>
       /\ \A s \in DOMAIN app_delay_start : app_delay_start[s] # thread[t].call
       /\ \A u \in Threads : thread[u].at = "taking" => thread[u].start # thread[t].call
       /\ samples[thread[t].call] = 0
  /\ \A c \in Calls : samples[c] + Cardinality(Takers(c)) <= Cardinality(load.threads)

LossInv ==
  /\ mode = "new" => lost = 0 /\ stats = [seen |-> 0, emitted |-> 0, full |-> 0, skipped |-> 0]
  /\ LossIsCounted

KernelInv ==
  KernelType /\ LinksInv /\ CallInv /\ BytesInv /\ MetadataInv /\ DelayInv /\ LossInv

-----------------------------------------------------------------------------
(* The maps and the counters.                                              *)

\* An update of an LRU map stores the value, and every other entry is an old one.
LEMMA LRUFacts ==
  ASSUME NEW map, NEW key, NEW value, NEW m \in LRUUpdate(map, key, value)
  PROVE  /\ key \in DOMAIN m
         /\ m[key] = value
         /\ \A k \in DOMAIN m : k # key => k \in DOMAIN map /\ m[k] = map[k]
<1>1. PICK K \in SUBSET DOMAIN map : m = [k \in K \cup {key} |-> IF k = key THEN value ELSE map[k]]
  BY DEF LRUUpdate
<1> QED
  BY <1>1

\* What count_capture_stat makes of the counters.
LEMMA CountFacts ==
  ASSUME NEW st \in [seen : Nat, emitted : Nat, full : Nat, skipped : Nat],
         NEW key \in {"seen", "emitted", "full", "skipped"}, NEW happened \in BOOLEAN
  PROVE  LET n == count_capture_stat(st, key, happened) IN
         /\ n \in [seen : Nat, emitted : Nat, full : Nat, skipped : Nat]
         /\ \A f \in {"seen", "emitted", "full", "skipped"} :
              n[f] = IF happened /\ f = key THEN st[f] + 1 ELSE st[f]
BY DEF count_capture_stat

\* The workload of a behaviour is one of the assumed ones.
LEMMA LoadFacts ==
  ASSUME KernelType
  PROVE  /\ load.threads \subseteq Threads /\ IsFiniteSet(load.threads)
         /\ load.calls \in Nat
         /\ load.optional \subseteq tcpMetricAttachments
         /\ Cardinality(load.threads) \in Nat
BY WorkloadsAssumption, FS_CardinalityType DEF KernelType

\* A thread that has left the kernel is in its program.
LEMMA UserFacts == User.at = "user"
BY DEF User

\* The calls made are calls of the workload.
LEMMA CallsFacts ==
  ASSUME KernelType
  PROVE  calls \in Nat /\ 1..calls \subseteq Calls
BY LoadFacts DEF KernelType, Calls

\* The receivers that have looked up a start are some of the threads.
LEMMA TakersFacts ==
  ASSUME KernelType, NEW c
  PROVE  /\ IsFiniteSet(Takers(c))
         /\ Cardinality(Takers(c)) \in Nat
         /\ Cardinality(Takers(c)) <= Cardinality(load.threads)
<1>1. Takers(c) \subseteq load.threads
  BY DEF Takers
<1> QED
  BY <1>1, LoadFacts, FS_Subset, FS_CardinalityType

-----------------------------------------------------------------------------
(* The kernel invariant holds initially and is kept by every step.         *)

\* Before NewEBPF nothing is attached, in a map or counted.
LEMMA KernelInitially == CaptureInit => KernelInv
<1> SUFFICES ASSUME CaptureInit PROVE KernelInv
  OBVIOUS
<1>1. KernelType
  BY CaptureAssumption, WorkloadsAssumption DEF CaptureInit, KernelType, User, Places, CallStates, Calls
<1>2. LinksInv /\ CallInv /\ BytesInv /\ MetadataInv
  BY DEF CaptureInit, LinksInv, CallInv, BytesInv, MetadataInv, User, Early, Calls
<1>3. DelayInv
  BY <1>1, TakersFacts, LoadFacts DEF CaptureInit, DelayInv, User, Calls, KernelType
<1>4. LossInv
  BY DEF CaptureInit, LossInv, LossIsCounted
<1> QED
  BY <1>1, <1>2, <1>3, <1>4 DEF KernelInv

\* The attachment of the programs: TC or socket probes, never both.
LEMMA KernelNewEBPF ==
  ASSUME KernelInv, NEW option \in {"auto", "tc", "kprobe"},
         NEW tcx \in {"attached", "no_ingress", "no_egress"}, NEW ready \in BOOLEAN,
         NewEBPF(option, tcx, load.optional, ready)
  PROVE  KernelInv'
<1> USE DEF KernelInv
<1>1. KernelType' /\ Calls' = Calls
  BY DEF NewEBPF, KernelType, Calls, maps, history
<1>2. LinksInv'
  BY LoadFacts DEF NewEBPF, LinksInv, attachTCX, KernelType, connectionAttachments, tcpMetricAttachments
<1>3. CallInv'
  BY <1>1 DEF NewEBPF, CallInv, maps, history
<1>4. mode = "new" /\ mode' # "new" /\ \A t \in Threads : thread[t].at = "user"
  BY DEF NewEBPF, CallInv
<1>5. BytesInv' /\ MetadataInv'
  BY <1>1, <1>4 DEF NewEBPF, BytesInv, MetadataInv, maps, history, Early
<1>6. DelayInv'
  BY <1>1 DEF NewEBPF, DelayInv, Takers, maps, history
<1>7. LossInv'
  BY <1>4 DEF NewEBPF, LossInv, LossIsCounted, history
<1> QED
  BY <1>1, <1>2, <1>3, <1>5, <1>6, <1>7

\* A connection record changes no map and no call under way.
LEMMA KernelConnect ==
  ASSUME KernelInv, NEW t \in Threads, Connect(t)
  PROVE  KernelInv'
<1> USE DEF KernelInv
<1>1. KernelType' /\ Calls' = Calls /\ calls' = calls + 1 /\ calls \in Nat
  <2>1. calls' = calls + 1 /\ calls \in Nat /\ calls' \in 0..load.calls /\ load' = load
    BY LoadFacts DEF Connect, KernelType, attachment
  <2>2. ring' \in 0..RingCap /\ lost' \in Nat
    BY CaptureAssumption DEF Connect, KernelType, Room
  <2> QED
    BY <2>1, <2>2 DEF Connect, KernelType, Calls, maps, attachment
<1>2. LinksInv' /\ BytesInv' /\ MetadataInv'
  BY <1>1 DEF Connect, LinksInv, BytesInv, MetadataInv, maps, attachment
<1>3. CallInv'
  BY <1>1 DEF Connect, CallInv, maps, attachment, KernelType, Calls
<1>4. DelayInv'
  BY <1>1 DEF Connect, DelayInv, Takers, maps, attachment, KernelType
<1>5. LossInv'
  BY <1>1 DEF Connect, LossInv, LossIsCounted, attachment, LinksInv, tcpMetricAttachments
<1> QED
  BY <1>1, <1>2, <1>3, <1>4, <1>5

\* A call gets a number of its own, and the entry probe remembers it under its thread.
LEMMA KernelEnter ==
  ASSUME KernelInv, NEW t \in Threads, NEW op \in {"send", "recv"}, NEW s \in Socks, Enter(t, op, s)
  PROVE  KernelInv'
<1> USE DEF KernelInv
<1>1. calls \in Nat /\ calls' = calls + 1 /\ Calls' = Calls /\ calls' \in Calls
  BY LoadFacts, SMTT(20) DEF Enter, KernelType, Calls, attachment
<1>2. /\ thread'[t].at \in {"mark", "io"} /\ thread'[t].op = op /\ thread'[t].sock = s
      /\ thread'[t].call = calls + 1 /\ thread'[t].start = 0
      /\ \A u \in Threads : u # t => thread'[u] = thread[u]
      /\ thread[t].at = "user" /\ t \in load.threads /\ mode \in {"tc", "kprobe"}
  BY DEF Enter, KernelType, CallStates
<1>3. /\ pending_io' = pending_io \/ pending_io' \in LRUUpdate(pending_io, t, calls + 1)
      /\ op \in links => pending_io' \in LRUUpdate(pending_io, t, calls + 1)
      /\ \/ app_delay_recv_sock' = app_delay_recv_sock
         \/ app_delay_recv_sock' \in LRUUpdate(app_delay_recv_sock, t, s)
  BY DEF Enter, Key
<1>4. KernelType'
  <2>1. DOMAIN pending_io' \subseteq Threads
    BY <1>3, LRUFacts DEF KernelType
  <2>2. DOMAIN app_delay_recv_sock' \subseteq Threads
    BY <1>3, LRUFacts DEF KernelType
  <2>3. \A u \in DOMAIN app_delay_recv_sock' : app_delay_recv_sock'[u] \in Socks
    BY <1>3, LRUFacts DEF KernelType
  <2>4. thread' \in [Threads -> CallStates]
    BY <1>1 DEF Enter, KernelType, Places, CallStates
  <2>5. UNCHANGED <<load, mode, ring, stats, lost, bytesOf, credit, samples>>
    BY Zenon DEF Enter, attachment, history
  <2>6. calls' \in 0..load.calls
    BY LoadFacts DEF Enter, KernelType
  <2> QED
    BY <1>1, <2>1, <2>2, <2>3, <2>4, <2>5, <2>6, Zenon DEF KernelType
<1>5. LinksInv'
  BY DEF Enter, LinksInv, attachment
<1>6. CallInv'
  <2>1. \A u \in Threads : u # t /\ thread[u].at # "user" => thread[u].call <= calls
    BY <1>1 DEF CallInv
  <2> QED
    BY <1>1, <1>2, <2>1, SMTT(20) DEF Enter, CallInv, attachment, history, KernelType, Calls
<1>7. BytesInv'
  BY <1>1, <1>2 DEF Enter, BytesInv, CallInv, attachment, history, KernelType, Early, Calls
<1>8. MetadataInv'
  <2>1. \A c \in Calls' : credit'[c] \in {0, c}
    BY <1>1 DEF Enter, MetadataInv, history
  <2>2. ASSUME mode' = "kprobe", connectionAttachments \subseteq links', NEW u \in DOMAIN pending_io'
        PROVE  thread'[u].at \in Early \cup {"return"} /\ pending_io'[u] = thread'[u].call
    <3>1. links' = links /\ mode' = mode
      BY DEF Enter, attachment
    <3>2. op \in links
      BY <2>2, <3>1 DEF connectionAttachments
    <3>3. pending_io' \in LRUUpdate(pending_io, t, calls + 1)
      BY <1>3, <3>2
    <3>4. CASE u = t
      BY <3>3, <3>4, <1>2, LRUFacts DEF Early
    <3>5. CASE u # t
      <4>1. u \in DOMAIN pending_io /\ pending_io'[u] = pending_io[u] /\ u \in Threads
        BY <3>3, <3>5, LRUFacts DEF KernelType
      <4> QED
        BY <4>1, <2>2, <3>1, <3>5, <1>2 DEF MetadataInv
    <3> QED
      BY <3>4, <3>5
  <2> QED
    BY <1>2, <2>1, <2>2 DEF MetadataInv, Enter, attachment
<1>9. DelayInv'
  <2>1. app_delay_start' = app_delay_start /\ samples' = samples /\ load' = load
    BY DEF Enter, attachment, history
  <2>2. \A u \in Threads : (thread[u].at = "taking" <=> thread'[u].at = "taking")
    BY <1>2
  <2>3. \A c : Takers(c)' = Takers(c)
    BY <1>2, <2>1, LoadFacts DEF Takers
  <2>4. \A r \in DOMAIN app_delay_start : app_delay_start[r] \in 1..calls
    BY DEF DelayInv
  <2>5. \A u \in Threads : thread[u].at = "taking" => thread[u].start \in 1..calls
    BY DEF DelayInv
  <2>6. samples[calls + 1] = 0
    BY <1>1 DEF CallInv
  <2> QED
    BY <1>1, <1>2, <2>1, <2>3, <2>4, <2>5, <2>6, SMTT(20) DEF DelayInv
<1>10. LossInv'
  BY DEF Enter, LossInv, LossIsCounted, attachment, history
<1> QED
  BY <1>4, <1>5, <1>6, <1>7, <1>8, <1>9, <1>10

\* What a step that only moves a thread on keeps: its call and all other threads.
LEMMA GotoFacts ==
  ASSUME KernelType, NEW t \in Threads, NEW place \in Places, Goto(t, place)
  PROVE  /\ thread' \in [Threads -> CallStates]
         /\ thread'[t].at = place
         /\ \A u \in Threads : /\ u # t => thread'[u] = thread[u]
                               /\ thread'[u].op = thread[u].op /\ thread'[u].sock = thread[u].sock
                               /\ thread'[u].call = thread[u].call /\ thread'[u].start = thread[u].start
BY DEF Goto, KernelType, CallStates

\* A step that touches neither a request nor a receiver that measures one keeps DelayInv.
LEMMA DelayFrame ==
  ASSUME DelayInv, UNCHANGED <<load, calls, app_delay_start, samples>>, Calls' = Calls,
         \A u \in Threads :
           /\ thread'[u].sock = thread[u].sock /\ thread'[u].call = thread[u].call
           /\ thread'[u].start = thread[u].start
           /\ thread'[u].at = "taking" => thread[u].at = "taking"
           /\ thread'[u].at \in {"mark", "marking"} => thread[u].at \in {"mark", "marking"},
         \A c : Takers(c)' = Takers(c)
  PROVE  DelayInv'
<1>1. \A u \in Threads : thread'[u].at = "taking" =>
        /\ thread'[u].start \in 1..calls'
        /\ \A s \in DOMAIN app_delay_start' :
             app_delay_start'[s] = thread'[u].start => s = thread'[u].sock
  BY Zenon DEF DelayInv
<1>2. \A u \in Threads : thread'[u].at \in {"mark", "marking"} =>
        /\ \A s \in DOMAIN app_delay_start' : app_delay_start'[s] # thread'[u].call
        /\ \A w \in Threads : thread'[w].at = "taking" => thread'[w].start # thread'[u].call
        /\ samples'[thread'[u].call] = 0
  BY DEF DelayInv
<1> QED
  BY <1>1, <1>2, Zenon DEF DelayInv

\* The lookup of mark_request_sent changes nothing but the place of the thread.
LEMMA KernelMarkLookup ==
  ASSUME KernelInv, NEW t \in Threads, MarkLookup(t)
  PROVE  KernelInv'
<1> USE DEF KernelInv
<1> DEFINE place == IF thread[t].sock \in DOMAIN app_delay_start THEN "io" ELSE "marking"
<1>1. place \in Places /\ Goto(t, place) /\ place \in {"io", "marking"} /\ thread[t].at = "mark"
  BY DEF MarkLookup, Places
<1> HIDE DEF place
<1>2. /\ thread' \in [Threads -> CallStates]
      /\ thread'[t].at = place
      /\ \A u \in Threads : /\ u # t => thread'[u] = thread[u]
                            /\ thread'[u].op = thread[u].op /\ thread'[u].sock = thread[u].sock
                            /\ thread'[u].call = thread[u].call /\ thread'[u].start = thread[u].start
  BY <1>1, GotoFacts
<1>3. /\ UNCHANGED <<load, mode, links, pending_io, app_delay_start, app_delay_recv_sock, ring, stats,
                     calls, bytesOf, credit, samples, lost>>
      /\ Calls' = Calls
  BY DEF MarkLookup, attachment, maps, history, Calls
<1>4. KernelType' /\ LinksInv' /\ LossInv'
  BY <1>2, <1>3 DEF KernelType, LinksInv, LossInv, LossIsCounted
<1>5. CallInv'
  BY <1>1, <1>2, <1>3, SMTT(20) DEF CallInv
<1>6. BytesInv'
  BY <1>1, <1>2, <1>3 DEF BytesInv, Early
<1>7. MetadataInv'
  BY <1>1, <1>2, <1>3, ZenonT(30) DEF MetadataInv, Early, KernelType
<1>8. \A c : Takers(c)' = Takers(c)
  BY <1>1, <1>2, <1>3, LoadFacts, SMTT(20) DEF Takers
<1>9. DelayInv'
  <2>1. \A u \in Threads :
          /\ thread'[u].at = "taking" => thread[u].at = "taking"
          /\ thread'[u].at \in {"mark", "marking"} => thread[u].at \in {"mark", "marking"}
    BY <1>1, <1>2
  <2>2. \A u \in Threads :
          /\ thread'[u].sock = thread[u].sock /\ thread'[u].call = thread[u].call
          /\ thread'[u].start = thread[u].start
    BY <1>2, Zenon
  <2>3. UNCHANGED <<load, calls, app_delay_start, samples>> /\ Calls' = Calls
    BY <1>3
  <2> QED
    BY <2>1, <2>2, <2>3, <1>8, DelayFrame, SMTT(20)
<1> QED
  BY <1>4, <1>5, <1>6, <1>7, <1>9

\* The update of mark_request_sent enters a request that no map entry, receiver or sample
\* knows.
LEMMA KernelMarkUpdate ==
  ASSUME KernelInv, NEW t \in Threads, MarkUpdate(t)
  PROVE  KernelInv'
<1> USE DEF KernelInv
<1>1. "io" \in Places /\ Goto(t, "io") /\ thread[t].at = "marking"
  BY DEF MarkUpdate, Places
<1>2. /\ thread' \in [Threads -> CallStates]
      /\ thread'[t].at = "io"
      /\ \A u \in Threads : /\ u # t => thread'[u] = thread[u]
                            /\ thread'[u].op = thread[u].op /\ thread'[u].sock = thread[u].sock
                            /\ thread'[u].call = thread[u].call /\ thread'[u].start = thread[u].start
  BY <1>1, GotoFacts
<1>3. /\ UNCHANGED <<load, mode, links, pending_io, app_delay_recv_sock, ring, stats,
                     calls, bytesOf, credit, samples, lost>>
      /\ Calls' = Calls
  BY DEF MarkUpdate, attachment, history, Calls
<1>4. KernelType' /\ LinksInv' /\ LossInv'
  BY <1>2, <1>3 DEF KernelType, LinksInv, LossInv, LossIsCounted
<1>5. CallInv'
  BY <1>1, <1>2, <1>3, SMTT(20) DEF CallInv
<1>6. BytesInv'
  BY <1>1, <1>2, <1>3 DEF BytesInv, Early
<1>7. MetadataInv'
  BY <1>1, <1>2, <1>3, ZenonT(30) DEF MetadataInv, Early, KernelType
<1>8. \A c : Takers(c)' = Takers(c)
  BY <1>1, <1>2, <1>3, LoadFacts, SMTT(20) DEF Takers
<1>9. DelayInv'
  <2> DEFINE c == thread[t].call
             sock == thread[t].sock
  <2>1. c \in 1..calls /\ samples[c] = 0
    BY <1>1, Zenon DEF DelayInv, CallInv
  <2>2. /\ sock \in DOMAIN app_delay_start' /\ app_delay_start'[sock] = c
        /\ \A s \in DOMAIN app_delay_start' : s # sock =>
             s \in DOMAIN app_delay_start /\ app_delay_start'[s] = app_delay_start[s]
    BY LRUFacts DEF MarkUpdate
  <2>3. /\ \A s \in DOMAIN app_delay_start : app_delay_start[s] # c
        /\ \A u \in Threads : thread[u].at = "taking" => thread[u].start # c
    BY <1>1 DEF DelayInv
  <2>4. \A u \in Threads : u # t /\ thread[u].at \in {"mark", "marking"} => thread[u].call # c
    BY <1>1 DEF CallInv
  <2> HIDE DEF c, sock
  <2>5. /\ \A s \in DOMAIN app_delay_start' :
             app_delay_start'[s] \in 1..calls /\ samples[app_delay_start'[s]] = 0
        /\ \A s, r \in DOMAIN app_delay_start' : app_delay_start'[s] = app_delay_start'[r] => s = r
    BY <2>1, <2>2, <2>3 DEF DelayInv
  <2>6. \A u \in Threads : thread'[u].at = "taking" =>
          /\ thread'[u].start \in 1..calls
          /\ \A s \in DOMAIN app_delay_start' :
               app_delay_start'[s] = thread'[u].start => s = thread'[u].sock
    BY <1>2, <2>2, <2>3 DEF DelayInv
  <2>7. \A u \in Threads : thread'[u].at \in {"mark", "marking"} =>
          /\ \A s \in DOMAIN app_delay_start' : app_delay_start'[s] # thread'[u].call
          /\ \A w \in Threads : thread'[w].at = "taking" => thread'[w].start # thread'[u].call
          /\ samples[thread'[u].call] = 0
    BY <1>2, <2>2, <2>4 DEF DelayInv
  <2> QED
    BY <1>3, <1>8, <2>5, <2>6, <2>7, Zenon DEF DelayInv
<1> QED
  BY <1>4, <1>5, <1>6, <1>7, <1>9

\* The packet of a call: the TC hook counts its bytes if it is attached, and then the
\* socket probes are not.
LEMMA KernelPacket ==
  ASSUME KernelInv, NEW t \in Threads, NEW parsed \in BOOLEAN, Packet(t, parsed)
  PROVE  KernelInv'
<1> USE DEF KernelInv
<1> DEFINE hooked == (IF thread[t].op = "send" THEN "tc_egress" ELSE "tc_ingress") \in links
           emits  == hooked /\ parsed /\ Room
           full   == hooked /\ parsed /\ ~Room
           outcome == CASE emits -> "emitted" [] full -> "full" [] OTHER -> "skipped"
           c == thread[t].call
<1>1. "return" \in Places /\ Goto(t, "return") /\ thread[t].at = "io"
  BY DEF Packet, Places
<1>2. /\ thread' \in [Threads -> CallStates]
      /\ thread'[t].at = "return"
      /\ \A u \in Threads : /\ u # t => thread'[u] = thread[u]
                            /\ thread'[u].op = thread[u].op /\ thread'[u].sock = thread[u].sock
                            /\ thread'[u].call = thread[u].call /\ thread'[u].start = thread[u].start
  BY <1>1, GotoFacts
<1>3. /\ UNCHANGED <<load, mode, links, pending_io, app_delay_start, app_delay_recv_sock, calls, credit,
                     samples>>
      /\ Calls' = Calls
  BY DEF Packet, attachment, maps, Calls
<1>4. /\ ring' = ring + (IF emits THEN 1 ELSE 0)
      /\ bytesOf' = [bytesOf EXCEPT ![c] = @ + (IF emits THEN 1 ELSE 0)]
      /\ lost' = lost + (IF full THEN 1 ELSE 0)
      /\ stats' = count_capture_stat(count_capture_stat(stats, "seen", hooked), outcome, hooked)
  BY DEF Packet
<1>5. c \in 1..calls /\ c \in Calls /\ mode \in {"tc", "kprobe"}
  BY <1>1, CallsFacts, Zenon DEF CallInv
<1>6. hooked => mode = "tc"
  BY <1>5 DEF LinksInv, connectionAttachments, tcpMetricAttachments
<1>7. /\ stats' \in [seen : Nat, emitted : Nat, full : Nat, skipped : Nat]
      /\ stats'.seen = IF hooked THEN stats.seen + 1 ELSE stats.seen
      /\ stats'.emitted = IF emits THEN stats.emitted + 1 ELSE stats.emitted
      /\ stats'.full = IF full THEN stats.full + 1 ELSE stats.full
      /\ stats'.skipped = IF hooked /\ ~emits /\ ~full THEN stats.skipped + 1 ELSE stats.skipped
  <2> DEFINE st == count_capture_stat(stats, "seen", hooked)
  <2>1. outcome \in {"emitted", "full", "skipped"}
    OBVIOUS
  <2>2. /\ emits <=> hooked /\ outcome = "emitted"
        /\ full <=> hooked /\ outcome = "full"
        /\ (hooked /\ ~emits /\ ~full) <=> (hooked /\ outcome = "skipped")
    OBVIOUS
  <2>3. hooked \in BOOLEAN /\ stats \in [seen : Nat, emitted : Nat, full : Nat, skipped : Nat]
    BY DEF KernelType
  <2> HIDE DEF hooked, emits, full, outcome
  <2>4. /\ st \in [seen : Nat, emitted : Nat, full : Nat, skipped : Nat]
        /\ \A f \in {"seen", "emitted", "full", "skipped"} :
             st[f] = IF hooked /\ f = "seen" THEN stats[f] + 1 ELSE stats[f]
    <3> DEFINE Counters == [seen : Nat, emitted : Nat, full : Nat, skipped : Nat]
               Keys == {"seen", "emitted", "full", "skipped"}
    <3>1. "seen" \in Keys
      OBVIOUS
    <3>2. \A n \in Counters, key \in Keys, b \in BOOLEAN :
            /\ count_capture_stat(n, key, b) \in Counters
            /\ \A f \in Keys :
                 count_capture_stat(n, key, b)[f] = IF b /\ f = key THEN n[f] + 1 ELSE n[f]
      BY CountFacts, Zenon
    <3> HIDE DEF Counters, Keys
    <3>3. st \in Counters /\ \A f \in Keys : st[f] = IF hooked /\ f = "seen" THEN stats[f] + 1 ELSE stats[f]
      BY <2>3, <3>1, <3>2, Zenon DEF Counters
    <3> QED
      BY <3>3, Zenon DEF Counters, Keys
  <2> HIDE DEF st
  <2>5. stats' = count_capture_stat(st, outcome, hooked)
    BY <1>4 DEF st
  <2>6. /\ stats' \in [seen : Nat, emitted : Nat, full : Nat, skipped : Nat]
        /\ \A f \in {"seen", "emitted", "full", "skipped"} :
             stats'[f] = IF hooked /\ f = outcome THEN st[f] + 1 ELSE st[f]
    <3>1. outcome \in {"seen", "emitted", "full", "skipped"} /\ hooked \in BOOLEAN
      BY <2>1, <2>3
    <3>2. st \in [seen : Nat, emitted : Nat, full : Nat, skipped : Nat]
      BY <2>4
    <3>3. /\ count_capture_stat(st, outcome, hooked) \in [seen : Nat, emitted : Nat, full : Nat, skipped : Nat]
          /\ \A f \in {"seen", "emitted", "full", "skipped"} :
               count_capture_stat(st, outcome, hooked)[f] = IF hooked /\ f = outcome THEN st[f] + 1 ELSE st[f]
      BY <3>1, <3>2 DEF count_capture_stat
    <3> QED
      BY <3>3, <2>5
  <2>7. /\ stats'["seen"] = IF hooked THEN stats["seen"] + 1 ELSE stats["seen"]
        /\ stats'["emitted"] = IF emits THEN stats["emitted"] + 1 ELSE stats["emitted"]
        /\ stats'["full"] = IF full THEN stats["full"] + 1 ELSE stats["full"]
        /\ stats'["skipped"] = IF hooked /\ ~emits /\ ~full THEN stats["skipped"] + 1 ELSE stats["skipped"]
    <3>1. CASE hooked
      BY <3>1, <2>1, <2>2, <2>4, <2>6
    <3>2. CASE ~hooked
      BY <3>2, <2>1, <2>2, <2>4, <2>6
    <3> QED
      BY <3>1, <3>2
  <2> QED
    BY <2>3, <2>6, <2>7
<1>8. emits => Room
  OBVIOUS
<1>9. (emits => hooked) /\ (full => hooked) /\ ~(emits /\ full)
  OBVIOUS
<1> HIDE DEF hooked, emits, full, outcome
<1>10. KernelType'
  <2>1. ring' \in 0..RingCap /\ lost' \in Nat
    BY <1>4, <1>8, CaptureAssumption DEF KernelType, Room
  <2>2. bytesOf' \in [Calls -> Nat]
    BY <1>4, <1>5 DEF KernelType
  <2> QED
    BY <1>2, <1>3, <1>7, <2>1, <2>2, SMTT(20) DEF KernelType
<1>11. LinksInv'
  BY <1>3 DEF LinksInv
<1>12. CallInv'
  <2>1. \A d \in Calls : d > calls => bytesOf'[d] = bytesOf[d]
    BY <1>4, <1>5 DEF KernelType
  <2> QED
    BY <1>1, <1>2, <1>3, <2>1, SMTT(20) DEF CallInv
<1>13. BytesInv'
  <2>1. bytesOf[c] = 0 /\ bytesOf'[c] \in {0, 1} /\ (mode = "kprobe" => bytesOf'[c] = 0)
    BY <1>1, <1>4, <1>5, <1>6, <1>9, SMTT(20) DEF BytesInv, Early, KernelType
  <2>2. \A d \in Calls : d # c => bytesOf'[d] = bytesOf[d]
    BY <1>4 DEF KernelType
  <2>3. \A u \in Threads : u # t /\ thread[u].at # "user" => thread[u].call # c /\ thread[u].call \in Calls
    BY <1>1, CallsFacts, Zenon DEF CallInv
  <2>4. \A d \in Calls : bytesOf'[d] <= 1
    BY <2>1, <2>2 DEF BytesInv
  <2> HIDE DEF c
  <2>5. ASSUME NEW u \in Threads,
               thread'[u].at \in Early \/ (thread'[u].at = "return" /\ mode = "kprobe")
        PROVE  bytesOf'[thread'[u].call] = 0
    <3>1. CASE u = t
      BY <3>1, <2>5, <2>1, <1>2, Zenon DEF Early, c
    <3>2. CASE u # t
      <4>1. thread'[u] = thread[u] /\ thread[u].at # "user"
        BY <3>2, <2>5, <1>2 DEF Early
      <4> QED
        BY <4>1, <3>2, <2>5, <2>2, <2>3, Zenon DEF BytesInv
    <3> QED
      BY <3>1, <3>2
  <2> QED
    BY <1>3, <2>4, <2>5 DEF BytesInv
<1>14. MetadataInv'
  BY <1>1, <1>2, <1>3, ZenonT(30) DEF MetadataInv, Early, KernelType
<1>15. \A d : Takers(d)' = Takers(d)
  BY <1>1, <1>2, <1>3, LoadFacts DEF Takers
<1>16. DelayInv'
  <2>1. \A u \in Threads :
          /\ thread'[u].at = "taking" => thread[u].at = "taking"
          /\ thread'[u].at \in {"mark", "marking"} => thread[u].at \in {"mark", "marking"}
    BY <1>1, <1>2
  <2>2. \A u \in Threads :
          /\ thread'[u].sock = thread[u].sock /\ thread'[u].call = thread[u].call
          /\ thread'[u].start = thread[u].start
    BY <1>2, Zenon
  <2>3. UNCHANGED <<load, calls, app_delay_start, samples>> /\ Calls' = Calls
    BY <1>3
  <2> QED
    BY <2>1, <2>2, <2>3, <1>15, DelayFrame, SMTT(20)
<1>17. LossInv'
  BY <1>3, <1>4, <1>5, <1>6, <1>7, <1>9, SMTT(20) DEF LossInv, LossIsCounted, KernelType
<1> QED
  BY <1>10, <1>11, <1>12, <1>13, <1>14, <1>16, <1>17

\* The return of a call: its bytes are counted under its own metadata, and a receiver that
\* finds a start has not measured that request before.
LEMMA KernelReturn ==
  ASSUME KernelInv, NEW t \in Threads, NEW result \in {0, 1}, Return(t, result)
  PROVE  KernelInv'
<1> USE DEF KernelInv
<1> DEFINE saved == returnProbe(thread[t].op) \in links /\ t \in DOMAIN pending_io
           known == thread[t].op = "recv" /\ "delay_recv_ret" \in links /\ t \in DOMAIN app_delay_recv_sock
           s == app_delay_recv_sock[t]
           takes == known /\ result > 0 /\ s \in DOMAIN app_delay_start
           c == thread[t].call
<1>1. thread[t].at = "return" /\ c \in 1..calls /\ c \in Calls /\ t \in load.threads
      /\ mode \in {"tc", "kprobe"} /\ calls \in Nat
  BY LoadFacts DEF Return, CallInv, KernelType, Calls
<1>2. /\ UNCHANGED <<load, mode, links, app_delay_start, stats, calls, samples>>
      /\ Calls' = Calls
  BY DEF Return, attachment, Calls
<1>3. /\ thread' \in [Threads -> CallStates]
      /\ \A u \in Threads : u # t => thread'[u] = thread[u]
      /\ takes => /\ thread'[t].at = "taking" /\ thread'[t].sock = s /\ thread'[t].call = c
                  /\ thread'[t].start = app_delay_start[s] /\ thread'[t].op = thread[t].op
      /\ ~takes => thread'[t] = User
  <2>1. CASE takes
    <3>1. s \in Socks /\ app_delay_start[s] \in 1..calls
      BY <2>1, SMTT(20) DEF KernelType, DelayInv
    <3>2. thread' = [thread EXCEPT ![t] =
                       [@ EXCEPT !.at = "taking", !.sock = s, !.start = app_delay_start[s]]]
      BY <2>1 DEF Return
    <3> HIDE DEF s
    <3>3. thread[t] \in CallStates /\ app_delay_start[s] \in Nat
      BY <3>1, <1>1 DEF KernelType
    <3>4. /\ thread'[t] = [thread[t] EXCEPT !.at = "taking", !.sock = s, !.start = app_delay_start[s]]
          /\ \A u \in Threads : u # t => thread'[u] = thread[u]
      BY <3>2 DEF KernelType
    <3>5. thread'[t] \in CallStates
      BY <3>1, <3>3, <3>4, Zenon DEF CallStates, Places
    <3>6. thread' \in [Threads -> CallStates]
      BY <3>2, <3>4, <3>5 DEF KernelType
    <3> QED
      BY <2>1, <3>3, <3>4, <3>6 DEF CallStates
  <2>2. CASE ~takes
    <3>1. thread' = [thread EXCEPT ![t] = User]
      BY <2>2, Zenon DEF Return
    <3> QED
      BY <2>2, <3>1, Zenon DEF KernelType, CallStates, Places, User
  <2> QED
    BY <2>1, <2>2, Zenon
<1>4. saved => /\ mode = "kprobe" /\ connectionAttachments \subseteq links
               /\ pending_io[t] = c /\ bytesOf[c] = 0
  BY <1>1, Zenon DEF returnProbe, LinksInv, MetadataInv, BytesInv, connectionAttachments, tcpMetricAttachments
<1>5. /\ \/ saved /\ Room /\ ring' = ring + 1 /\ bytesOf' = [bytesOf EXCEPT ![c] = @ + 1]
            /\ credit' = [credit EXCEPT ![c] = c] /\ lost' = lost
         \/ UNCHANGED <<ring, bytesOf, credit>> /\ lost' \in {lost, lost + 1}
            /\ (lost' # lost => saved)
      /\ pending_io' = IF saved THEN Delete(pending_io, t) ELSE pending_io
  BY <1>4 DEF Return, FinishIO, Key
<1>6. app_delay_recv_sock' = IF known THEN Delete(app_delay_recv_sock, t) ELSE app_delay_recv_sock
  BY DEF Return
<1>7. KernelType'
  <2>1. ring' \in 0..RingCap /\ lost' \in Nat /\ bytesOf' \in [Calls -> Nat] /\ credit' \in [Calls -> Nat]
    BY <1>1, <1>5, CaptureAssumption DEF KernelType, Room
  <2>2. DOMAIN pending_io' \subseteq Threads
    BY <1>5 DEF KernelType, Delete, Restrict
  <2>3. /\ DOMAIN app_delay_recv_sock' \subseteq Threads
        /\ \A u \in DOMAIN app_delay_recv_sock' : app_delay_recv_sock'[u] \in Socks
    BY <1>6 DEF KernelType, Delete, Restrict
  <2> QED
    BY <1>2, <1>3, <2>1, <2>2, <2>3, Zenon DEF KernelType
<1>8. LinksInv'
  BY <1>2 DEF LinksInv
<1> HIDE DEF saved, known, takes, s, c
<1>9. CallInv'
  <2>1. \A d \in Calls : d > calls => bytesOf'[d] = bytesOf[d]
    BY <1>1, <1>5 DEF KernelType
  <2>2. thread'[t].at # "user" => thread'[t].op = thread[t].op /\ thread'[t].call = c
    BY <1>3 DEF User
  <2> QED
    BY <1>1, <1>2, <1>3, <2>1, <2>2, SMTT(20) DEF CallInv, c
<1>10. BytesInv'
  <2>1. \A d \in Calls : d # c => bytesOf'[d] = bytesOf[d]
    BY <1>5, Zenon DEF KernelType
  <2>2. bytesOf'[c] <= 1
    BY <1>1, <1>4, <1>5 DEF KernelType, BytesInv
  <2>3. \A u \in Threads : u # t /\ thread[u].at # "user" => thread[u].call # c /\ thread[u].call \in Calls
    BY <1>1, CallsFacts DEF CallInv, c
  <2>4. thread'[t].at \notin Early \cup {"return"}
    BY <1>3 DEF User, Early
  <2>5. \A d \in Calls : bytesOf'[d] <= 1
    BY <2>1, <2>2 DEF BytesInv
  <2>6. ASSUME NEW u \in Threads,
               thread'[u].at \in Early \/ (thread'[u].at = "return" /\ mode = "kprobe")
        PROVE  bytesOf'[thread'[u].call] = 0
    <3>1. u # t /\ thread'[u] = thread[u] /\ thread[u].at # "user"
      BY <2>4, <2>6, <1>3 DEF Early
    <3> QED
      BY <3>1, <2>6, <2>1, <2>3 DEF BytesInv
  <2> QED
    BY <1>2, <2>5, <2>6, Zenon DEF BytesInv
<1>11. MetadataInv'
  <2>1. \A d \in Calls : credit'[d] \in {0, d}
    <3>1. credit' = credit \/ credit' = [credit EXCEPT ![c] = c]
      BY <1>5, Zenon
    <3> QED
      BY <3>1, SMTT(20) DEF MetadataInv, KernelType
  <2>2. ASSUME mode = "kprobe", connectionAttachments \subseteq links, NEW u \in DOMAIN pending_io'
        PROVE  thread'[u].at \in Early \cup {"return"} /\ pending_io'[u] = thread'[u].call
    <3>1. u # t /\ u \in DOMAIN pending_io /\ pending_io'[u] = pending_io[u] /\ u \in Threads
      <4>1. returnProbe(thread[t].op) \in links
        BY <2>2 DEF returnProbe, connectionAttachments
      <4>2. CASE saved
        BY <4>2, <1>5 DEF KernelType, Delete, Restrict
      <4>3. CASE ~saved
        BY <4>1, <4>3, <1>5, Zenon DEF KernelType, saved
      <4> QED
        BY <4>2, <4>3
    <3>2. thread[u].at \in Early \cup {"return"} /\ pending_io[u] = thread[u].call
      BY <3>1, <2>2, Zenon DEF MetadataInv
    <3>3. thread'[u] = thread[u]
      BY <3>1, <1>3, Zenon
    <3> QED
      BY <3>1, <3>2, <3>3, Zenon
  <2> QED
    BY <1>1, <1>2, <2>1, <2>2, Zenon DEF MetadataInv
<1>12. DelayInv'
  <2>1. ASSUME NEW d \in Calls
        PROVE  samples[d] + Cardinality(Takers(d)') <= Cardinality(load.threads)
    <3>1. CASE takes /\ d = app_delay_start[s]
      <4>1. samples[d] = 0
        BY <3>1, Zenon DEF DelayInv, takes
      <4> QED
        <5>1. Takers(d)' \subseteq load.threads
          BY <1>2 DEF Takers
        <5>2. Cardinality(Takers(d)') <= Cardinality(load.threads) /\ Cardinality(Takers(d)') \in Nat
          BY <5>1, LoadFacts, FS_Subset, FS_CardinalityType, Zenon
        <5> QED
          BY <4>1, <5>2
    <3>2. CASE ~(takes /\ d = app_delay_start[s])
      <4>1. Takers(d)' = Takers(d)
        BY <3>2, <1>1, <1>2, <1>3, LoadFacts, SMTT(20) DEF Takers, User
      <4> QED
        BY <4>1, Zenon DEF DelayInv
    <3> QED
      BY <3>1, <3>2, Zenon
  <2>2. takes => /\ s \in DOMAIN app_delay_start /\ app_delay_start[s] \in 1..calls
                 /\ \A r \in DOMAIN app_delay_start : app_delay_start[r] = app_delay_start[s] => r = s
    BY Zenon DEF DelayInv, takes
  <2>3. \A u \in Threads : thread'[u].at = "taking" =>
          /\ thread'[u].start \in 1..calls
          /\ \A r \in DOMAIN app_delay_start :
               app_delay_start[r] = thread'[u].start => r = thread'[u].sock
    <3>1. ASSUME NEW u \in Threads, u # t, thread'[u].at = "taking"
          PROVE  thread[u].at = "taking" /\ thread'[u] = thread[u]
      BY <3>1, <1>3, SMTT(20)
    <3>2. thread'[t].at = "taking" =>
            takes /\ thread'[t].start = app_delay_start[s] /\ thread'[t].sock = s
      <4>1. ~takes => thread'[t].at = "user"
        BY <1>3, UserFacts, Zenon
      <4> QED
        BY <1>3, <4>1, Zenon
    <3>3. ASSUME NEW u \in Threads, thread'[u].at = "taking", u # t
          PROVE  /\ thread'[u].start \in 1..calls
                 /\ \A r \in DOMAIN app_delay_start :
                      app_delay_start[r] = thread'[u].start => r = thread'[u].sock
      BY <3>1, <3>3, Zenon DEF DelayInv
    <3>4. thread'[t].at = "taking" =>
            /\ thread'[t].start \in 1..calls
            /\ \A r \in DOMAIN app_delay_start :
                 app_delay_start[r] = thread'[t].start => r = thread'[t].sock
      BY <2>2, <3>2, Zenon
    <3> QED
      BY <3>3, <3>4, Zenon
  <2>4. ASSUME NEW u \in Threads, thread'[u].at \in {"mark", "marking"}
        PROVE  /\ thread'[u] = thread[u]
               /\ \A w \in Threads : thread'[w].at = "taking" => thread'[w].start # thread[u].call
    <3>1. thread'[t].at \in {"taking", "user"}
      BY <1>3, UserFacts, Zenon
    <3>2. u # t /\ thread'[u] = thread[u]
      BY <2>4, <3>1, <1>3
    <3>3. /\ \A r \in DOMAIN app_delay_start : app_delay_start[r] # thread[u].call
          /\ \A w \in Threads : thread[w].at = "taking" => thread[w].start # thread[u].call
      BY <2>4, <3>2, Zenon DEF DelayInv
    <3>4. thread'[t].at = "taking" => thread'[t].start # thread[u].call
      <4>1. ~takes => thread'[t].at = "user"
        BY <1>3, UserFacts, Zenon
      <4>2. takes => s \in DOMAIN app_delay_start /\ thread'[t].start = app_delay_start[s]
        BY <1>3, <2>2, Zenon
      <4>3. "taking" # "user"
        OBVIOUS
      <4> QED
        BY <3>3, <4>1, <4>2, <4>3, Zenon
    <3>5. \A w \in Threads : w # t => thread'[w] = thread[w]
      BY <1>3, Zenon
    <3> QED
      BY <3>2, <3>3, <3>4, <3>5, Zenon
  <2>5. \A u \in Threads : thread'[u].at \in {"mark", "marking"} =>
          /\ \A r \in DOMAIN app_delay_start : app_delay_start[r] # thread'[u].call
          /\ \A w \in Threads : thread'[w].at = "taking" => thread'[w].start # thread'[u].call
          /\ samples[thread'[u].call] = 0
    BY <2>4, SMTT(20) DEF DelayInv
  <2> QED
    BY <1>2, <2>1, <2>3, <2>5, Zenon DEF DelayInv
<1>13. LossInv'
  BY <1>1, <1>2, <1>4, <1>5, Zenon DEF LossInv, LossIsCounted
<1> QED
  BY <1>7, <1>8, <1>9, <1>10, <1>11, <1>12, <1>13

\* A measurement takes its request out of the map, so that the receivers still to measure
\* it are only those that had looked it up before.
LEMMA KernelTakeDelay ==
  ASSUME KernelInv, NEW t \in Threads, NEW plausible \in BOOLEAN, TakeDelay(t, plausible)
  PROVE  KernelInv'
<1> USE DEF KernelInv
<1> DEFINE c == thread[t].start
           sock == thread[t].sock
           emits == plausible /\ Room
           full  == plausible /\ ~Room
<1>1. /\ thread[t].at = "taking" /\ t \in load.threads /\ calls \in Nat
      /\ c \in 1..calls /\ c \in Calls /\ mode \in {"tc", "kprobe"}
  <2>1. thread[t].at = "taking"
    BY DEF TakeDelay
  <2> QED
    BY <2>1, CallsFacts, Zenon DEF CallInv, DelayInv
<1>2. /\ UNCHANGED <<load, mode, links, pending_io, app_delay_recv_sock, calls, bytesOf, credit>>
      /\ Calls' = Calls
  BY DEF TakeDelay, attachment, Calls
<1>3. /\ thread' \in [Threads -> CallStates]
      /\ thread'[t] = User
      /\ \A u \in Threads : u # t => thread'[u] = thread[u]
  BY Zenon DEF TakeDelay, KernelType, User, CallStates, Places
<1>4. /\ DOMAIN app_delay_start' = DOMAIN app_delay_start \ {sock}
      /\ \A s \in DOMAIN app_delay_start' : app_delay_start'[s] = app_delay_start[s]
  BY DEF TakeDelay, Delete, Restrict
<1>5. /\ ring' = IF emits THEN ring + 1 ELSE ring
      /\ samples' = IF emits THEN [samples EXCEPT ![c] = @ + 1] ELSE samples
      /\ lost' = IF full THEN lost + 1 ELSE lost
      /\ stats' = count_capture_stat(stats, "full", full)
  BY DEF TakeDelay
<1>6. /\ stats' \in [seen : Nat, emitted : Nat, full : Nat, skipped : Nat]
      /\ stats'.seen = stats.seen /\ stats'.emitted = stats.emitted /\ stats'.skipped = stats.skipped
      /\ stats'.full = IF full THEN stats.full + 1 ELSE stats.full
  BY <1>5 DEF count_capture_stat, KernelType
<1>7. \A d \in Calls : samples'[d] = IF emits /\ d = c THEN samples[d] + 1 ELSE samples[d]
  BY <1>5, Zenon DEF KernelType
<1>8. KernelType'
  <2>1. ring' \in 0..RingCap /\ lost' \in Nat
    BY <1>5, CaptureAssumption DEF KernelType, Room
  <2>2. samples' \in [Calls -> Nat]
    BY <1>1, <1>5 DEF KernelType
  <2> QED
    BY <1>2, <1>3, <1>6, <2>1, <2>2, Zenon DEF KernelType
<1>9. LinksInv'
  BY <1>2 DEF LinksInv
<1> HIDE DEF c, sock, emits, full
<1>10. CallInv'
  BY <1>1, <1>2, <1>3, <1>7, SMTT(20) DEF CallInv, User
<1>11. BytesInv'
  BY <1>2, <1>3, SMTT(20) DEF BytesInv, User, Early
<1>12. MetadataInv'
  <2>1. ASSUME mode = "kprobe", connectionAttachments \subseteq links, NEW u \in DOMAIN pending_io
        PROVE  thread'[u].at \in Early \cup {"return"} /\ pending_io[u] = thread'[u].call
    <3>1. u # t /\ u \in Threads
      BY <2>1, <1>1, SMTT(20) DEF MetadataInv, Early, KernelType
    <3> QED
      BY <2>1, <3>1, <1>3, Zenon DEF MetadataInv
  <2> QED
    BY <1>1, <1>2, <2>1, Zenon DEF MetadataInv
<1>13. DelayInv'
  <2>1. \A s \in DOMAIN app_delay_start' :
          app_delay_start'[s] \in 1..calls /\ samples'[app_delay_start'[s]] = 0
    <3> SUFFICES ASSUME NEW s \in DOMAIN app_delay_start'
                 PROVE  app_delay_start'[s] \in 1..calls /\ samples'[app_delay_start'[s]] = 0
      OBVIOUS
    <3>1. s \in DOMAIN app_delay_start /\ app_delay_start'[s] = app_delay_start[s] /\ s # sock
      BY <1>4
    <3>2. app_delay_start[s] # c
      BY <3>1, <1>1, Zenon DEF DelayInv, c, sock
    <3>3. app_delay_start[s] \in 1..calls /\ samples[app_delay_start[s]] = 0
      BY <3>1, SMTT(20) DEF DelayInv
    <3>4. app_delay_start[s] \in Calls
      BY <3>3, CallsFacts, Zenon
    <3> QED
      BY <3>1, <3>2, <3>3, <3>4, <1>7, Zenon
  <2>2. \A s, r \in DOMAIN app_delay_start' : app_delay_start'[s] = app_delay_start'[r] => s = r
    BY <1>4, Zenon DEF DelayInv
  <2>3. \A u \in Threads : thread'[u].at = "taking" =>
          /\ thread'[u].start \in 1..calls
          /\ \A s \in DOMAIN app_delay_start' :
               app_delay_start'[s] = thread'[u].start => s = thread'[u].sock
    <3>1. \A u \in Threads : thread'[u].at = "taking" => thread'[u] = thread[u]
      BY <1>3, SMTT(20) DEF User
    <3> QED
      BY <3>1, <1>4, Zenon DEF DelayInv
  <2>4. ASSUME NEW u \in Threads, thread'[u].at \in {"mark", "marking"}
        PROVE  /\ \A s \in DOMAIN app_delay_start' : app_delay_start'[s] # thread'[u].call
               /\ \A w \in Threads : thread'[w].at = "taking" => thread'[w].start # thread'[u].call
               /\ samples'[thread'[u].call] = 0
    <3>1. u # t /\ thread'[u] = thread[u]
      <4>1. thread'[t].at = "user"
        BY <1>3, UserFacts, Zenon
      <4> QED
        BY <2>4, <4>1, <1>3
    <3>2. /\ \A s \in DOMAIN app_delay_start : app_delay_start[s] # thread[u].call
          /\ \A w \in Threads : thread[w].at = "taking" => thread[w].start # thread[u].call
          /\ samples[thread[u].call] = 0
      BY <2>4, <3>1 DEF DelayInv
    <3>3. thread[u].call # c
      BY <3>2, <1>1 DEF c
    <3>4. thread[u].call \in Calls
      BY <2>4, <3>1, CallsFacts, SMTT(20) DEF CallInv
    <3>5. \A s \in DOMAIN app_delay_start' : app_delay_start'[s] # thread'[u].call
      BY <3>1, <3>2, <1>4
    <3>6. \A w \in Threads : thread'[w].at = "taking" => thread'[w] = thread[w]
      <4>1. thread'[t].at # "taking"
        BY <1>3, UserFacts
      <4> QED
        BY <1>3, <4>1, Zenon
    <3>7. \A w \in Threads : thread'[w].at = "taking" => thread'[w].start # thread'[u].call
      BY <3>1, <3>2, <3>6, Zenon
    <3>8. samples'[thread'[u].call] = 0
      BY <3>1, <3>2, <3>3, <3>4, <1>7, SMTT(20)
    <3> QED
      BY <3>5, <3>7, <3>8, Zenon
  <2>5. ASSUME NEW d \in Calls
        PROVE  samples'[d] + Cardinality(Takers(d)') <= Cardinality(load.threads)
    <3>0. samples[d] + Cardinality(Takers(d)) <= Cardinality(load.threads) /\ samples[d] \in Nat
      BY Zenon DEF DelayInv, KernelType
    <3>1. CASE d = c
      <4>1. t \in Takers(d) /\ Takers(d)' = Takers(d) \ {t}
        BY <3>1, <1>1, <1>2, <1>3, LoadFacts, SMTT(20) DEF Takers, User, c
      <4>2. Cardinality(Takers(d)') = Cardinality(Takers(d)) - 1 /\ Cardinality(Takers(d)) \in Nat
        BY <4>1, TakersFacts, FS_RemoveElement, Zenon
      <4>3. samples'[d] \in {samples[d], samples[d] + 1}
        BY <1>7
      <4> QED
        BY <3>0, <4>2, <4>3, LoadFacts, SMTT(20)
    <3>2. CASE d # c
      <4>1. Takers(d)' = Takers(d)
        BY <3>2, <1>1, <1>2, <1>3, LoadFacts, SMTT(20) DEF Takers, User, c
      <4>2. samples'[d] = samples[d]
        BY <3>2, <1>7
      <4> QED
        BY <3>0, <4>1, <4>2, Zenon
    <3> QED
      BY <3>1, <3>2
  <2> QED
    BY <1>2, <2>1, <2>2, <2>3, <2>4, <2>5, Zenon DEF DelayInv
<1>14. LossInv'
  BY <1>1, <1>2, <1>5, <1>6, SMTT(20) DEF LossInv, LossIsCounted, KernelType
<1> QED
  BY <1>8, <1>9, <1>10, <1>11, <1>12, <1>13, <1>14

\* Close detaches every program, and a read or a decoding error frees a place in the ring.
LEMMA KernelReader ==
  ASSUME KernelInv,
         links' \in {links, {}} /\ ring' \in {ring} \cup (IF ring > 0 THEN {ring - 1} ELSE {}),
         UNCHANGED <<load, mode, thread, maps, stats, calls, history>>
  PROVE  KernelInv'
<1> USE DEF KernelInv
<1>1. /\ KernelType' /\ Calls' = Calls
  BY CaptureAssumption, SMTT(20) DEF KernelType, maps, history, Calls
<1>2. LinksInv' /\ LossInv'
  BY DEF LinksInv, LossInv, LossIsCounted, maps, history
<1>3. CallInv' /\ BytesInv'
  BY <1>1, Zenon DEF CallInv, BytesInv, maps, history
<1>4. MetadataInv'
  BY <1>1 DEF MetadataInv, maps, history, connectionAttachments
<1>5. DelayInv'
  BY <1>1, Zenon DEF DelayInv, Takers, maps, history
<1> QED
  BY <1>1, <1>2, <1>3, <1>4, <1>5

\* A step of the kernel keeps the invariant.
LEMMA KernelStepKeeps == KernelInv /\ KernelStep => KernelInv'
BY KernelNewEBPF, KernelConnect, KernelEnter, KernelMarkLookup, KernelMarkUpdate, KernelPacket,
   KernelReturn, KernelTakeDelay DEF KernelStep

\* So does every step of the agent.
LEMMA KernelNext == KernelInv /\ [Next]_vars => KernelInv'
<1> SUFFICES ASSUME KernelInv, [Next]_vars PROVE KernelInv'
  OBVIOUS
<1>1. CASE UNCHANGED kernel
  BY <1>1, KernelReader DEF kernel, attachment
<1>2. CASE KernelStep
  BY <1>2, KernelStepKeeps
<1>3. CASE DecodeError
  BY <1>3, KernelReader DEF DecodeError, attachment
<1>4. ASSUME NEW s \in Sources, Read(s)
      PROVE  KernelInv'
  BY <1>4, KernelReader DEF Read, attachment
<1>5. ASSUME NEW s \in Sources, Close(s)
      PROVE  KernelInv'
  BY <1>5, KernelReader DEF Close
<1>6. UNCHANGED kernel \/ KernelStep \/ DecodeError \/ (\E s \in Sources : Read(s) \/ Close(s))
  BY Zenon DEF Next, vars, SourceStep, ForwardStep, MainStep, Start, Cancel, ReadError, ReadClosed, SendEvent,
         SendError, ForwardTake, ForwardPut, ForwardError, CloseMerged, MainEvent, MainError, MainDone,
         MainClosed
<1> QED
  BY <1>1, <1>2, <1>3, <1>4, <1>5, <1>6

-----------------------------------------------------------------------------
(* What the kernel programs guarantee.                                     *)

\* The kernel invariant holds throughout.
LEMMA KernelAlways == Spec => []KernelInv
<1>1. Init => KernelInv
  BY KernelInitially DEF Init
<1> QED
  BY <1>1, KernelNext, PTL DEF Spec

\* However attachment went and however calls overlap, the bytes of a call are in at most
\* one record: the TC hook and the return probes are never attached together.
THEOREM BytesOnce == Spec => []BytesCountedOnce
<1>1. KernelInv => BytesCountedOnce
  BY DEF KernelInv, BytesInv, BytesCountedOnce
<1> QED
  BY <1>1, KernelAlways, PTL

\* finish_io reports the metadata of the call that returns: the entry of its thread is of
\* that call, or was evicted.
THEOREM MetadataIsOwn == Spec => []OwnMetadata
<1>1. KernelInv => OwnMetadata
  BY DEF KernelInv, MetadataInv, OwnMetadata
<1> QED
  BY <1>1, KernelAlways, PTL

\* A request is measured at most once for each thread: once measured it has left
\* app_delay_start, and only receivers that had looked it up before can measure it again.
THEOREM DelayBounded == Spec => []DelayOncePerReceiver
<1>1. ASSUME KernelInv, NEW c \in Calls
      PROVE  samples[c] <= Cardinality(load.threads)
  <2>1. samples[c] + Cardinality(Takers(c)) <= Cardinality(load.threads)
    BY <1>1, Zenon DEF KernelInv, DelayInv
  <2>2. Cardinality(Takers(c)) \in Nat /\ samples[c] \in Nat /\ Cardinality(load.threads) \in Nat
    BY <1>1, TakersFacts, LoadFacts, Zenon DEF KernelInv, KernelType
  <2> QED
    BY <2>1, <2>2
<1>2. KernelInv => DelayOncePerReceiver
  BY <1>1 DEF DelayOncePerReceiver
<1> QED
  BY <1>2, KernelAlways, PTL

\* In TC mode capture_stats accounts for every packet seen and every record lost.
THEOREM LossCounted == Spec => []LossIsCounted
<1>1. KernelInv => LossIsCounted
  BY DEF KernelInv, LossInv
<1> QED
  BY <1>1, KernelAlways, PTL

=============================================================================
