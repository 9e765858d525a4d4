-------------------------- MODULE CollectorsProofs --------------------------
(***************************************************************************)
(* Proofs about the goroutines of Collectors, for every capacity of the    *)
(* channels.  They rest on UserInv: how far a source, its forwarders and   *)
(* run have come together.                                                 *)
(***************************************************************************)
EXTENDS CaptureProofs

UserType ==
  /\ ctx \in BOOLEAN /\ multi \in BOOLEAN /\ mergedClosed \in BOOLEAN
  /\ src \in [Sources -> {"off", "read", "send", "error", "last_error", "done"}]
  /\ readerOpen \in [Sources -> BOOLEAN]
  /\ nread \in [Sources -> Nat] /\ got \in [Sources -> Nat] /\ held \in [Sources -> Nat]
  /\ events \in [Sources -> Seq(Nat \ {0})]
  /\ errors \in [Sources -> 0..ChanCap]
  /\ fwd \in [Sources -> {"off", "range", "select", "done"}]
  /\ efwd \in [Sources -> {"off", "range", "select", "done"}]
  /\ merged \in Seq(Sources \X Nat)
  /\ mergedErrors \in 0..2
  /\ nilled \subseteq {"events", "errors"}
  /\ main \in {"start", "loop", "returned"}
  /\ Len(merged) <= ChanCap
  /\ \A s \in Sources : Len(events[s]) <= ChanCap

\* A source that was not started has read nothing; without a MultiCollector nothing is
\* forwarded; and until the context ends a goroutine ends only after those before it.
StageInv ==
  /\ mode = "new" => main = "start"
  /\ mode = "failed" => main # "loop"
  /\ main = "start" \/ mode = "failed" => \A s \in Sources : src[s] = "off"
  /\ multi => \A s \in Sources : src[s] # "off"
  /\ ~multi => /\ src["icmp"] = "off" /\ merged = << >> /\ ~mergedClosed
               /\ \A s \in Sources : fwd[s] = "off" /\ efwd[s] = "off"
  /\ \A s \in Sources :
       /\ src[s] = "off" => nread[s] = 0 /\ events[s] = << >>
       /\ src[s] = "send" => nread[s] > 0
       /\ fwd[s] = "select" <=> held[s] # 0
       /\ ~ctx /\ fwd[s] = "done" => src[s] = "done" /\ events[s] = << >>
  /\ ~ctx /\ "events" \in nilled =>
       IF multi THEN mergedClosed /\ merged = << >>
                ELSE src["ebpf"] = "done" /\ events["ebpf"] = << >>
  /\ ~ctx /\ main = "returned" => mode = "failed" \/ "events" \in nilled
  /\ mergedClosed => \A s \in Sources : fwd[s] = "done" /\ efwd[s] = "done"

UserInv == UserType /\ StageInv /\ InOrderNoLoss

-----------------------------------------------------------------------------
(* The goroutines keep UserInv.                                            *)

\* There are two sources.
LEMMA SourcesFacts == Cardinality(Sources) = 2 /\ IsFiniteSet(Sources)
<1>1. /\ IsFiniteSet({}) /\ Cardinality({}) = 0
  BY FS_EmptySet
<1>2. IsFiniteSet({} \cup {"ebpf"}) /\ Cardinality({} \cup {"ebpf"}) = 1
  BY <1>1, FS_AddElement
<1>3. IsFiniteSet(({} \cup {"ebpf"}) \cup {"icmp"}) /\ Cardinality(({} \cup {"ebpf"}) \cup {"icmp"}) = 2
  BY <1>2, FS_AddElement
<1>4. Sources = ({} \cup {"ebpf"}) \cup {"icmp"}
  BY DEF Sources
<1> QED
  BY <1>3, <1>4

\* What is in the merged channel, position by position.
LEMMA InOrderPositions ==
  ASSUME UserType, NEW s \in Sources
  PROVE  ({e[2] : e \in {e \in Range(merged) : e[1] = s}} = (got[s] + 1)..PassedOn(s)) <=>
           /\ \A i \in DOMAIN merged : merged[i][1] = s => merged[i][2] \in (got[s] + 1)..PassedOn(s)
           /\ \A n \in (got[s] + 1)..PassedOn(s) :
                \E i \in DOMAIN merged : merged[i][1] = s /\ merged[i][2] = n
BY DEF Range

\* The numbers that say where the events of a source are.
LEMMA WayFacts ==
  ASSUME UserType, NEW s \in Sources
  PROVE  /\ nread[s] \in Nat /\ got[s] \in Nat /\ held[s] \in Nat
         /\ events[s] \in Seq(Nat \ {0}) /\ Len(events[s]) \in Nat
         /\ PassedOn(s) \in Int
<1>1. nread[s] \in Nat /\ got[s] \in Nat /\ held[s] \in Nat /\ events[s] \in Seq(Nat \ {0})
  BY Zenon DEF UserType
<1>2. Len(events[s]) \in Nat
  BY <1>1
<1> QED
  BY <1>1, <1>2 DEF PassedOn

\* A step that does not touch the way of a source keeps its order.
LEMMA InOrderFrame ==
  ASSUME NEW s \in Sources, InOrder(s), merged' = merged, events'[s] = events[s], held'[s] = held[s],
         nread'[s] = nread[s], got'[s] = got[s], src'[s] = "send" <=> src[s] = "send"
  PROVE  InOrder(s)'
BY DEF InOrder, PassedOn

\* Nothing is on its way at the start.
LEMMA UserInitially == Init => UserInv
<1> SUFFICES ASSUME Init PROVE UserInv
  OBVIOUS
<1>1. UserType
  <2>1. events \in [Sources -> Seq(Nat \ {0})] /\ \A s \in Sources : Len(events[s]) <= ChanCap
    BY CollectorsAssumption DEF Init
  <2>2. merged \in Seq(Sources \X Nat) /\ Len(merged) <= ChanCap
    BY CollectorsAssumption DEF Init
  <2>3. errors \in [Sources -> 0..ChanCap]
    BY CollectorsAssumption DEF Init
  <2>4. ctx \in BOOLEAN /\ multi \in BOOLEAN /\ mergedClosed \in BOOLEAN
    BY Zenon DEF Init
  <2>5. readerOpen \in [Sources -> BOOLEAN]
    BY DEF Init
  <2>6. /\ src \in [Sources -> {"off", "read", "send", "error", "last_error", "done"}]
        /\ fwd \in [Sources -> {"off", "range", "select", "done"}]
        /\ efwd \in [Sources -> {"off", "range", "select", "done"}]
    BY DEF Init
  <2>7. nread \in [Sources -> Nat] /\ got \in [Sources -> Nat] /\ held \in [Sources -> Nat]
    BY DEF Init
  <2> QED
    BY <2>1, <2>2, <2>3, <2>4, <2>5, <2>6, <2>7 DEF Init, UserType
<1>2. StageInv
  BY DEF Init, StageInv, Sources, CaptureInit
<1>3. \A s \in Sources : PassedOn(s) = 0
  BY DEF Init, PassedOn, Sources
<1>4. InOrderNoLoss
  BY <1>3 DEF Init, InOrderNoLoss, InOrder, Range, Sources
<1> QED
  BY <1>1, <1>2, <1>4 DEF UserInv

\* The kernel and the channels have no variable in common; only NewEBPF decides how run
\* goes on.
LEMMA UserKernelStep ==
  ASSUME UserInv, KernelStep, UNCHANGED user
  PROVE  UserInv'
<1> USE DEF UserInv
<1>1. mode' = mode \/ (mode = "new" /\ mode' # "new")
  <2>1. \A t, op, s : Enter(t, op, s) => mode' = mode
    BY DEF Enter, attachment
  <2>2. \A t : Connect(t) \/ MarkLookup(t) \/ MarkUpdate(t) => mode' = mode
    BY DEF Connect, MarkLookup, MarkUpdate, attachment
  <2>3. ASSUME NEW t, NEW x \in BOOLEAN, Packet(t, x) PROVE mode' = mode
    BY <2>3 DEF Packet, attachment
  <2>4. \A t, x : Return(t, x) => mode' = mode
    BY DEF Return, attachment
  <2>5. ASSUME NEW t, NEW x \in BOOLEAN, TakeDelay(t, x) PROVE mode' = mode
    BY <2>5 DEF TakeDelay, attachment
  <2>6. ASSUME NEW x, NEW y, NEW z \in BOOLEAN, NewEBPF(x, y, load.optional, z)
        PROVE  mode = "new" /\ mode' # "new"
    BY <2>6 DEF NewEBPF
  <2>7. CASE \E option \in {"auto", "tc", "kprobe"}, tcx \in {"attached", "no_ingress", "no_egress"},
                ready \in BOOLEAN : NewEBPF(option, tcx, load.optional, ready)
    BY <2>6, <2>7
  <2>8. ASSUME NEW t \in Threads,
               \/ \E op \in {"send", "recv"}, s \in Socks : Enter(t, op, s)
               \/ Connect(t) \/ MarkLookup(t) \/ MarkUpdate(t)
               \/ \E parsed \in BOOLEAN : Packet(t, parsed)
               \/ \E result \in {0, 1} : Return(t, result)
               \/ \E plausible \in BOOLEAN : TakeDelay(t, plausible)
        PROVE  mode' = mode
    BY <2>1, <2>2, <2>3, <2>4, <2>5, <2>8
  <2> QED
    BY <2>7, <2>8 DEF KernelStep
<1>2. /\ UNCHANGED <<ctx, multi, src, readerOpen, nread, events, errors, fwd, held, efwd>>
      /\ UNCHANGED <<merged, mergedErrors, mergedClosed, nilled, main, got>>
  BY Zenon DEF user, goroutines, forwarders, mergedChan, mainLoop
<1>3. UserType'
  BY <1>2, Zenon DEF UserType
<1>4. InOrderNoLoss'
  BY <1>2, InOrderFrame, Zenon DEF InOrderNoLoss
<1>5. StageInv'
  BY <1>1 DEF StageInv, user, goroutines, forwarders, mergedChan, mainLoop
<1> QED
  BY <1>3, <1>4, <1>5

\* run starts the sources, or returns when NewEBPF failed.
LEMMA UserStart ==
  ASSUME UserInv, NEW icmp \in BOOLEAN, Start(icmp)
  PROVE  UserInv'
<1> USE DEF UserInv
<1>1. /\ main = "start" /\ mode # "new" /\ mode' = mode /\ main' \in {"loop", "returned"}
      /\ main' = "returned" <=> mode = "failed"
      /\ UNCHANGED <<ctx, nread, nerr, events, errors, held, merged, mergedErrors, mergedClosed, nilled, got>>
  BY DEF Start, kernel, attachment, mergedChan
<1>2. \A s \in Sources : src[s] = "off"
  BY <1>1 DEF StageInv
<1>3. ~multi /\ ~mergedClosed
  BY <1>2 DEF StageInv, Sources
<1>4. UserType'
  BY <1>1, Zenon DEF Start, UserType
<1>5. StageInv'
  <2>1. CASE mode = "failed"
    BY <2>1, <1>1, <1>2, <1>3 DEF Start, StageInv, UserType
  <2>2. CASE mode # "failed"
    <3> DEFINE both == mode = "kprobe" /\ icmp
    <3>1. /\ main' = "loop"
          /\ multi' = both
          /\ src'["ebpf"] = "read" /\ src'["icmp"] = (IF both THEN "read" ELSE "off")
          /\ both => \A s \in Sources : fwd'[s] = "range" /\ efwd'[s] = "range"
          /\ ~both => fwd' = fwd /\ efwd' = efwd
      BY <2>2 DEF Start, Sources
    <3>2. \A s \in Sources : held[s] = 0 /\ events[s] = << >> /\ nread[s] = 0 /\ fwd[s] = "off" /\ efwd[s] = "off"
      BY <1>2, <1>3 DEF StageInv
    <3>3. nilled = {} \/ ctx \/ "events" \notin nilled
      BY <1>2, <1>3 DEF StageInv, Sources
    <3>4. \A s \in Sources : fwd'[s] \in {"off", "range"} /\ efwd'[s] \in {"off", "range"}
                             /\ src'[s] \in {"off", "read"}
      BY <3>1, <3>2 DEF Sources
    <3> HIDE DEF both
    <3> QED
      BY <1>1, <1>3, <2>2, <3>1, <3>2, <3>3, <3>4 DEF StageInv, Sources
  <2> QED
    BY <2>1, <2>2
<1>6. \A s \in Sources : src'[s] # "send" /\ src[s] # "send"
  BY <1>2 DEF Start, Sources
<1>7. InOrderNoLoss'
  BY <1>1, <1>6, InOrderFrame DEF InOrderNoLoss
<1> QED
  BY <1>4, <1>5, <1>7

\* The end of the context takes promises away and gives none.
LEMMA UserCancel ==
  ASSUME UserInv, Cancel
  PROVE  UserInv'
BY DEF Cancel, UserInv, UserType, StageInv, InOrderNoLoss, kernel, attachment, goroutines, forwarders,
       mergedChan, mainLoop

\* Steps of a source's goroutine that pass no event on.
LEMMA UserSourceIdle ==
  ASSUME UserInv, NEW s \in Sources,
         \/ Close(s) \/ ReadError(s) \/ ReadClosed(s) \/ SendError(s)
         \/ DecodeError /\ s = "ebpf"
  PROVE  UserInv'
<1> USE DEF UserInv
<1>1. /\ UNCHANGED <<mode, ctx, multi, nread, events, held, fwd, efwd, merged, mergedErrors, mergedClosed,
                     nilled, main, got>>
      /\ \A r \in Sources : r # s => src'[r] = src[r]
      /\ src'[s] = src[s] \/ (/\ src[s] \in {"read", "error", "last_error"}
                              /\ src'[s] \in {"read", "error", "last_error", "done"})
  BY DEF Close, ReadError, ReadClosed, SendError, DecodeError, kernel, attachment, forwarders, mergedChan,
         mainLoop, UserType
<1>2. UserType'
  <2>1. readerOpen' \in [Sources -> BOOLEAN] /\ errors' \in [Sources -> 0..ChanCap]
    <3>1. CASE Close(s)
      BY <3>1 DEF UserType, Close
    <3>2. CASE SendError(s)
      BY <3>2, CollectorsAssumption DEF UserType, SendError
    <3>3. CASE ReadError(s) \/ ReadClosed(s) \/ DecodeError
      BY <3>3 DEF UserType, ReadError, ReadClosed, DecodeError
    <3> QED
      BY <3>1, <3>2, <3>3
  <2>2. src' \in [Sources -> {"off", "read", "send", "error", "last_error", "done"}]
    BY Zenon DEF UserType, Close, ReadError, ReadClosed, SendError, DecodeError
  <2> QED
    BY <1>1, <2>1, <2>2 DEF UserType
<1>3. StageInv'
  <2>1. \A r \in Sources : /\ src'[r] = "off" <=> src[r] = "off"
                           /\ src'[r] = "send" <=> src[r] = "send"
                           /\ src[r] = "done" => src'[r] = "done"
    BY <1>1
  <2> QED
    BY <1>1, <2>1 DEF StageInv, Sources
<1>4. InOrderNoLoss'
  BY <1>1, InOrderFrame DEF InOrderNoLoss
<1> QED
  BY <1>2, <1>3, <1>4

\* Reading gives an event the next number.
LEMMA UserRead ==
  ASSUME UserInv, NEW s \in Sources, Read(s)
  PROVE  UserInv'
<1> USE DEF UserInv
<1>1. /\ UNCHANGED <<mode, ctx, multi, readerOpen, events, errors, held, fwd, efwd, merged, mergedErrors,
                     mergedClosed, nilled, main, got>>
      /\ src[s] = "read" /\ src' = [src EXCEPT ![s] = "send"] /\ nread' = [nread EXCEPT ![s] = @ + 1]
  BY DEF Read, attachment, forwarders, mergedChan, mainLoop
<1>2. UserType'
  BY <1>1 DEF UserType
<1>3. StageInv'
  <2>1. \A r \in Sources : r # s => src'[r] = src[r] /\ nread'[r] = nread[r]
    BY <1>1 DEF UserType
  <2>2. src'[s] = "send" /\ nread'[s] > 0
    BY <1>1 DEF UserType
  <2> QED
    BY <1>1, <2>1, <2>2 DEF StageInv
<1>4. InOrderNoLoss'
  <2> SUFFICES ASSUME ~ctx, NEW r \in Sources PROVE InOrder(r)'
    BY <1>1 DEF InOrderNoLoss
  <2>1. InOrder(r)
    BY DEF InOrderNoLoss
  <2>2. CASE r # s
    BY <1>1, <2>1, <2>2, InOrderFrame DEF UserType
  <2>3. CASE r = s
    <3>1. PassedOn(s)' = PassedOn(s)
      BY <1>1 DEF PassedOn, UserType
    <3> QED
      BY <1>1, <2>1, <2>3, <3>1 DEF InOrder
  <2> QED
    BY <2>2, <2>3
<1> QED
  BY <1>2, <1>3, <1>4

\* A sent event is the next in the channel of its source.
LEMMA UserSendEvent ==
  ASSUME UserInv, NEW s \in Sources, SendEvent(s)
  PROVE  UserInv'
<1> USE DEF UserInv
<1>1. /\ UNCHANGED <<mode, ctx, multi, readerOpen, nread, errors, held, fwd, efwd, merged, mergedErrors,
                     mergedClosed, nilled, main, got>>
      /\ src[s] = "send" /\ nread[s] > 0
      /\ \A r \in Sources : r # s => src'[r] = src[r] /\ events'[r] = events[r]
  BY DEF SendEvent, kernel, attachment, forwarders, mergedChan, mainLoop, UserType, StageInv
<1>2. CASE Len(events[s]) < ChanCap /\ events' = [events EXCEPT ![s] = Append(@, nread[s])]
           /\ src' = [src EXCEPT ![s] = "read"]
  <2>1. /\ src'[s] = "read" /\ events'[s] = Append(events[s], nread[s])
        /\ events[s] \in Seq(Nat \ {0}) /\ nread[s] \in Nat \ {0}
    BY <1>1, <1>2 DEF UserType
  <2>2. /\ Len(events'[s]) = Len(events[s]) + 1 /\ events'[s] \in Seq(Nat \ {0})
        /\ \A i \in 1..Len(events[s]) : events'[s][i] = events[s][i]
        /\ events'[s][Len(events[s]) + 1] = nread[s]
    BY <2>1
  <2>3. UserType'
    <3>1. events' \in [Sources -> Seq(Nat \ {0})]
      BY <1>2, <2>1, <2>2 DEF UserType
    <3>2. src' \in [Sources -> {"off", "read", "send", "error", "last_error", "done"}]
      BY <1>2 DEF UserType
    <3>3. \A r \in Sources : Len(events'[r]) <= ChanCap
      BY <1>1, <1>2, <2>1, <2>2, CollectorsAssumption DEF UserType
    <3> QED
      BY <1>1, <3>1, <3>2, <3>3 DEF UserType
  <2>4. StageInv'
    BY <1>1, <2>1 DEF StageInv, Sources
  <2>5. ASSUME ~ctx PROVE InOrder(s)'
    <3>1. PassedOn(s)' = PassedOn(s) /\ PassedOn(s) \in Int
      <4>1. nread'[s] = nread[s] /\ held'[s] = held[s] /\ src[s] = "send" /\ src'[s] = "read"
        BY <1>1, <2>1, Zenon
      <4>2. nread[s] \in Nat /\ Len(events[s]) \in Nat /\ PassedOn(s) \in Int
        BY WayFacts, Zenon
      <4>3. PassedOn(s) = nread[s] - 1 - Len(events[s]) - (IF held[s] # 0 THEN 1 ELSE 0)
        BY <4>1, Zenon DEF PassedOn
      <4>4. PassedOn(s)' = nread[s] - 0 - (Len(events[s]) + 1) - (IF held[s] # 0 THEN 1 ELSE 0)
        BY <4>1, <2>2 DEF PassedOn
      <4> QED
        BY <4>2, <4>3, <4>4
    <3>2. nread[s] = PassedOn(s) + (IF held[s] = 0 THEN 0 ELSE 1) + (Len(events[s]) + 1)
      BY <1>1, <2>1 DEF PassedOn, UserType
    <3>3. \A i \in DOMAIN events'[s] :
            events'[s][i] = PassedOn(s) + (IF held[s] = 0 THEN 0 ELSE 1) + i
      <4>1. \A i \in 1..Len(events[s]) :
              events[s][i] = PassedOn(s) + (IF held[s] = 0 THEN 0 ELSE 1) + i
        BY <2>1, <2>5 DEF InOrderNoLoss, InOrder
      <4>2. DOMAIN events'[s] = 1..(Len(events[s]) + 1) /\ Len(events[s]) \in Nat
        BY <2>1, <2>2
      <4> QED
        BY <2>2, <3>2, <4>1, <4>2
    <3> QED
      BY <1>1, <2>5, <3>1, <3>3, Zenon DEF InOrderNoLoss, InOrder
  <2>6. InOrderNoLoss'
    BY <1>1, <2>5, InOrderFrame DEF InOrderNoLoss
  <2> QED
    BY <2>3, <2>4, <2>6
<1>3. CASE ctx /\ src' = [src EXCEPT ![s] = "done"] /\ events' = events
  <2>1. UserType'
    BY <1>1, <1>3 DEF UserType
  <2>2. src'[s] = "done"
    BY <1>3 DEF UserType
  <2>3. StageInv'
    BY <1>1, <1>3, <2>2 DEF StageInv
  <2> QED
    BY <1>1, <1>3, <2>1, <2>3 DEF InOrderNoLoss
<1> QED
  BY <1>2, <1>3 DEF SendEvent

\* The forwarder takes the first event of the channel, or ends with its source.
LEMMA UserForwardTake ==
  ASSUME UserInv, NEW s \in Sources, ForwardTake(s)
  PROVE  UserInv'
<1> USE DEF UserInv
<1>1. /\ UNCHANGED <<mode, ctx, multi, src, readerOpen, nread, errors, efwd, merged, mergedErrors,
                     mergedClosed, nilled, main, got>>
      /\ fwd[s] = "range" /\ held[s] = 0 /\ multi
      /\ \A r \in Sources : r # s => fwd'[r] = fwd[r] /\ held'[r] = held[r] /\ events'[r] = events[r]
  <2>1. /\ UNCHANGED <<mode, ctx, multi, src, readerOpen, nread, errors, efwd>>
        /\ UNCHANGED <<merged, mergedErrors, mergedClosed, nilled, main, got>>
    BY Zenon DEF ForwardTake, kernel, attachment, mergedChan, mainLoop
  <2>2. fwd[s] = "range" /\ held[s] = 0 /\ multi
    BY DEF ForwardTake, StageInv
  <2>3. \A r \in Sources : r # s => fwd'[r] = fwd[r] /\ held'[r] = held[r] /\ events'[r] = events[r]
    BY Zenon DEF ForwardTake, UserType
  <2> QED
    BY <2>1, <2>2, <2>3, Zenon
<1>2. CASE events[s] # << >> /\ held' = [held EXCEPT ![s] = Head(events[s])]
           /\ events' = [events EXCEPT ![s] = Tail(@)] /\ fwd' = [fwd EXCEPT ![s] = "select"]
  <2>1. /\ held'[s] = events[s][1] /\ events'[s] = Tail(events[s]) /\ fwd'[s] = "select"
        /\ events[s] \in Seq(Nat \ {0}) /\ events[s] # << >>
    BY <1>2 DEF UserType
  <2>2. /\ Len(events[s]) > 0 /\ Len(events'[s]) = Len(events[s]) - 1 /\ events'[s] \in Seq(Nat \ {0})
        /\ \A i \in 1..(Len(events[s]) - 1) : events'[s][i] = events[s][i + 1]
        /\ events[s][1] \in Nat \ {0}
    BY <2>1
  <2>3. UserType'
    <3>1. events' \in [Sources -> Seq(Nat \ {0})]
      BY <1>2, <2>1, <2>2 DEF UserType
    <3>2. held' \in [Sources -> Nat] /\ fwd' \in [Sources -> {"off", "range", "select", "done"}]
      BY <1>2, <2>1, <2>2 DEF UserType
    <3>3. \A r \in Sources : Len(events'[r]) <= ChanCap
      <4>1. Len(events[s]) <= ChanCap /\ Len(events[s]) \in Nat
        BY <2>1 DEF UserType
      <4>2. Len(events'[s]) <= ChanCap
        BY <2>2, <4>1, CollectorsAssumption
      <4> QED
        BY <1>1, <4>2, Zenon DEF UserType
    <3> QED
      BY <1>1, <3>1, <3>2, <3>3 DEF UserType
  <2>4. StageInv'
    <3>1. src[s] # "off" /\ ~mergedClosed
      BY <1>1, Zenon DEF StageInv
    <3> QED
      BY <1>1, <2>1, <2>2, <3>1 DEF StageInv, Sources
  <2>5. ASSUME ~ctx PROVE InOrder(s)'
    <3>1. PassedOn(s)' = PassedOn(s) /\ PassedOn(s) \in Int
      <4>1. nread'[s] = nread[s] /\ src'[s] = src[s] /\ held[s] = 0 /\ held'[s] # 0
        BY <1>1, <2>1, <2>2
      <4>2. nread[s] \in Nat /\ Len(events[s]) \in Nat /\ PassedOn(s) \in Int
        BY WayFacts, Zenon
      <4> QED
        BY <2>2, <4>1, <4>2 DEF PassedOn
    <3>2. \A i \in 1..Len(events[s]) : events[s][i] = PassedOn(s) + i
      <4>1. InOrder(s) /\ held[s] = 0 /\ DOMAIN events[s] = 1..Len(events[s])
        BY <1>1, <2>1, <2>5 DEF InOrderNoLoss
      <4>2. \A i \in 1..Len(events[s]) : events[s][i] = PassedOn(s) + 0 + i
        BY <4>1, Zenon DEF InOrder
      <4> QED
        BY <3>1, <4>2
    <3>3. held'[s] = PassedOn(s) + 1
      BY <2>1, <2>2, <3>2
    <3>4. \A i \in DOMAIN events'[s] :
            events'[s][i] = PassedOn(s) + (IF held'[s] = 0 THEN 0 ELSE 1) + i
      <4>1. held'[s] # 0 /\ DOMAIN events'[s] = 1..(Len(events[s]) - 1) /\ Len(events[s]) \in Nat
        BY <2>1, <2>2
      <4>2. \A i \in 1..(Len(events[s]) - 1) : events'[s][i] = PassedOn(s) + (i + 1)
        BY <2>2, <3>1, <3>2, <4>1
      <4> QED
        BY <3>1, <4>1, <4>2
    <3>5. InOrder(s) /\ merged' = merged /\ got'[s] = got[s]
      BY <1>1, <2>5, Zenon DEF InOrderNoLoss
    <3> QED
      BY <3>1, <3>3, <3>4, <3>5, Zenon DEF InOrder
  <2>6. InOrderNoLoss'
    BY <1>1, <2>5, InOrderFrame DEF InOrderNoLoss
  <2> QED
    BY <2>3, <2>4, <2>6
<1>3. CASE events[s] = << >> /\ src[s] = "done" /\ fwd' = [fwd EXCEPT ![s] = "done"]
           /\ UNCHANGED <<held, events>>
  <2>1. UserType'
    BY <1>1, <1>3 DEF UserType
  <2>2. fwd'[s] = "done"
    BY <1>3 DEF UserType
  <2>3. StageInv'
    BY <1>1, <1>3, <2>2 DEF StageInv, Sources
  <2>4. InOrderNoLoss'
    BY <1>1, <1>3, InOrderFrame, Zenon DEF InOrderNoLoss
  <2> QED
    BY <2>1, <2>3, <2>4
<1> QED
  BY <1>2, <1>3, Zenon DEF ForwardTake

\* The forwarder passes on the event it holds, which is the next one of its source.
LEMMA UserForwardPut ==
  ASSUME UserInv, NEW s \in Sources, ForwardPut(s)
  PROVE  UserInv'
<1> USE DEF UserInv
<1>1. /\ UNCHANGED <<mode, ctx, multi, src, readerOpen, nread, events, errors, efwd, mergedErrors,
                     mergedClosed, nilled, main, got>>
      /\ fwd[s] = "select" /\ held[s] # 0 /\ multi /\ held'[s] = 0 /\ held' \in [Sources -> Nat]
      /\ \A r \in Sources : r # s => fwd'[r] = fwd[r] /\ held'[r] = held[r]
  <2>1. /\ UNCHANGED <<mode, ctx, multi, src, readerOpen, nread, events, errors, efwd>>
        /\ UNCHANGED <<mergedErrors, mergedClosed, nilled, main, got>>
    BY Zenon DEF ForwardPut, kernel, attachment, goroutines, mainLoop
  <2>2. fwd[s] = "select" /\ held[s] # 0 /\ multi
    BY DEF ForwardPut, StageInv
  <2>3. /\ held'[s] = 0 /\ held' \in [Sources -> Nat]
        /\ \A r \in Sources : r # s => fwd'[r] = fwd[r] /\ held'[r] = held[r]
    BY DEF ForwardPut, UserType
  <2> QED
    BY <2>1, <2>2, <2>3, Zenon
<1>2. CASE Len(merged) < ChanCap /\ merged' = Append(merged, <<s, held[s]>>)
           /\ fwd' = [fwd EXCEPT ![s] = "range"]
  <2>1. merged \in Seq(Sources \X Nat) /\ <<s, held[s]>> \in Sources \X Nat /\ fwd'[s] = "range"
    BY <1>2 DEF UserType
  <2>2. /\ Len(merged') = Len(merged) + 1 /\ merged' \in Seq(Sources \X Nat)
        /\ \A i \in 1..Len(merged) : merged'[i] = merged[i]
        /\ merged'[Len(merged) + 1] = <<s, held[s]>>
        /\ Len(merged) \in Nat
    BY <1>2, <2>1
  <2>3. UserType'
    <3>1. fwd' \in [Sources -> {"off", "range", "select", "done"}]
      BY <1>2 DEF UserType
    <3>2. Len(merged') <= ChanCap
      BY <1>2, <2>2, CollectorsAssumption
    <3> QED
      BY <1>1, <2>2, <3>1, <3>2, Zenon DEF UserType
  <2>4. StageInv'
    <3>1. ~mergedClosed
      BY <1>1, Zenon DEF StageInv
    <3> QED
      BY <1>1, <2>1, <3>1 DEF StageInv, Sources
  <2>5. ASSUME ~ctx, NEW r \in Sources PROVE InOrder(r)'
    <3> DEFINE P == PassedOn(r)'
    <3>1. /\ r = s => PassedOn(r)' = PassedOn(r) + 1
          /\ r # s => PassedOn(r)' = PassedOn(r)
          /\ PassedOn(r) \in Int /\ got[r] \in Nat /\ got'[r] = got[r]
      <4>1. nread[r] \in Nat /\ Len(events[r]) \in Nat /\ got[r] \in Nat /\ PassedOn(r) \in Int
        BY WayFacts, Zenon
      <4>2. nread'[r] = nread[r] /\ src'[r] = src[r] /\ events'[r] = events[r] /\ got'[r] = got[r]
        BY <1>1, Zenon
      <4>3. r # s => PassedOn(r)' = PassedOn(r)
        BY <1>1, <4>2, Zenon DEF PassedOn
      <4>4. r = s => held[r] # 0 /\ held'[r] = 0
        BY <1>1, Zenon
      <4>5. r = s => PassedOn(r)' = PassedOn(r) + 1
        BY <4>1, <4>2, <4>4 DEF PassedOn
      <4> QED
        BY <4>1, <4>2, <4>3, <4>5
    <3>2. InOrder(r) /\ InOrder(s)
      BY <2>5 DEF InOrderNoLoss
    <3>3. r = s => held[s] = PassedOn(r) + 1
      BY <1>1, <3>2, Zenon DEF InOrder
    <3>4. /\ \A i \in DOMAIN merged : merged[i][1] = r => merged[i][2] \in (got[r] + 1)..PassedOn(r)
          /\ \A n \in (got[r] + 1)..PassedOn(r) :
               \E i \in DOMAIN merged : merged[i][1] = r /\ merged[i][2] = n
      BY <3>2, InOrderPositions, Zenon DEF InOrder
    <3>5. DOMAIN merged = 1..Len(merged) /\ DOMAIN merged' = 1..(Len(merged) + 1)
      BY <2>1, <2>2
    <3>6. merged'[Len(merged) + 1][1] = s /\ merged'[Len(merged) + 1][2] = held[s]
      BY <2>2
    <3>7. got[r] <= PassedOn(r)
      BY <3>2 DEF InOrder
    <3>8. \A i \in DOMAIN merged' : merged'[i][1] = r => merged'[i][2] \in (got'[r] + 1)..PassedOn(r)'
      <4> SUFFICES ASSUME NEW i \in DOMAIN merged', merged'[i][1] = r
                   PROVE  merged'[i][2] \in (got'[r] + 1)..PassedOn(r)'
        OBVIOUS
      <4>1. CASE i \in DOMAIN merged
        <5>1. merged'[i] = merged[i] /\ merged[i][2] \in (got[r] + 1)..PassedOn(r)
          BY <4>1, <2>2, <3>4, <3>5
        <5> QED
          BY <5>1, <3>1
      <4>2. CASE i = Len(merged) + 1
        BY <4>2, <3>1, <3>3, <3>6, <3>7
      <4> QED
        BY <4>1, <4>2, <2>2, <3>5
    <3>9. \A n \in (got'[r] + 1)..PassedOn(r)' :
            \E i \in DOMAIN merged' : merged'[i][1] = r /\ merged'[i][2] = n
      <4> SUFFICES ASSUME NEW n \in (got'[r] + 1)..PassedOn(r)'
                   PROVE  \E i \in DOMAIN merged' : merged'[i][1] = r /\ merged'[i][2] = n
        OBVIOUS
      <4>1. CASE n \in (got[r] + 1)..PassedOn(r)
        <5>1. PICK i \in DOMAIN merged : merged[i][1] = r /\ merged[i][2] = n
          BY <4>1, <3>4
        <5>2. i \in DOMAIN merged' /\ merged'[i] = merged[i]
          BY <2>2, <3>5
        <5> QED
          BY <5>1, <5>2
      <4>2. CASE n \notin (got[r] + 1)..PassedOn(r)
        <5>1. r = s /\ n = PassedOn(r) + 1
          BY <4>2, <3>1
        <5>2. Len(merged) + 1 \in DOMAIN merged'
          BY <2>2, <3>5
        <5> QED
          BY <5>1, <5>2, <3>3, <3>6
      <4> QED
        BY <4>1, <4>2
    <3>10. {e[2] : e \in {e \in Range(merged') : e[1] = r}} = (got'[r] + 1)..PassedOn(r)'
      BY <3>8, <3>9 DEF Range
    <3>11. \A i, j \in DOMAIN merged' :
             i < j /\ merged'[i][1] = r /\ merged'[j][1] = r => merged'[i][2] < merged'[j][2]
      <4> SUFFICES ASSUME NEW i \in DOMAIN merged', NEW j \in DOMAIN merged', i < j,
                          merged'[i][1] = r, merged'[j][1] = r
                   PROVE  merged'[i][2] < merged'[j][2]
        OBVIOUS
      <4>1. i \in DOMAIN merged /\ merged'[i] = merged[i]
        BY <2>2, <3>5
      <4>2. CASE j \in DOMAIN merged
        BY <4>1, <4>2, <2>2, <3>2, <3>5, Zenon DEF InOrder
      <4>3. CASE j = Len(merged) + 1
        BY <4>1, <4>3, <3>1, <3>3, <3>4, <3>6
      <4> QED
        BY <4>2, <4>3, <2>2, <3>5
    <3>12. /\ got'[r] <= PassedOn(r)'
           /\ held'[r] \in {0, PassedOn(r)' + 1}
           /\ \A i \in DOMAIN events'[r] :
                events'[r][i] = PassedOn(r)' + (IF held'[r] = 0 THEN 0 ELSE 1) + i
      <4>1. /\ held[r] \in {0, PassedOn(r) + 1}
            /\ \A i \in DOMAIN events[r] :
                 events[r][i] = PassedOn(r) + (IF held[r] = 0 THEN 0 ELSE 1) + i
        BY <3>2, Zenon DEF InOrder
      <4>2. \A i \in DOMAIN events[r] : i \in Int
        BY DEF UserType
      <4> QED
        BY <1>1, <3>1, <3>7, <4>1, <4>2
    <3> QED
      BY <3>10, <3>11, <3>12, Zenon DEF InOrder
  <2>6. InOrderNoLoss'
    BY <1>1, <2>5 DEF InOrderNoLoss
  <2> QED
    BY <2>3, <2>4, <2>6
<1>3. CASE ctx /\ fwd' = [fwd EXCEPT ![s] = "done"] /\ merged' = merged
  <2>1. UserType'
    BY <1>1, <1>3 DEF UserType
  <2>2. fwd'[s] = "done"
    BY <1>3 DEF UserType
  <2>3. StageInv'
    BY <1>1, <1>3, <2>2 DEF StageInv, Sources
  <2> QED
    BY <1>1, <1>3, <2>1, <2>3 DEF InOrderNoLoss
<1> QED
  BY <1>2, <1>3 DEF ForwardPut

\* The error forwarders, the closer and the receipt of an error pass no event on.
LEMMA UserErrors ==
  ASSUME UserInv, (\E s \in Sources : ForwardError(s)) \/ CloseMerged \/ MainError
  PROVE  UserInv'
<1> USE DEF UserInv
<1>1. /\ UNCHANGED <<mode, ctx, multi, src, readerOpen, nread, events, fwd, held, merged, nilled, main, got>>
      /\ \A s \in Sources : efwd[s] \in {"off", "done"} => efwd'[s] = efwd[s]
      /\ mergedClosed' = mergedClosed \/ CloseMerged
  BY DEF ForwardError, CloseMerged, MainError, kernel, attachment, goroutines, forwarders, mainLoop, UserType
<1>2. UserType'
  <2>1. ASSUME NEW s \in Sources, ForwardError(s)
        PROVE  /\ errors' \in [Sources -> 0..ChanCap] /\ mergedErrors' \in 0..2
               /\ efwd' \in [Sources -> {"off", "range", "select", "done"}]
               /\ mergedClosed' = mergedClosed
    <3>1. errors \in [Sources -> 0..ChanCap] /\ errors[s] \in Nat /\ errors[s] <= ChanCap
      BY CollectorsAssumption DEF UserType
    <3>2. errors' \in [Sources -> 0..ChanCap]
      <4>1. errors' = errors \/ (errors[s] > 0 /\ errors' = [errors EXCEPT ![s] = @ - 1])
        BY <2>1, Zenon DEF ForwardError
      <4> QED
        BY <3>1, <4>1, CollectorsAssumption
    <3>3. mergedErrors' \in 0..2
      BY <2>1, SourcesFacts DEF ForwardError, UserType
    <3>4. efwd' \in [Sources -> {"off", "range", "select", "done"}] /\ mergedClosed' = mergedClosed
      BY <2>1, Zenon DEF ForwardError, UserType
    <3> QED
      BY <3>2, <3>3, <3>4
  <2>2. ASSUME MainError
        PROVE  /\ errors' \in [Sources -> 0..ChanCap] /\ mergedErrors' \in 0..2
               /\ efwd' = efwd /\ mergedClosed' = mergedClosed
    <3>1. "ebpf" \in Sources
      BY DEF Sources
    <3>2. errors \in [Sources -> 0..ChanCap] /\ errors["ebpf"] \in Nat /\ errors["ebpf"] <= ChanCap
      BY <3>1, CollectorsAssumption DEF UserType
    <3>3. errors' \in [Sources -> 0..ChanCap]
      <4>1. errors' = errors \/ (errors["ebpf"] > 0 /\ errors' = [errors EXCEPT !["ebpf"] = @ - 1])
        BY <2>2 DEF MainError
      <4> QED
        BY <3>2, <4>1, CollectorsAssumption
    <3>4. mergedErrors' \in 0..2 /\ efwd' = efwd /\ mergedClosed' = mergedClosed
      BY <2>2 DEF MainError, UserType, forwarders
    <3> QED
      BY <3>3, <3>4
  <2>3. ASSUME CloseMerged
        PROVE  UNCHANGED <<errors, mergedErrors, efwd>> /\ mergedClosed' \in BOOLEAN
    BY <2>3, Zenon DEF CloseMerged, goroutines, forwarders
  <2> QED
    BY <1>1, <2>1, <2>2, <2>3, Zenon DEF UserType
<1>3. StageInv'
  <2>1. mergedClosed' => multi /\ \A s \in Sources : fwd[s] = "done" /\ efwd[s] = "done"
    BY <1>1, Zenon DEF CloseMerged, StageInv
  <2>2. mergedClosed => mergedClosed'
    BY <1>1 DEF CloseMerged
  <2> QED
    BY <1>1, <2>1, <2>2, Zenon DEF StageInv
<1>4. InOrderNoLoss'
  BY <1>1, InOrderFrame, Zenon DEF InOrderNoLoss
<1> QED
  BY <1>2, <1>3, <1>4

\* run leaves its loop only with the context or when both channels are closed and empty.
LEMMA UserMainEnds ==
  ASSUME UserInv, MainDone \/ \E channel \in {"events", "errors"} : MainClosed(channel)
  PROVE  UserInv'
<1> USE DEF UserInv
<1>1. /\ UNCHANGED <<mode, ctx, multi, src, readerOpen, nread, events, errors, fwd, held, efwd, merged,
                     mergedErrors, mergedClosed, got>>
      /\ main = "loop"
  BY DEF MainDone, MainClosed, kernel, attachment, goroutines, forwarders, mergedChan
<1>2. CASE MainDone
  <2>1. UserType'
    BY <1>1, <1>2 DEF MainDone, UserType
  <2>2. StageInv'
    BY <1>1, <1>2 DEF MainDone, StageInv
  <2>3. InOrderNoLoss'
    BY <1>1, InOrderFrame, Zenon DEF InOrderNoLoss
  <2> QED
    BY <2>1, <2>2, <2>3
<1>3. ASSUME NEW channel \in {"events", "errors"}, MainClosed(channel)
      PROVE  UserInv'
  <2>1. /\ nilled' = nilled \cup {channel} /\ main' \in {"loop", "returned"}
        /\ main' = "returned" => "events" \in nilled'
        /\ channel = "events" => IF multi THEN mergedClosed /\ merged = << >>
                                          ELSE src["ebpf"] = "done" /\ events["ebpf"] = << >>
    BY <1>1, <1>3, Zenon DEF MainClosed
  <2>2. UserType'
    BY <1>1, <2>1, Zenon DEF UserType
  <2>3. StageInv'
    BY <1>1, <2>1, Zenon DEF StageInv
  <2>4. InOrderNoLoss'
    BY <1>1, InOrderFrame, Zenon DEF InOrderNoLoss
  <2> QED
    BY <2>2, <2>3, <2>4
<1> QED
  BY <1>2, <1>3

\* What run receives is the next event of its source.
LEMMA UserMainEvent ==
  ASSUME UserInv, MainEvent
  PROVE  UserInv'
<1> USE DEF UserInv
<1>1. /\ UNCHANGED <<mode, ctx, multi, src, readerOpen, nread, errors, fwd, held, efwd, mergedErrors,
                     mergedClosed, nilled, main>>
      /\ main = "loop" /\ "events" \notin nilled
  BY DEF MainEvent, kernel, attachment, forwarders
<1>2. CASE multi
  <2> DEFINE s == Head(merged)[1]
  <2>1. /\ merged # << >> /\ got' = [got EXCEPT ![s] = @ + 1] /\ merged' = Tail(merged)
        /\ events' = events /\ merged \in Seq(Sources \X Nat)
    BY <1>2, Zenon DEF MainEvent, UserType
  <2>2. /\ Len(merged) > 0 /\ Len(merged) \in Nat /\ merged' \in Seq(Sources \X Nat)
        /\ Len(merged') = Len(merged) - 1 /\ merged[1] \in Sources \X Nat /\ s = merged[1][1]
        /\ \A i \in 1..(Len(merged) - 1) : merged'[i] = merged[i + 1]
        /\ DOMAIN merged = 1..Len(merged) /\ DOMAIN merged' = 1..(Len(merged) - 1)
    BY <2>1
  <2>3. s \in Sources
    BY <2>2, Zenon
  <2> HIDE DEF s
  <2>4. UserType'
    <3>1. got' \in [Sources -> Nat]
      <4>1. got' = [got EXCEPT ![s] = @ + 1]
        BY <2>1
      <4>2. got \in [Sources -> Nat]
        BY DEF UserType
      <4> QED
        BY <2>3, <4>1, <4>2
    <3>2. Len(merged') <= ChanCap
      BY <2>2, CollectorsAssumption DEF UserType
    <3> QED
      BY <1>1, <2>1, <2>2, <3>1, <3>2, Zenon DEF UserType
  <2>5. StageInv'
    BY <1>1, <1>2, <2>1, Zenon DEF StageInv
  <2>6. ASSUME ~ctx, NEW r \in Sources PROVE InOrder(r)'
    <3>1. InOrder(r) /\ InOrder(s)
      BY <2>3, <2>6 DEF InOrderNoLoss
    <3>2. PassedOn(r)' = PassedOn(r) /\ PassedOn(r) \in Int /\ got[r] \in Nat
      <4>1. PassedOn(r)' = PassedOn(r)
        BY <1>1, <2>1, Zenon DEF PassedOn
      <4> QED
        BY <4>1, WayFacts, Zenon
    <3>3. /\ \A i \in DOMAIN merged : merged[i][1] = r => merged[i][2] \in (got[r] + 1)..PassedOn(r)
          /\ \A n \in (got[r] + 1)..PassedOn(r) :
               \E i \in DOMAIN merged : merged[i][1] = r /\ merged[i][2] = n
      BY <3>1, InOrderPositions, Zenon DEF InOrder
    <3>4. \A i, j \in DOMAIN merged :
            i < j /\ merged[i][1] = r /\ merged[j][1] = r => merged[i][2] < merged[j][2]
      BY <3>1, Zenon DEF InOrder
    <3>5. r = s => /\ merged[1][2] = got[r] + 1 /\ got'[r] = got[r] + 1
                   /\ got[r] + 1 <= PassedOn(r)
      <4> SUFFICES ASSUME r = s
                   PROVE  /\ merged[1][2] = got[r] + 1 /\ got'[r] = got[r] + 1
                          /\ got[r] + 1 <= PassedOn(r)
        OBVIOUS
      <4>1. 1 \in DOMAIN merged /\ merged[1][1] = r
        BY <2>2
      <4>2. merged[1][2] \in (got[r] + 1)..PassedOn(r)
        BY <4>1, <3>3
      <4>3. got[r] + 1 \in (got[r] + 1)..PassedOn(r)
        BY <4>2, <3>2
      <4>4. PICK i \in DOMAIN merged : merged[i][1] = r /\ merged[i][2] = got[r] + 1
        BY <4>3, <3>3
      <4>5. i = 1
        <5>1. 1 < i => merged[1][2] < merged[i][2]
          BY <4>1, <4>4, <3>4
        <5>2. i \in Nat /\ i >= 1 /\ merged[1][2] \in Int /\ merged[1][2] >= got[r] + 1
          BY <4>2, <2>2, <3>2
        <5> QED
          BY <4>4, <5>1, <5>2, <3>2
      <4>6. got'[r] = got[r] + 1
        BY <2>1, <2>3 DEF UserType
      <4> QED
        BY <4>2, <4>4, <4>5, <4>6, <3>2
    <3>6. r # s => got'[r] = got[r]
      BY <2>1 DEF UserType
    <3>7. \A i \in DOMAIN merged' : i + 1 \in DOMAIN merged /\ merged'[i] = merged[i + 1] /\ 1 < i + 1
      BY <2>2
    <3>8. ASSUME NEW i \in DOMAIN merged', merged'[i][1] = r
          PROVE  merged'[i][2] \in (got'[r] + 1)..PassedOn(r)'
      <4>1. i + 1 \in DOMAIN merged /\ merged[i + 1][1] = r /\ merged'[i][2] = merged[i + 1][2] /\ 1 < i + 1
        BY <3>7, <3>8
      <4>2. merged[i + 1][2] \in (got[r] + 1)..PassedOn(r)
        BY <4>1, <3>3
      <4>3. r = s => merged[1][2] < merged[i + 1][2]
        <5>1. 1 \in DOMAIN merged
          BY <2>2
        <5> QED
          BY <5>1, <4>1, <3>4, <2>2, Zenon
      <4> QED
        BY <4>1, <4>2, <4>3, <3>2, <3>5, <3>6
    <3>9. ASSUME NEW n \in (got'[r] + 1)..PassedOn(r)'
          PROVE  \E i \in DOMAIN merged' : merged'[i][1] = r /\ merged'[i][2] = n
      <4>1. n \in (got[r] + 1)..PassedOn(r) /\ (r = s => n # got[r] + 1)
        BY <3>2, <3>5, <3>6
      <4>2. PICK i \in DOMAIN merged : merged[i][1] = r /\ merged[i][2] = n
        BY <4>1, <3>3
      <4>3. i # 1
        BY <4>1, <4>2, <3>5, <2>2
      <4>4. i - 1 \in DOMAIN merged' /\ merged'[i - 1] = merged[i]
        BY <4>3, <2>2
      <4> QED
        BY <4>2, <4>4
    <3>10. {e[2] : e \in {e \in Range(merged') : e[1] = r}} = (got'[r] + 1)..PassedOn(r)'
      BY <3>8, <3>9 DEF Range
    <3>11. \A i, j \in DOMAIN merged' :
             i < j /\ merged'[i][1] = r /\ merged'[j][1] = r => merged'[i][2] < merged'[j][2]
      <4> SUFFICES ASSUME NEW i \in DOMAIN merged', NEW j \in DOMAIN merged', i < j,
                          merged'[i][1] = r, merged'[j][1] = r
                   PROVE  merged'[i][2] < merged'[j][2]
        OBVIOUS
      <4>1. i + 1 \in DOMAIN merged /\ j + 1 \in DOMAIN merged /\ i + 1 < j + 1
        BY <2>2, <3>7
      <4> QED
        BY <4>1, <3>4, <3>7
    <3>12. /\ got'[r] <= PassedOn(r)'
           /\ held'[r] \in {0, PassedOn(r)' + 1}
           /\ \A i \in DOMAIN events'[r] :
                events'[r][i] = PassedOn(r)' + (IF held'[r] = 0 THEN 0 ELSE 1) + i
      BY <1>1, <2>1, <3>1, <3>2, <3>5, <3>6, Zenon DEF InOrder
    <3> QED
      BY <3>10, <3>11, <3>12, Zenon DEF InOrder
  <2>7. InOrderNoLoss'
    BY <1>1, <2>6 DEF InOrderNoLoss
  <2> QED
    BY <2>4, <2>5, <2>7
<1>3. CASE ~multi
  <2> DEFINE s == "ebpf"
  <2>1. /\ events[s] # << >> /\ got' = [got EXCEPT ![s] = @ + 1] /\ merged' = merged
        /\ events' = [events EXCEPT ![s] = Tail(@)] /\ s \in Sources
    BY <1>3 DEF MainEvent, Sources
  <2> HIDE DEF s
  <2>2. /\ events[s] \in Seq(Nat \ {0}) /\ events'[s] = Tail(events[s]) /\ got'[s] = got[s] + 1
        /\ got[s] \in Nat /\ nread[s] \in Nat
        /\ \A r \in Sources : r # s => events'[r] = events[r] /\ got'[r] = got[r]
    BY <2>1 DEF UserType
  <2>3. /\ Len(events[s]) > 0 /\ Len(events[s]) \in Nat /\ Len(events'[s]) = Len(events[s]) - 1
        /\ events'[s] \in Seq(Nat \ {0})
        /\ \A i \in 1..(Len(events[s]) - 1) : events'[s][i] = events[s][i + 1]
        /\ DOMAIN events[s] = 1..Len(events[s]) /\ DOMAIN events'[s] = 1..(Len(events[s]) - 1)
    <3> DEFINE q == events[s]
    <3>1. q \in Seq(Nat \ {0}) /\ q # << >> /\ events'[s] = Tail(q)
      BY <2>1, <2>2, Zenon
    <3> HIDE DEF q
    <3>2. /\ Len(q) > 0 /\ Len(q) \in Nat /\ Len(Tail(q)) = Len(q) - 1 /\ Tail(q) \in Seq(Nat \ {0})
          /\ \A i \in 1..(Len(q) - 1) : Tail(q)[i] = q[i + 1]
          /\ DOMAIN q = 1..Len(q) /\ DOMAIN Tail(q) = 1..(Len(q) - 1)
      BY <3>1
    <3> QED
      BY <3>1, <3>2 DEF q
  <2>4. UserType'
    <3>1. got' \in [Sources -> Nat] /\ events' \in [Sources -> Seq(Nat \ {0})]
      BY <2>1, <2>2, <2>3 DEF UserType
    <3>2. Len(events[s]) <= ChanCap
      BY <2>1 DEF UserType
    <3>3. Len(events'[s]) <= ChanCap
      BY <2>3, <3>2, CollectorsAssumption
    <3>4. \A r \in Sources : Len(events'[r]) <= ChanCap
      BY <2>2, <3>3, Zenon DEF UserType
    <3> QED
      BY <1>1, <2>1, <3>1, <3>4, Zenon DEF UserType
  <2>5. StageInv'
    <3>1. src[s] # "off" /\ \A r \in Sources : events[r] = << >> => events'[r] = << >>
      BY <2>1, <2>2 DEF StageInv
    <3> QED
      BY <1>1, <1>3, <2>1, <2>2, <3>1, Zenon DEF StageInv, s
  <2>6. ASSUME ~ctx PROVE InOrder(s)'
    <3>1. InOrder(s) /\ held[s] = 0 /\ merged = << >> /\ held'[s] = 0 /\ merged' = << >>
      BY <1>1, <1>3, <2>1, <2>6, Zenon DEF InOrderNoLoss, StageInv
    <3>2. PassedOn(s)' = PassedOn(s) + 1 /\ PassedOn(s) \in Int
      <4>1. nread'[s] = nread[s] /\ src'[s] = src[s]
        BY <1>1, Zenon
      <4> QED
        BY <4>1, <2>2, <2>3, <3>1 DEF PassedOn
    <3>3. PassedOn(s) = got[s]
      <4>1. {e[2] : e \in {e \in Range(merged) : e[1] = s}} = {}
        BY <3>1 DEF Range
      <4>2. (got[s] + 1)..PassedOn(s) = {} /\ got[s] <= PassedOn(s)
        BY <3>1, <4>1, Zenon DEF InOrder
      <4>3. got[s] + 1 \notin (got[s] + 1)..PassedOn(s)
        BY <4>2
      <4> QED
        BY <2>2, <3>2, <4>2, <4>3
    <3>4. \A i \in 1..Len(events[s]) : events[s][i] = PassedOn(s) + 0 + i
      BY <2>3, <3>1 DEF InOrder
    <3>5. ASSUME NEW i \in DOMAIN events'[s]
          PROVE  events'[s][i] = PassedOn(s)' + (IF held'[s] = 0 THEN 0 ELSE 1) + i
      <4>0. i \in 1..(Len(events[s]) - 1) /\ Len(events[s]) \in Nat
        BY <2>3, Zenon
      <4>1. i \in Nat /\ i + 1 \in 1..Len(events[s]) /\ events'[s][i] = events[s][i + 1]
        <5>1. i \in Nat /\ i + 1 \in 1..Len(events[s])
          BY <4>0
        <5> QED
          BY <2>3, <4>0, <5>1, Zenon
      <4>2. events[s][i + 1] = PassedOn(s) + 0 + (i + 1)
        BY <3>4, <4>1, Zenon
      <4> QED
        BY <3>1, <3>2, <4>1, <4>2
    <3>6. {e[2] : e \in {e \in Range(merged') : e[1] = s}} = (got'[s] + 1)..PassedOn(s)'
      BY <2>2, <3>1, <3>2, <3>3 DEF Range
    <3>7. got'[s] <= PassedOn(s)' /\ held'[s] \in {0, PassedOn(s)' + 1} /\ DOMAIN merged' = {}
      BY <2>2, <3>1, <3>2, <3>3
    <3> QED
      BY <3>5, <3>6, <3>7, Zenon DEF InOrder
  <2>7. InOrderNoLoss'
    BY <1>1, <2>1, <2>2, <2>6, InOrderFrame, Zenon DEF InOrderNoLoss
  <2> QED
    BY <2>4, <2>5, <2>7
<1> QED
  BY <1>2, <1>3

\* Every step keeps the invariant of the goroutines.
LEMMA UserNext == UserInv /\ [Next]_vars => UserInv'
<1> SUFFICES ASSUME UserInv, [Next]_vars PROVE UserInv'
  OBVIOUS
<1>1. CASE KernelStep /\ UNCHANGED user
  BY <1>1, UserKernelStep
<1>2. CASE (\E icmp \in BOOLEAN : Start(icmp)) \/ Cancel
  BY <1>2, UserStart, UserCancel
<1>3. CASE DecodeError
  BY <1>3, UserSourceIdle DEF Sources
<1>4. ASSUME NEW s \in Sources, SourceStep(s) PROVE UserInv'
  BY <1>4, UserRead, UserSendEvent, UserSourceIdle DEF SourceStep
<1>5. ASSUME NEW s \in Sources, ForwardStep(s) PROVE UserInv'
  BY <1>5, UserForwardTake, UserForwardPut, UserErrors DEF ForwardStep
<1>6. CASE CloseMerged \/ MainStep
  BY <1>6, UserErrors, UserMainEvent, UserMainEnds DEF MainStep
<1>7. CASE UNCHANGED vars
  <2>1. /\ UNCHANGED <<mode, ctx, multi, src, readerOpen, nread, events, errors, fwd, held, efwd>>
        /\ UNCHANGED <<merged, mergedErrors, mergedClosed, nilled, main, got>>
    BY <1>7 DEF vars, kernel, attachment, user, goroutines, forwarders, mergedChan, mainLoop
  <2>2. UserType'
    BY <2>1 DEF UserInv, UserType
  <2>3. StageInv'
    BY <2>1, Zenon DEF UserInv, StageInv
  <2>4. InOrderNoLoss'
    BY <2>1, InOrderFrame, Zenon DEF UserInv, InOrderNoLoss
  <2> QED
    BY <2>2, <2>3, <2>4 DEF UserInv
<1> QED
  BY <1>1, <1>2, <1>3, <1>4, <1>5, <1>6, <1>7 DEF Next

\* It holds throughout.
LEMMA UserAlways == Spec => []UserInv
BY UserInitially, UserNext, PTL DEF Spec

\* Ring buffer, channels and goroutines stay within their types and capacities.
THEOREM TypesHold == Spec => []TypeOK
<1>1. KernelInv /\ UserInv => TypeOK
  BY SourcesFacts, Zenon DEF KernelInv, KernelType, CallStates, Places, UserInv, UserType, TypeOK
<1> QED
  BY <1>1, KernelAlways, UserAlways, PTL

\* Whatever the capacities of the channels and however the goroutines interleave, run
\* receives the events of a source in the order they were read, each once and none lost,
\* until the context ends.
THEOREM OrderKept == Spec => []InOrderNoLoss
<1>1. UserInv => InOrderNoLoss
  BY DEF UserInv
<1> QED
  BY <1>1, UserAlways, PTL

\* The merged channels are closed after every forwarder has ended, and run returns without
\* a signal only with every event that was read.
THEOREM NothingLeftBehind == Spec => []ClosedIsDrained
<1>1. ASSUME UserInv, main = "returned", ~ctx, NEW s \in Sources
      PROVE  got[s] = nread[s]
  <2>1. UserType /\ StageInv /\ InOrder(s)
    BY <1>1 DEF UserInv, InOrderNoLoss
  <2>2. held[s] = 0 /\ events[s] = << >> /\ src[s] # "send" /\ merged = << >>
    <3>1. CASE mode = "failed"
      BY <1>1, <2>1, <3>1, Zenon DEF StageInv, Sources
    <3>2. CASE "events" \in nilled /\ multi
      BY <1>1, <2>1, <3>2, Zenon DEF StageInv
    <3>3. CASE "events" \in nilled /\ ~multi
      BY <1>1, <2>1, <3>3 DEF StageInv, Sources
    <3> QED
      BY <1>1, <2>1, <3>1, <3>2, <3>3, Zenon DEF StageInv
  <2>3. nread[s] \in Nat /\ got[s] \in Nat /\ PassedOn(s) = nread[s]
    BY <2>1, <2>2 DEF UserType, PassedOn
  <2>4. {e[2] : e \in {e \in Range(merged) : e[1] = s}} = {}
    BY <2>2 DEF Range
  <2>5. (got[s] + 1)..nread[s] = {} /\ got[s] <= nread[s]
    BY <2>1, <2>3, <2>4, Zenon DEF InOrder
  <2>6. got[s] + 1 \notin (got[s] + 1)..nread[s]
    BY <2>5
  <2> QED
    BY <2>3, <2>5, <2>6
<1>2. UserInv => ClosedIsDrained
  <2>1. ASSUME UserInv, main = "returned", ~ctx PROVE got = nread
    <3>1. got \in [Sources -> Nat] /\ nread \in [Sources -> Nat]
      BY <2>1, Zenon DEF UserInv, UserType
    <3>2. \A s \in Sources : got[s] = nread[s]
      BY <2>1, <1>1, Zenon
    <3> QED
      BY <3>1, <3>2
  <2> QED
    BY <2>1, Zenon DEF UserInv, StageInv, ClosedIsDrained
<1> QED
  BY <1>2, UserAlways, PTL
=============================================================================
