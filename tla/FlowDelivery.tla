---------------------------- MODULE FlowDelivery ----------------------------
(***************************************************************************)
(* What the agent's delivery path promises about a capture event, with the *)
(* accumulator, the channel, the sender and the network left out.          *)
(*                                                                         *)
(* An admitted event is counted by the backend between zero and            *)
(* MaxAttempts times.  The agent confirms it only once it has been counted,*)
(* or it abandons it; both are final, but a request still under way may be *)
(* counted afterwards.                                                     *)
(***************************************************************************)
EXTENDS Naturals

CONSTANTS Events, MaxAttempts

VARIABLES admitted, applied, confirmed, abandoned

vars == <<admitted, applied, confirmed, abandoned>>

Open == admitted \ (confirmed \cup abandoned)

Init ==
  /\ admitted = {}
  /\ applied = [e \in Events |-> 0]
  /\ confirmed = {}
  /\ abandoned = {}

Admit(e) ==
  /\ e \notin admitted
  /\ admitted' = admitted \cup {e}
  /\ UNCHANGED <<applied, confirmed, abandoned>>

\* One request, carrying the events S of one flow state, is counted.
Count(S) ==
  /\ S \subseteq admitted
  /\ \A e \in S : applied[e] < MaxAttempts
  /\ applied' = [e \in Events |-> IF e \in S THEN applied[e] + 1 ELSE applied[e]]
  /\ UNCHANGED <<admitted, confirmed, abandoned>>

Confirm(S) ==
  /\ S \subseteq Open
  /\ \A e \in S : applied[e] > 0
  /\ confirmed' = confirmed \cup S
  /\ UNCHANGED <<admitted, applied, abandoned>>

Abandon(S) ==
  /\ S \subseteq Open
  /\ abandoned' = abandoned \cup S
  /\ UNCHANGED <<admitted, applied, confirmed>>

Next ==
  \/ \E e \in Events : Admit(e)
  \/ \E S \in SUBSET Events : Count(S) \/ Confirm(S) \/ Abandon(S)

Spec == Init /\ [][Next]_vars

=============================================================================
