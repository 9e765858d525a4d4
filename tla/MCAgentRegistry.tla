-------------------------- MODULE MCAgentRegistry --------------------------
(***************************************************************************)
(* Instances of AgentRegistry for TLC.                                     *)
(***************************************************************************)
EXTENDS AgentRegistry, TLC

CONSTANTS a1, a2

MCMachine == [a \in {a1, a2} |-> IF a = a1 THEN "m1" ELSE "m2"]
MCMAC == [a \in {a1, a2} |-> IF a = a1 THEN "mac1" ELSE "mac2"]

\* a1 alone, whose requests may outlive their client; a1, whose requests do not,
\* with the row of a2, which has gone, still holding an address a1 may be given.
MCWorkloads ==
  { [addresses |-> (a1 :> {"ip1"}), departed |-> << >>, orphans |-> 1],
    [addresses |-> (a1 :> {"ip1", "ip2"}), departed |-> (a2 :> "ip1"),
     orphans |-> 0] }

\* Two agents that are given the same address.
MCShared ==
  { [addresses |-> [a \in {a1, a2} |-> {"ip1"}], departed |-> << >>, orphans |-> 0] }
=============================================================================
