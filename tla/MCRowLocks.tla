----------------------------- MODULE MCRowLocks -----------------------------
(***************************************************************************)
(* Instances of RowLocks for TLC.                                          *)
(***************************************************************************)
EXTENDS RowLocks

CONSTANTS a1, a2

Op(op, agent) == [op |-> op, agent |-> agent]

\* A late handler, its retry and a probe of one agent; the telemetry of two agents;
\* an agent that registers again, and one that registers for the first time, during
\* telemetry and the sweep.
MCWorkloads ==
  { <<Op("Ingest", a1), Op("Ingest", a1), Op("RecordProbe", a1)>>,
    <<Op("Ingest", a1), Op("Ingest", a2), Op("Heartbeat", a1)>>,
    <<Op("Ingest", a1), Op("Register", a1), Op("Sweep", a1)>>,
    <<Op("Ingest", a1), Op("Register", a2), Op("Sweep", a1)>>,
    <<Op("RecordProbe", a1), Op("Register", a1), Op("Register", a2)>> }
=============================================================================
