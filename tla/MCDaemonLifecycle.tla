-------------------------- MODULE MCDaemonLifecycle --------------------------
(***************************************************************************)
(* An instance of DaemonLifecycle for TLC: builds for two ports.           *)
(***************************************************************************)
EXTENDS DaemonLifecycle

CONSTANTS d1, d2, d3,   \* processes
          p2634, p2644  \* KNOWN_HTTP_PORTS

BuiltFor   == [i \in Instances |-> IF i = d2 THEN p2644 ELSE p2634]
KnownPorts == <<p2634, p2644>>
==============================================================================
