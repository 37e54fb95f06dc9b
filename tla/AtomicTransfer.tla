---------------------------- MODULE AtomicTransfer ----------------------------
(***************************************************************************)
(* What run_download relies on when it calls a transfer routine of the     *)
(* native daemon: the routine returns once; if it says "ok" the final name *)
(* holds a whole file; if it says anything else the final name is as it    *)
(* was and no .part file is left for a later attempt to trip over.         *)
(***************************************************************************)
VARIABLES final,    \* what the final name holds
          part,     \* there is a .part file
          outcome   \* what the routine returned, "running" before

vars == <<final, part, outcome>>

\* "sized": some file of the expected size was there already; "other": a file of
\* another size; "torn" is what never may appear.
Finals   == {"none", "other", "sized", "whole", "torn"}
Outcomes == {"running", "ok", "stopped", "failed"}

Init == /\ final \in {"none", "other", "sized"}
        /\ part \in BOOLEAN
        /\ outcome = "running"

Work == /\ outcome = "running"
        /\ part' \in BOOLEAN
        /\ UNCHANGED <<final, outcome>>

AlreadyThere == /\ outcome = "running"
                /\ final = "sized"
                /\ outcome' = "ok"
                /\ UNCHANGED <<final, part>>

Publish == /\ outcome = "running"
           /\ final' = "whole"
           /\ part' = FALSE
           /\ outcome' = "ok"

GiveUp == /\ outcome = "running"
          /\ part' = FALSE
          /\ outcome' \in {"stopped", "failed"}
          /\ UNCHANGED final

Next == Work \/ AlreadyThere \/ Publish \/ GiveUp

Spec == Init /\ [][Next]_vars
==============================================================================
