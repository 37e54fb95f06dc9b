---------------------------- MODULE MCDesktopPanel ----------------------------
(***************************************************************************)
(* Instances of DesktopPanel for TLC.                                      *)
(***************************************************************************)
EXTENDS DesktopPanel

Mix(clicks, changes, faults, boots, helpers) ==
    [clicks |-> clicks, changes |-> changes, faults |-> faults, boots |-> boots,
     helper |-> helpers]
\* Clicks; other clients, a failure and a restart of the console around a click;
\* helpers started, stopped and met.
Mixes == {Mix(3, 0, 0, 0, 0), Mix(1, 1, 1, 1, 0), Mix(0, 0, 0, 0, 4)}
==============================================================================
