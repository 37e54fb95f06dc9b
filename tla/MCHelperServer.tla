---------------------------- MODULE MCHelperServer ----------------------------
(***************************************************************************)
(* Instances of HelperServer for TLC: file servers of every kind.          *)
(***************************************************************************)
EXTENDS HelperServer

CONSTANTS tx, ty,   \* texts
          settings, \* settings.json
          open,     \* a plain http file
          shy,      \* refuses HEAD, serves ranges
          plain,    \* refuses HEAD, ignores ranges, does not say its size
          hiding,   \* refuses HEAD, serves ranges, hides the size
          closed    \* refuses everything

Manners == [u \in Urls |->
    CASE u = open   -> [head |-> "ok",      range |-> "ranged",     sized |-> TRUE]
      [] u = shy    -> [head |-> "refused", range |-> "ranged",     sized |-> TRUE]
      [] u = plain  -> [head |-> "refused", range |-> "whole",      sized |-> FALSE]
      [] u = hiding -> [head |-> "refused", range |-> "untotalled", sized |-> TRUE]
      [] u = closed -> [head |-> "error",   range |-> "refused",    sized |-> TRUE]]

\* A text whose link leads to one file or another, and one for the other servers.
Leads == [t \in Texts |-> IF t = tx THEN {open, shy} ELSE {plain, hiding, closed}]

Mix(native, relay, puts, faults, exits, ticks) ==
    [native |-> native, relay |-> relay, put |-> puts, faults |-> faults, exits |-> exits,
     ticks |-> ticks]
\* Answers and their cache; a preflight and the relay it vouches for; updates and
\* a death; an answer and an update over a restart; a cache over a restart.
Mixes == {Mix(3, 0, 0, 0, 0, 3), Mix(1, 1, 0, 1, 0, 0), Mix(0, 0, 3, 0, 1, 0),
          Mix(1, 0, 1, 0, 1, 0), Mix(2, 0, 0, 0, 1, 0)}

Shipped == [k \in Keys |-> CHOOSE v \in Legal : TRUE]
==============================================================================
