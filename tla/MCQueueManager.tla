--------------------------- MODULE MCQueueManager ---------------------------
(***************************************************************************)
(* Instances of QueueManager for TLC: one to three items, each with a file *)
(* name of its own and the names auto-rename makes of it.                  *)
(***************************************************************************)
EXTENDS QueueManager

CONSTANTS i1, i2, i3,  \* items
          u1, u2,      \* their links
          a, a1, a2,   \* "a.bin", "a (1).bin", "a (1) (1).bin"
          b, b1        \* "b.bin", "b (1).bin"

\* The last item needs the user: it has no resolved URL.
Links   == [i \in Items |-> CASE i = i1 -> u1 [] i = i2 -> u2 [] OTHER -> NoUrl]

Names   == [u \in {u1, u2} |-> IF u = u1 THEN a ELSE b]
Numbers == [p \in {a, a1, a2, b, b1} |->
              CASE p = a  -> <<a, a1, a2>>
                [] p = a1 -> <<a1, a2>>
                [] p = b  -> <<b, b1>>
                [] OTHER  -> <<p>>]

\* No two items of these share a name.
ASSUME NamesAssumption == OwnNames

Mix(items, menu, ops, faults) ==
    [items |-> items, menu |-> menu, ops |-> ops, faults |-> faults]
\* Either server with pauses, cancels, failures and restarts; deletions, also with
\* a restart in their middle; two items, or one without a URL, for one thread at a
\* time.
Mixes == {Mix({i1}, {"start", "pause", "cancel", "restart"}, 3, 1),
          Mix({i2}, {"start", "pause", "cancel", "restart"}, 3, 1),
          Mix({i1}, {"start", "cancel", "delete", "restart"}, 3, 0),
          Mix({i1, i3}, {"start", "pause", "cancel", "delete"}, 2, 1),
          Mix({i1, i2}, {"start", "delete"}, 3, 0)}

Starts == {Mix({i1}, {"start"}, 2, 0)}
=============================================================================
