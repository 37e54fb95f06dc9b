---------------------------- MODULE MCNativeQueue ----------------------------
(***************************************************************************)
(* Instances of NativeQueue for TLC: links that download to files of their *)
(* own (shared names are in the hazards, no property claims them safe).    *)
(***************************************************************************)
EXTENDS NativeQueue

CONSTANTS u1, u2, u3, u4,  \* links
          f0,              \* download.bin
          f1, f2, f3, f4  \* the files the links download to

OwnNames == [u \in Urls |-> CASE u = u1 -> f1 [] u = u2 -> f2 [] u = u3 -> f3
                             [] u = u4 -> f4]
==============================================================================
