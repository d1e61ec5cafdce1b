--------------------------- MODULE MCDesiredCore ---------------------------
(***************************************************************************)
(* Instances of DesiredCore for TLC.                                       *)
(***************************************************************************)
EXTENDS DesiredCore, TLC

CONSTANTS c1, c2
MCClient == {c1, c2}
MCCaller == MCClient \cup {Watcher, Initial, Shutdown}

MCClientOne == {c1}
MCCallerOne == MCClientOne \cup {Watcher, Initial, Shutdown}

\* The clients are interchangeable.
ClientSymmetry == Permutations(MCClient)
=============================================================================
