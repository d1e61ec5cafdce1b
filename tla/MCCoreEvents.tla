---------------------------- MODULE MCCoreEvents ----------------------------
(***************************************************************************)
(* Instance of the core manager and of the streams of its events, for what *)
(* must eventually happen.  They share no state (the hub has a mutex of    *)
(* its own and publishing never waits, PublishersGoOn); which one moves is *)
(* chosen at first.                                                        *)
(***************************************************************************)
EXTENDS CoreLifecycle, EventHub

VARIABLE part

MCInit == Init /\ HubInit /\ part \in {"manager", "events"}

MCNext ==
  /\ UNCHANGED part
  /\ \/ part = "manager" /\ Next /\ UNCHANGED hubVars
     \/ part = "events" /\ HubNext /\ UNCHANGED vars

\* Nothing that is fair is enabled in the part that does not move.
MCSpec == MCInit /\ [][MCNext]_<<vars, hubVars, part>> /\ Fairness /\ HubFairness
=============================================================================
