--------------------------- MODULE MCProcessRouter ---------------------------
(***************************************************************************)
(* ProcessRouter for TLC: the two relay rules, and one rule list of each   *)
(* kind.                                                                   *)
(***************************************************************************)
EXTENDS ProcessRouter

CONSTANTS empty, direct, proxy

MCOrder == <<"tcp", "udp">>
MCLeft == {None, [enabled |-> TRUE, rules |-> proxy]}
=============================================================================
