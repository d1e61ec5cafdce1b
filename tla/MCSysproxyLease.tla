-------------------------- MODULE MCSysproxyLease --------------------------
(***************************************************************************)
(* SysproxyLease for TLC.                                                  *)
(***************************************************************************)
EXTENDS SysproxyLease

MCAllOps == {"set", "disable", "renew", "prepare", "adopt", "shutdown"}
MCNoRare == {}
=============================================================================
