----------------------------- MODULE MCDnsLease -----------------------------
(***************************************************************************)
(* Instances of DnsLease for TLC: two network services, the DNS servers    *)
(* they start with and the ones that clients lease.                        *)
(***************************************************************************)
EXTENDS DnsLease

CONSTANTS wifi, usb, dhcp, lease1, lease2

MCService == {wifi, usb}
=============================================================================
