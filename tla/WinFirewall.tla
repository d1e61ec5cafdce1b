----------------------------- MODULE WinFirewall -----------------------------
(***************************************************************************)
(* internal/winfirewall: one pass over the Windows Firewall rules of an    *)
(* application's group.  A name carries no rule ("none"), exactly the      *)
(* wanted rule ("good"), own rules that are stale or duplicated ("bad"),   *)
(* only rules of other groups ("foreign"), or both ("mixed").  A pass      *)
(* deletes and adds rules one call at a time, and a call that fails ends   *)
(* it, so a failed pass leaves any prefix of its work behind.              *)
(***************************************************************************)
EXTENDS Naturals, Sequences

CONSTANTS
  Order,        \* the reserved names, in the order they are reconciled
  Legacy        \* names of the group that are only ever removed

Reserved == {Order[i] : i \in DOMAIN Order}
Name     == Reserved \cup Legacy
RuleState == {"none", "good", "bad", "foreign", "mixed"}

\* The group has rules: an empty one would be in order and clean at once.
ASSUME FirewallAssumption == Order \in Seq(Reserved) /\ Order # <<>>

Own(fw, n) == fw[n] \in {"good", "bad", "mixed"}
NoOwnRule(fw) == \A n \in Name : ~Own(fw, n)
SharedName(fw) == \E n \in Reserved : fw[n] \in {"foreign", "mixed"}

\* The preflight of Ensure and Check: no reserved name is another group's.
\* repairDuplicates is set, so duplicates are repaired.
Reservable(fw) == ~SharedName(fw)

\* The preflight of Remove also spares the foreign rules of legacy names.
Removable(fw) == Reservable(fw) /\ \A n \in Legacy : fw[n] # "mixed"

\* Check: every reserved name carries exactly the wanted rule.
Healthy(fw) == \A n \in Reserved : fw[n] = "good"

Repaired(fw, done) == [n \in Name |-> IF n \in done THEN "good" ELSE fw[n]]
First(k) == {Order[i] : i \in 1..k}

\* What Ensure leaves when every call succeeds.
Ensured(fw) == Repaired(fw, Reserved)

\* What Ensure leaves when a call fails: the first k names are repaired, and
\* the next one is as it was or already deleted.
EnsureFails(fw) ==
  LET Prefix == {Repaired(fw, First(k)) : k \in 0..Len(Order)}
      Deleted == {[Repaired(fw, First(k)) EXCEPT ![Order[k + 1]] = "none"] :
                     k \in {j \in 0..(Len(Order) - 1) :
                              fw[Order[j + 1]] \in {"none", "bad"}}}
  IN  IF Reservable(fw) THEN Prefix \cup Deleted ELSE {fw}

Without(fw, gone) ==
  [n \in Name |-> IF n \in gone /\ Own(fw, n) THEN "none" ELSE fw[n]]

\* What Remove leaves when every call succeeds, and when one fails.  The
\* group's rules come in no particular order.
Removed(fw) == Without(fw, Name)
RemoveFails(fw) ==
  IF Removable(fw) THEN {Without(fw, gone) : gone \in SUBSET Name} ELSE {fw}
=============================================================================
