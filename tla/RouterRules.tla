----------------------------- MODULE RouterRules -----------------------------
(***************************************************************************)
(* The rules of application routing: what a request must satisfy, the      *)
(* command built from it, and which rule a process falls under, on the     *)
(* Linux platform.                                                         *)
(*                                                                         *)
(* A rule names an executable by path or by file name; both are taken from *)
(* small sets of valid ones, NameOf gives the file name of a path, and ""  *)
(* is an absent path or match kind.                                        *)
(***************************************************************************)
EXTENDS Naturals, Sequences, FiniteSets

CONSTANTS
  Path,        \* executable paths that are absolute and canonical
  NameOf(_),   \* the file name of a path
  Protected,   \* file names that may not be routed
  MaxRules,    \* maxRules
  Rejected     \* the result of normalizing an invalid request

Action   == {"proxy", "direct", "block"}
Protocol == {"tcp", "udp", "both"}
Group    == Action \X Protocol        \* linuxRoutingGroups

KindOf(r) == IF r.kind = "" THEN "path" ELSE r.kind
Identifier(r) == IF KindOf(r) = "name" THEN <<"name", r.name>>
                                       ELSE <<"path", r.path>>

\* validateRule.  A name stands for all its spellings in upper and lower case,
\* which the code compares with EqualFold; the limits on the length of texts and
\* on the size of a request are left out.
ValidRule(r) ==
  /\ r.id # ""
  /\ \/ KindOf(r) = "path" /\ r.path \in Path
     \/ KindOf(r) = "name" /\ r.path \in Path \cup {""}
  /\ r.path # "" => NameOf(r.path) = r.name
  /\ r.name \notin Protected
  /\ r.protocol \in Protocol /\ r.action \in Action
  /\ r.priority \in 1..MaxRules

Distinct(keys) == \A i, j \in DOMAIN keys : keys[i] = keys[j] => i = j

\* No two rules share an identity, an executable or a priority.
NoDuplicates(rules) ==
  /\ Distinct([i \in DOMAIN rules |-> rules[i].id])
  /\ Distinct([i \in DOMAIN rules |-> Identifier(rules[i])])
  /\ Distinct([i \in DOMAIN rules |-> rules[i].priority])

\* Where the rule at position i goes when the rules are sorted.
Rank(rules, i) ==
  1 + Cardinality({j \in DOMAIN rules : rules[j].priority < rules[i].priority})

\* Mutant: the rules are renumbered from zero.
NormalizeFromZero(rules) ==
  IF /\ Len(rules) <= MaxRules
     /\ \A i \in DOMAIN rules : ValidRule(rules[i])
     /\ NoDuplicates(rules)
  THEN [k \in DOMAIN rules |->
          LET r == rules[CHOOSE i \in DOMAIN rules : Rank(rules, i) = k]
          IN  [r EXCEPT !.priority = k - 1, !.kind = KindOf(r)]]
  ELSE Rejected

\* normalizeRulesRequest: the rules sorted by priority and renumbered, or a
\* rejection.  Priorities are distinct, so that the order is determined.
NormalizeRules(rules) ==
  IF /\ Len(rules) <= MaxRules
     /\ \A i \in DOMAIN rules : ValidRule(rules[i])
     /\ NoDuplicates(rules)
  THEN [k \in DOMAIN rules |->
          LET r == rules[CHOOSE i \in DOMAIN rules : Rank(rules, i) = k]
          IN  [r EXCEPT !.priority = k, !.kind = KindOf(r)]]
  ELSE Rejected

\* Mutant: disabled rules and a proxy that is down are left to the receiver.
CommandPassesProxy(rules, up) ==
  [k \in DOMAIN rules |->
     [match |-> Identifier(rules[k]), enabled |-> rules[k].enabled,
      group |-> <<rules[k].action, rules[k].protocol>>]]

\* buildRouterCommand: proxy rules block while the proxy is unavailable.
RouterCommand(rules, up) ==
  [k \in DOMAIN rules |->
     [match |-> Identifier(rules[k]), enabled |-> rules[k].enabled,
      group |-> <<IF rules[k].action = "proxy" /\ ~up THEN "block"
                                                      ELSE rules[k].action,
                  rules[k].protocol>>]]

HasProxyRules(rules) ==
  \E k \in DOMAIN rules : rules[k].enabled /\ rules[k].action = "proxy"

\* The targets that Send makes of a command: its enabled rules, in order (each
\* keeps its position in the command).
Targets(command) == [k \in {i \in DOMAIN command : command[i].enabled} |-> command[k]]

\* targetGroup: the first target that names the executable, {} if none does.
TargetGroup(targets, path) ==
  LET Hits == {k \in DOMAIN targets :
                 targets[k].match \in {<<"path", path>>, <<"name", NameOf(path)>>}}
  IN  {targets[k].group : k \in {h \in Hits : \A g \in Hits : h <= g}}

-----------------------------------------------------------------------------
(***************************************************************************)
(* What a process falls under, said of the request itself: the enabled     *)
(* rule with the least priority that names it by path or by file name; a   *)
(* rule meant for an unavailable proxy blocks.                             *)
(***************************************************************************)
Verdict(rules, path, up) ==
  LET Naming == {k \in DOMAIN rules :
                   /\ rules[k].enabled
                   /\ Identifier(rules[k])
                        \in {<<"path", path>>, <<"name", NameOf(path)>>}}
      First == {k \in Naming : \A j \in Naming :
                   rules[k].priority <= rules[j].priority}
      Meant(r) == IF r.action # "proxy" \/ up THEN r.action ELSE "block"
  IN  {<<Meant(rules[k]), rules[k].protocol>> : k \in First}
=============================================================================
