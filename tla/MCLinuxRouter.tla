---------------------------- MODULE MCLinuxRouter ----------------------------
(***************************************************************************)
(* LinuxRouter and RuleStore for TLC.  They share no state; which of the   *)
(* router, the store of rules and the scan of a pattern moves is chosen at *)
(* first.                                                                  *)
(***************************************************************************)
EXTENDS LinuxRouter, RuleStore

CONSTANTS h1, h2

VARIABLE part

MCNameOf(p) == CASE p = "/bin/a" -> "a" [] p = "/opt/b" -> "b"

MCRule(id, kind, path, name, act, on, prio) ==
  [id |-> id, kind |-> kind, path |-> path, name |-> name, protocol |-> "both",
   action |-> act, enabled |-> on, priority |-> prio]

MCLists == {<<MCRule("1", "path", "/bin/a", "a", "proxy", TRUE, 1)>>,
            <<MCRule("1", "name", "", "b", "direct", TRUE, 1)>>}

\* Rules of every kind, valid or not: a path with its name or another one, a
\* name alone, a protected name, a priority that is out of range.
MCSample ==
  {MCRule(id, kind, pn[1], pn[2], act, on, prio) :
     id \in {"1", "2"}, kind \in {"", "name"},
     pn \in {<<"/bin/a", "a">>, <<"", "a">>, <<"/opt/b", "a">>,
             <<"/opt/b", "b">>},
     act \in {"proxy", "direct"}, on \in BOOLEAN, prio \in {1, 3}}
  \cup {MCRule("3", "name", "", "core", "block", TRUE, 2),
        MCRule("3", "name", "", "b", "block", TRUE, 0)}
MCRequests == {<<>>} \cup {<<r>> : r \in MCSample} \cup (MCSample \X MCSample)

MCRunning == {<<"/bin/a", "/opt/b">>, <<"/bin/a", None>>}
MCWhere == <<h1, h2>>
MCPath == {"/bin/a", "/opt/b"}
MCStrings(S, n) == UNION {[1..k -> S] : k \in 0..n}
MCPatterns == MCStrings({"a", "b", "*"}, 4)
MCNameSets == {{name} : name \in MCStrings({"a", "b"}, 4)}
                \cup {{<<"a", "b">>, <<"b", "a", "a">>}, {}}

MCInit ==
  /\ Init /\ RulesInit
  /\ part \in {"router", "store", "scan"}
  /\ part # "router" => exe[2] = None
  /\ part # "store" => config = NoFile
  /\ part # "scan" => pattern = <<>> /\ names = {}

MCNext ==
  /\ UNCHANGED part
  /\ \/ part = "router" /\ Next /\ UNCHANGED <<storeVars, matchVars>>
     \/ part = "store" /\ StoreNext /\ UNCHANGED <<vars, matchVars>>
     \/ part = "scan" /\ ScanNext /\ UNCHANGED <<vars, storeVars>>

MCSpec == MCInit /\ [][MCNext]_<<vars, storeVars, matchVars, part>> /\ Fairness
=============================================================================
