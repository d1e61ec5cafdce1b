------------------------------ MODULE RuleStore ------------------------------
(***************************************************************************)
(* What becomes of the rules of a request: ReplaceRules validates,         *)
(* normalizes and saves them, a later process loads and validates them     *)
(* again, and the router gets the command built from them.  Requests are   *)
(* validated before the manager is locked (WildcardScan is the step of     *)
(* that for a Windows pattern); ProcessRouter has the manager's other      *)
(* state, for rules that are not looked into.                              *)
(***************************************************************************)
EXTENDS Integers, RouterRules, WildcardScan

CONSTANTS
  Requests,      \* the rules of requests
  Earlier,       \* the requests that may have been saved in the past
  NoFile,
  MaxReplaces, MaxSaves, MaxRestarts   \* MaxSaves bounds SaveRules and CleanupRules

Kind == {"", "path", "name", "other"}   \* "other": a string that is no match kind
Rule == [id: STRING, kind: Kind, path: STRING, name: STRING, protocol: STRING,
         action: STRING, enabled: BOOLEAN, priority: Int]

ASSUME StoreAssumption ==
  /\ Requests \subseteq Seq(Rule) /\ Earlier \subseteq Seq(Rule)
  /\ Rejected \notin Seq(Rule) /\ NoFile \notin Seq(Rule)
  /\ {MaxRules, MaxReplaces, MaxSaves, MaxRestarts} \subseteq Nat

VARIABLES
  rules,        \* Manager.rules
  config,       \* the rules in config.json
  asked,        \* history: the request that rules came from
  askedConfig,  \* history: the request that config came from
  replaces, saves, restarts

storeVars == <<rules, config, asked, askedConfig, replaces, saves, restarts>>

StoreInit ==
  /\ rules = <<>> /\ asked = <<>>
  /\ \/ config = NoFile /\ askedConfig = <<>>
     \/ /\ askedConfig \in Earlier /\ config = NormalizeRules(askedConfig)
        /\ config # Rejected
  /\ replaces = 0 /\ saves = 0 /\ restarts = 0

\* persistLocked: writes another file and renames it.
Persists == config' = rules' /\ askedConfig' = asked'
PersistFails == UNCHANGED <<config, askedConfig>>

\* A request that is rejected changes nothing.
ReplaceRules(request) ==
  LET normalized == NormalizeRules(request) IN
  /\ replaces < MaxReplaces /\ replaces' = replaces + 1
  /\ IF normalized = Rejected THEN UNCHANGED <<rules, asked, config, askedConfig>>
     ELSE rules' = normalized /\ asked' = request /\ (Persists \/ PersistFails)
  /\ UNCHANGED <<saves, restarts>>

\* Enable and Disable save the rules that are in memory.
SaveRules ==
  /\ saves < MaxSaves /\ saves' = saves + 1
  /\ UNCHANGED <<rules, asked>> /\ (Persists \/ PersistFails)
  /\ UNCHANGED <<replaces, restarts>>

\* Cleanup forgets the rules and removes the file, which may fail.
CleanupRules ==
  /\ saves < MaxSaves /\ saves' = saves + 1
  /\ rules' = <<>> /\ asked' = <<>>
  /\ (config' = NoFile /\ askedConfig' = <<>>) \/ PersistFails
  /\ UNCHANGED <<replaces, restarts>>

\* The next process: a new manager, and Restore with loadLocked.  If the file
\* cannot be read or is refused, the manager has no rules.
RestoreRules ==
  /\ restarts < MaxRestarts /\ restarts' = restarts + 1
  /\ \/ rules' = <<>> /\ asked' = <<>>
     \/ /\ config # NoFile /\ NormalizeRules(config) # Rejected
        /\ rules' = NormalizeRules(config) /\ asked' = askedConfig
  /\ UNCHANGED <<config, askedConfig, replaces, saves>>

StoreNext ==
  \/ \E request \in Requests : ReplaceRules(request)
  \/ SaveRules \/ CleanupRules \/ RestoreRules

RulesInit == StoreInit /\ ScanInit
RulesNext == (StoreNext /\ UNCHANGED matchVars) \/ (ScanNext /\ UNCHANGED storeVars)
RulesSpec == RulesInit /\ [][RulesNext]_<<storeVars, matchVars>>

-----------------------------------------------------------------------------
\* Through normalization, failed writes, restarts, command and matching, a
\* process falls under the rule that the request itself gives it, and no other.
FirstRuleDecides ==
  \A path \in Path, up \in BOOLEAN :
    TargetGroup(Targets(RouterCommand(rules, up)), path) = Verdict(asked, path, up)

\* loadLocked validates the stored rules again: what ReplaceRules accepted is
\* accepted after a restart, and nothing about it changes.
StoredAccepted == config # NoFile => NormalizeRules(config) = config

\* Rules mean after normalization, storage and conversion into a command what
\* the request said, and a pattern is refused exactly if it matches one of the
\* protected names it is compared with (normalizeRulesRequest, loadLocked,
\* buildRouterCommand, wildcardMatches).
RulesCorrect == FirstRuleDecides /\ StoredAccepted /\ ProtectedDecided
=============================================================================
