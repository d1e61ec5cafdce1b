---------------------------- MODULE ProcessRouter ----------------------------
(***************************************************************************)
(* processrouter.Manager on Windows: a native router process that sends    *)
(* the traffic of chosen applications through the proxy core, and the      *)
(* firewall rules of its relay ports.  Both exist only while routing is    *)
(* wanted and a client holds the lease, which every request, status poll   *)
(* and event-stream ping renews.                                           *)
(*                                                                         *)
(* Every operation runs under Manager.mu; todo holds the steps its holder  *)
(* still has to take, and <<>> means that the mutex is free.  Between two  *)
(* steps the router process may die, the proxy may come and go, other      *)
(* programs may edit the firewall and the service may crash.  Enable and   *)
(* ReplaceRules give the mutex up before they call Reconcile: pending      *)
(* counts those calls.                                                     *)
(*                                                                         *)
(* The service's crash or exit closes the job object of the router and     *)
(* with it kills the router; firewall rules and config.json stay.          *)
(***************************************************************************)
EXTENDS WinFirewall

CONSTANTS
  Ruleset,       \* the rule lists a client can send
  Enabled,       \* those with an enabled rule
  Proxied,       \* those with an enabled rule that goes through the proxy
  Empty,         \* the rule list without rules
  None,          \* no policy, no file
  Left,          \* the config.json files an earlier process may have left
  Rare,          \* "partial": Ensure may fail half-way after a removal
  MaxRequests,   \* bound: client requests
  MaxFaults,     \* bound: failing calls
  MaxEvents,     \* bound: router deaths, proxy changes, firewall edits
  MaxCrashes     \* bound: crashes and orderly exits of the service

ASSUME RouterAssumption ==
  /\ Proxied \subseteq Enabled /\ Enabled \subseteq Ruleset
  /\ Empty \in Ruleset \ Enabled
  /\ Left \subseteq [enabled: BOOLEAN, rules: Ruleset] \cup {None}
  /\ MaxRequests \in Nat /\ MaxFaults \in Nat
  /\ MaxEvents \in Nat /\ MaxCrashes \in Nat

VARIABLES
  desired, rules, gen, policy, state, leased,  \* Manager's fields; leased:
                            \* lastContact is at most clientLease old
  tracked,                  \* process # nil
  cleaned, ready, fresh,    \* firewallCleaned, firewallReady, and: the last
                            \* check is younger than firewallProbeInterval
  fw,                       \* the Windows Firewall
  file,                     \* config.json
  alive, loaded,            \* the router process and its latest command
  stray,                    \* a process whose Stop timed out still runs
  proxyUp,                  \* probeMihomo would succeed
  monitor,                  \* the monitor goroutine runs
  pending,                  \* Reconcile calls waiting for the mutex
  todo, op, failed,         \* the mutex holder: its steps, its operation and
                            \* whether a step has failed
  service,                  \* "down", "up" or "closing"
  quiet,                    \* history: a stop or a cleanup succeeded and
                            \* nothing has been asked for since
  requests, faults, events, crashes     \* budgets used

managerVars  == <<desired, rules, gen, policy, state, leased, tracked>>
firewallVars == <<cleaned, ready, fresh, fw>>
processVars  == <<alive, loaded, stray>>
holderVars   == <<todo, op, failed, quiet>>
budgetVars   == <<requests, faults, events, crashes>>
restVars     == <<file, proxyUp, monitor, pending, service>>
vars == <<managerVars, firewallVars, processVars, holderVars, budgetVars,
          restVars>>

Gen     == 0..(MaxRequests + 1)
Policy  == [gen: Gen, up: BOOLEAN]
Command == [rules: Ruleset, up: BOOLEAN]
Todo    == {<<>>, <<"ensure", "start", "send">>, <<"start", "send">>,
            <<"ensure", "send">>, <<"send">>, <<"stop">>, <<"stop", "remove">>,
            <<"stop", "remove", "unlink">>, <<"remove", "unlink">>,
            <<"remove">>, <<"unlink">>, <<"repair">>}
Op      == {"none", "reconcile", "disable", "cleanup", "repair", "close"}

\* Every variable has its type; in particular a router only ever loads
\* commands built from rules that passed validation.
TypeOK ==
  /\ desired \in BOOLEAN /\ rules \in Ruleset /\ leased \in BOOLEAN
  /\ gen \in Gen /\ policy \in Policy \cup {None} /\ tracked \in BOOLEAN
  /\ state \in {"stopped", "starting", "running", "blocked", "error"}
  /\ cleaned \in BOOLEAN /\ ready \in BOOLEAN /\ fresh \in BOOLEAN
  /\ fw \in [Name -> RuleState]
  /\ file \in [enabled: BOOLEAN, rules: Ruleset] \cup {None}
  /\ alive \in BOOLEAN /\ loaded \in Command \cup {None} /\ stray \in BOOLEAN
  /\ proxyUp \in BOOLEAN /\ monitor \in BOOLEAN
  /\ pending \in 0..(MaxRequests + 1)
  /\ todo \in Todo /\ op \in Op /\ failed \in BOOLEAN /\ quiet \in BOOLEAN
  /\ service \in {"down", "up", "closing"}
  /\ requests \in 0..MaxRequests /\ faults \in 0..MaxFaults
  /\ events \in 0..MaxEvents /\ crashes \in 0..MaxCrashes

\* The service is about to start, with what an earlier process of it left.
Init ==
  /\ desired = FALSE /\ rules = Empty /\ gen = 0 /\ policy = None
  /\ state = "stopped" /\ leased = FALSE /\ tracked = FALSE
  /\ cleaned = FALSE /\ ready = FALSE /\ fresh = FALSE
  /\ file \in Left
  /\ fw \in {[n \in Name |-> "none"], [n \in Name |-> "good"]}
  /\ NoOwnRule(fw) \/ file # None
  /\ alive = FALSE /\ loaded = None /\ stray = FALSE /\ proxyUp \in BOOLEAN
  /\ monitor = FALSE /\ pending = 0
  /\ todo = <<>> /\ op = "none" /\ failed = FALSE /\ quiet = FALSE
  /\ service = "down"
  /\ requests = 0 /\ faults = 0 /\ events = 0 /\ crashes = 0

Fault == faults < MaxFaults /\ faults' = faults + 1
NoFault == UNCHANGED faults
Free == todo = <<>> /\ service # "down"
At(step) == todo # <<>> /\ todo[1] = step

\* The holder goes on with the given steps, after one that may have failed.
\* With no step left it gives the mutex up.
Continue(rest, bad) ==
  /\ todo' = rest
  /\ failed' = (rest # <<>> /\ (failed \/ bad))
  /\ op' = IF rest = <<>> THEN "none" ELSE op
  /\ quiet' = (\/ quiet
               \/ /\ rest = <<>> /\ op \in {"disable", "cleanup"}
                  /\ ~failed /\ ~bad)

Hold(operation, steps, bad) ==
  /\ todo' = steps /\ op' = operation /\ failed' = bad

-----------------------------------------------------------------------------
(***************************************************************************)
(* Requests.  Each takes the mutex when it is free; the listeners are      *)
(* closed after the managers, so requests still come during a shutdown.    *)
(***************************************************************************)
Asked ==
  /\ Free /\ requests < MaxRequests
  /\ requests' = requests + 1 /\ UNCHANGED <<events, crashes>>

\* persistLocked: the file is replaced as a whole, or left as it was.
Persist(enabled, r) ==
  \/ file' = [enabled |-> enabled, rules |-> r] /\ NoFault
  \/ Fault /\ file' = file

\* Mutant: rules that do not pass validation are stored all the same.
ReplaceRulesUnchecked(r) ==
  /\ Asked /\ rules' \in {r, None} /\ leased' = TRUE
  /\ gen' = gen + 1 /\ policy' = None
  /\ UNCHANGED <<desired, state, tracked, firewallVars, processVars,
                 holderVars, faults, restVars>>

\* Mutant: the generation and the active policy survive new rules.
ReplaceRulesKeepsPolicy(r) ==
  /\ Asked /\ rules' = r /\ leased' = TRUE
  /\ Persist(desired, r)
  /\ pending' = pending + (IF desired /\ faults' = faults THEN 1 ELSE 0)
  /\ UNCHANGED <<desired, gen, policy, state, tracked, firewallVars,
                 processVars, holderVars, proxyUp, monitor, service>>

\* Rules that do not pass normalizeRulesRequest change nothing.
ReplaceRules(r) ==
  /\ Asked /\ rules' = r /\ leased' = TRUE
  /\ gen' = gen + 1 /\ policy' = None
  /\ Persist(desired, r)
  /\ pending' = pending + (IF desired /\ faults' = faults THEN 1 ELSE 0)
  /\ UNCHANGED <<desired, state, tracked, firewallVars, processVars,
                 holderVars, proxyUp, monitor, service>>

\* desired stays set when the file cannot be written.
Enable ==
  /\ Asked /\ rules \in Enabled
  /\ desired' = TRUE /\ cleaned' = FALSE /\ leased' = TRUE
  /\ Persist(TRUE, rules)
  /\ pending' = pending + (IF faults' = faults THEN 1 ELSE 0)
  /\ quiet' = FALSE
  /\ UNCHANGED <<rules, gen, policy, state, tracked, ready, fresh, fw,
                 processVars, todo, op, failed, proxyUp, monitor, service>>

Disable ==
  /\ Asked
  /\ desired' = FALSE /\ policy' = None /\ state' = "stopped"
  /\ Persist(FALSE, rules)
  /\ Hold("disable", <<"stop", "remove">>, faults' # faults)
  /\ UNCHANGED <<rules, gen, leased, tracked, firewallVars, processVars,
                 quiet, proxyUp, monitor, pending, service>>

Cleanup ==
  /\ Asked
  /\ desired' = FALSE /\ rules' = Empty /\ gen' = gen + 1
  /\ policy' = None /\ state' = "stopped"
  /\ Hold("cleanup", <<"stop", "remove", "unlink">>, FALSE)
  /\ UNCHANGED <<leased, tracked, firewallVars, processVars, quiet, faults,
                 restVars>>

RepairFirewall ==
  /\ Asked /\ leased' = TRUE /\ quiet' = FALSE
  /\ \/ Hold("repair", <<"repair">>, FALSE) /\ NoFault
     \/ Fault /\ UNCHANGED <<todo, op, failed>>   \* verifyProcessRouterIntegrity
  /\ UNCHANGED <<desired, rules, gen, policy, state, tracked, firewallVars,
                 processVars, restVars>>

RenewLease ==
  /\ Asked /\ desired /\ ~leased /\ leased' = TRUE
  /\ UNCHANGED <<desired, rules, gen, policy, state, tracked, firewallVars,
                 processVars, holderVars, faults, restVars>>

-----------------------------------------------------------------------------
(***************************************************************************)
(* Reconcile, up to its first call outside the process.                    *)
(***************************************************************************)
StopRouting ==
  /\ state' = "stopped"
  /\ Hold("reconcile", <<"stop", "remove">>, FALSE)
  /\ NoFault /\ UNCHANGED <<policy, tracked, quiet>>

KeepRouting ==
  LET running == tracked /\ alive
  IN  /\ tracked' = running
      /\ policy' = IF running THEN policy ELSE None
      /\ \/ /\ running /\ UNCHANGED state
            /\ Hold("reconcile", <<"ensure", "send">>, FALSE) /\ NoFault
         \/ /\ ~running /\ state' = "starting"
            /\ Hold("reconcile", <<"ensure", "start", "send">>, FALSE)
            /\ NoFault
         \/ /\ ~running /\ Fault /\ state' = "error"  \* integrity check
            /\ UNCHANGED <<todo, op, failed>>
      /\ UNCHANGED quiet

\* Mutant: the call that Enable makes after unlocking trusts its own wish.
ReconcileUnasked ==
  /\ Free
  /\ IF leased THEN KeepRouting ELSE StopRouting
  /\ UNCHANGED <<desired, rules, gen, leased, firewallVars, processVars,
                 requests, events, crashes, file, proxyUp, service>>

Reconcile ==
  /\ Free
  /\ \/ ~desired /\ UNCHANGED <<policy, state, tracked, holderVars, faults>>
     \/ desired /\ ~leased /\ StopRouting
     \/ desired /\ leased /\ KeepRouting
  /\ UNCHANGED <<desired, rules, gen, leased, firewallVars, processVars,
                 requests, events, crashes, file, proxyUp, service>>

RequestReconciles ==
  pending > 0 /\ pending' = pending - 1 /\ Reconcile /\ UNCHANGED monitor

\* The ticker fired.  A select that finds both the tick and a cancelled
\* context may still take the tick.
MonitorTick == monitor /\ Reconcile /\ UNCHANGED <<monitor, pending>>

MonitorExits ==
  /\ monitor /\ service = "closing" /\ monitor' = FALSE
  /\ UNCHANGED <<managerVars, firewallVars, processVars, holderVars,
                 budgetVars, file, proxyUp, pending, service>>

-----------------------------------------------------------------------------
(***************************************************************************)
(* The steps of the mutex holder.                                          *)
(***************************************************************************)
Idle == UNCHANGED <<desired, rules, gen, leased, requests, events, crashes,
                    proxyUp, monitor, pending, service>>

\* Mutant: rules that had to be recreated are not taken for present.
EnsuredStaysCleaned(force) ==
  /\ NoFault
  /\ \/ ~force /\ ready /\ fresh /\ UNCHANGED firewallVars
     \/ /\ force \/ ~ready \/ ~fresh
        /\ Reservable(fw)
        /\ fw' = Ensured(fw) /\ ready' = TRUE /\ fresh' = TRUE
        /\ UNCHANGED cleaned

\* ensureFirewallLocked succeeds: the last check is recent, or Check succeeds,
\* or Ensure and a second Check do.
EnsureSucceeds(force) ==
  /\ NoFault
  /\ \/ ~force /\ ready /\ fresh /\ UNCHANGED firewallVars
     \/ /\ force \/ ~ready \/ ~fresh
        /\ Reservable(fw)
        /\ fw' = Ensured(fw) /\ ready' = TRUE /\ fresh' = TRUE
        /\ cleaned' = (cleaned /\ Healthy(fw))

\* It fails: a reserved name is taken, or a call fails.
EnsureFailed(force) ==
  /\ force \/ ~ready \/ ~fresh
  /\ IF Reservable(fw) THEN Fault ELSE NoFault
  /\ fw' \in EnsureFails(fw)
  /\ cleaned /\ fw' # fw => "partial" \in Rare
  /\ ready' = FALSE /\ fresh' = TRUE /\ UNCHANGED cleaned

\* Mutant: a failed firewall check stops the router but not its status.
EnsureStepSilent ==
  /\ At("ensure")
  /\ \/ EnsureSucceeds(~tracked) /\ Continue(Tail(todo), FALSE)
     \/ EnsureFailed(~tracked) /\ Continue(<<"stop">>, TRUE)
  /\ Idle /\ UNCHANGED <<state, policy, tracked, processVars, file>>

EnsureStep ==
  /\ At("ensure")
  /\ \/ /\ EnsureSucceeds(~tracked) /\ Continue(Tail(todo), FALSE)
        /\ UNCHANGED state
     \/ /\ EnsureFailed(~tracked) /\ Continue(<<"stop">>, TRUE)
        /\ state' = "error"
  /\ Idle /\ UNCHANGED <<policy, tracked, processVars, file>>

\* Mutant: a router without its firewall rules goes on.
RepairStepKeepsRouter ==
  /\ At("repair")
  /\ EnsureSucceeds(TRUE) \/ EnsureFailed(TRUE)
  /\ Continue(<<>>, FALSE)
  /\ Idle /\ UNCHANGED <<state, policy, tracked, processVars, file>>

RepairStep ==
  /\ At("repair")
  /\ \/ /\ EnsureSucceeds(TRUE) /\ Continue(<<>>, FALSE) /\ UNCHANGED state
     \/ /\ EnsureFailed(TRUE)
        /\ Continue(IF desired THEN <<"stop">> ELSE <<>>, TRUE)
        /\ state' = IF desired THEN "error" ELSE state
  /\ Idle /\ UNCHANGED <<policy, tracked, processVars, file>>

\* startNativeProcess.  A process that does not become ready is stopped, and
\* that Stop may time out.
StartStep ==
  /\ At("start")
  /\ \/ /\ alive' = TRUE /\ loaded' = None /\ tracked' = TRUE
        /\ policy' = None
        /\ Continue(Tail(todo), FALSE) /\ NoFault /\ UNCHANGED <<state, stray>>
     \/ /\ Fault /\ state' = "error" /\ stray' \in {stray, TRUE}
        /\ Continue(<<"remove">>, TRUE)
        /\ UNCHANGED <<alive, loaded, tracked, policy>>
  /\ Idle /\ UNCHANGED <<firewallVars, file>>

\* The health of the proxy decides what the router does with proxied traffic.
Available == rules \notin Proxied \/ proxyUp
Health == state' = IF Available THEN "running" ELSE "blocked"

\* The policy sent last is not sent again.  A command whose acknowledgement is
\* late or lost may have been loaded.
SendStep ==
  LET wanted  == [gen |-> gen, up |-> Available]
      command == [rules |-> rules, up |-> Available]
  IN  /\ At("send")
      /\ \/ /\ policy = wanted /\ Health /\ Continue(<<>>, FALSE)
            /\ NoFault /\ UNCHANGED <<policy, loaded>>
         \/ /\ policy # wanted /\ alive
            /\ loaded' = command /\ policy' = wanted /\ Health
            /\ NoFault /\ Continue(<<>>, FALSE)
         \/ /\ policy # wanted
            /\ IF alive THEN Fault /\ loaded' \in {loaded, command}
                        ELSE NoFault /\ UNCHANGED loaded
            /\ state' = "error" /\ Continue(<<"stop", "remove">>, TRUE)
            /\ UNCHANGED policy
      /\ Idle /\ UNCHANGED <<tracked, alive, stray, firewallVars, file>>

\* Mutant: what Stop returns is ignored.
StopStepIgnores ==
  /\ At("stop")
  /\ tracked' = FALSE
  /\ \/ ~tracked /\ NoFault /\ Continue(Tail(todo), FALSE)
        /\ UNCHANGED <<policy, processVars>>
     \/ /\ tracked /\ policy' = None /\ alive' = FALSE /\ loaded' = None
        /\ Continue(Tail(todo), FALSE)
        /\ \/ NoFault /\ UNCHANGED stray
           \/ alive /\ Fault /\ stray' = TRUE
  /\ Idle /\ UNCHANGED <<state, firewallVars, file>>

\* stopProcessLocked lets go of the process before it stops it.
StopStep ==
  /\ At("stop")
  /\ tracked' = FALSE
  /\ \/ ~tracked /\ NoFault /\ Continue(Tail(todo), FALSE)
        /\ UNCHANGED <<policy, processVars>>
     \/ /\ tracked /\ policy' = None /\ alive' = FALSE /\ loaded' = None
        /\ \/ NoFault /\ Continue(Tail(todo), FALSE) /\ UNCHANGED stray
           \/ /\ alive /\ Fault /\ stray' = TRUE
              /\ Continue(Tail(todo), TRUE)
  /\ Idle /\ UNCHANGED <<state, firewallVars, file>>

RemoveStep ==
  /\ At("remove")
  /\ \/ cleaned /\ NoFault /\ Continue(Tail(todo), FALSE)
        /\ UNCHANGED firewallVars
     \/ /\ ~cleaned /\ ready' = FALSE /\ fresh' = FALSE
        /\ \/ /\ Removable(fw) /\ fw' = Removed(fw) /\ cleaned' = TRUE
              /\ NoFault /\ Continue(Tail(todo), FALSE)
           \/ /\ IF Removable(fw) THEN Fault ELSE NoFault
              /\ fw' \in RemoveFails(fw) /\ Continue(Tail(todo), TRUE)
              /\ UNCHANGED cleaned
  /\ Idle /\ UNCHANGED <<policy, state, tracked, processVars, file>>

UnlinkStep ==
  /\ At("unlink")
  /\ \/ file' = None /\ NoFault /\ Continue(<<>>, FALSE)
     \/ Fault /\ Continue(<<>>, TRUE) /\ UNCHANGED file
  /\ Idle /\ UNCHANGED <<policy, state, tracked, processVars, firewallVars>>

-----------------------------------------------------------------------------
(***************************************************************************)
(* The service starts, stops, and may crash at any moment.                 *)
(***************************************************************************)
\* Mutant: a failed restoration leaves the manager without a monitor.
RestoreOrGiveUp ==
  /\ service = "down" /\ service' = "up"
  /\ \/ /\ NoFault /\ monitor' = TRUE
        /\ \/ file = None /\ UNCHANGED <<desired, rules, gen, pending>>
           \/ /\ file # None /\ desired' = file.enabled /\ rules' = file.rules
              /\ gen' = gen + 1 /\ pending' = IF file.enabled THEN 1 ELSE 0
     \/ Fault /\ UNCHANGED <<desired, rules, gen, pending, monitor>>
  /\ UNCHANGED <<policy, state, leased, tracked, firewallVars, processVars,
                 holderVars, requests, events, crashes, file, proxyUp>>

\* Restore: the monitor starts even when the configuration cannot be loaded.
Restore ==
  /\ service = "down" /\ service' = "up" /\ monitor' = TRUE
  /\ \/ /\ NoFault
        /\ \/ file = None /\ UNCHANGED <<desired, rules, gen, pending>>
           \/ /\ file # None /\ desired' = file.enabled /\ rules' = file.rules
              /\ gen' = gen + 1 /\ pending' = IF file.enabled THEN 1 ELSE 0
     \/ Fault /\ UNCHANGED <<desired, rules, gen, pending>>
  /\ UNCHANGED <<policy, state, leased, tracked, firewallVars, processVars,
                 holderVars, requests, events, crashes, file, proxyUp>>

Close ==
  /\ Free /\ service = "up" /\ crashes < MaxCrashes
  /\ service' = "closing"
  /\ Hold("close", IF desired \/ tracked \/ ready THEN <<"stop", "remove">>
                                                  ELSE <<"stop">>, FALSE)
  /\ UNCHANGED <<managerVars, firewallVars, processVars, quiet, budgetVars,
                 file, proxyUp, monitor, pending>>

\* newManager's values, and a firewall, a file and a proxy as they were left.
Crash ==
  /\ service # "down" /\ service' = "down"
  /\ crashes < MaxCrashes /\ crashes' = crashes + 1
  /\ desired' = FALSE /\ rules' = Empty /\ gen' = 0 /\ policy' = None
  /\ state' = "stopped" /\ leased' = FALSE /\ tracked' = FALSE
  /\ cleaned' = FALSE /\ ready' = FALSE /\ fresh' = FALSE
  /\ alive' = FALSE /\ loaded' = None /\ stray' = FALSE
  /\ monitor' = FALSE /\ pending' = 0
  /\ todo' = <<>> /\ op' = "none" /\ failed' = FALSE
  /\ UNCHANGED <<fw, file, proxyUp, quiet, requests, faults, events>>

-----------------------------------------------------------------------------
(***************************************************************************)
(* The environment.                                                        *)
(***************************************************************************)
Event == events < MaxEvents /\ events' = events + 1
Unasked == UNCHANGED <<desired, rules, gen, policy, state, tracked, cleaned,
                       ready, holderVars, requests, faults, crashes, file,
                       monitor, pending, service>>

RouterDies ==
  /\ alive /\ Event /\ alive' = FALSE /\ loaded' = None
  /\ Unasked /\ UNCHANGED <<leased, fresh, fw, stray, proxyUp>>

ProxyChanges ==
  /\ Event /\ proxyUp' = ~proxyUp
  /\ Unasked /\ UNCHANGED <<leased, fresh, fw, processVars>>

\* Others delete or change rules; they do not add any to the group.
FirewallEdited ==
  /\ Event
  /\ \E n \in Name, s \in RuleState :
       /\ fw[n] # s /\ fw' = [fw EXCEPT ![n] = s]
       /\ Own(fw', n) => Own(fw, n) /\ s # "good"
  /\ Unasked /\ UNCHANGED <<leased, fresh, processVars, proxyUp>>

\* The age of a check only matters when it found the rules in order.
FirewallCheckAges ==
  /\ ready /\ fresh /\ fresh' = FALSE
  /\ Unasked /\ UNCHANGED <<leased, fw, processVars, proxyUp, events>>

LeaseExpires ==
  /\ leased /\ leased' = FALSE
  /\ Unasked /\ UNCHANGED <<fresh, fw, processVars, proxyUp, events>>

\* Closing the job object kills what did not stop in time, sooner or later if
\* the handle could be closed.
StrayDies ==
  /\ stray /\ stray' = FALSE
  /\ Unasked /\ UNCHANGED <<leased, fresh, fw, alive, loaded, proxyUp, events>>

HolderStep ==
  EnsureStep \/ RepairStep \/ StartStep \/ SendStep \/ StopStep \/ RemoveStep
  \/ UnlinkStep

Next ==
  \/ \E r \in Ruleset : ReplaceRules(r)
  \/ Enable \/ Disable \/ Cleanup \/ RepairFirewall \/ RenewLease
  \/ RequestReconciles \/ MonitorTick \/ MonitorExits
  \/ HolderStep
  \/ Restore \/ Close \/ Crash
  \/ RouterDies \/ ProxyChanges \/ FirewallEdited \/ FirewallCheckAges
  \/ LeaseExpires \/ StrayDies

Spec == Init /\ [][Next]_vars

(***************************************************************************)
(* Fairness: whoever holds the mutex finishes, since every call it makes   *)
(* has a timeout or is a local system call; the service is restarted; the  *)
(* monitor ticks every three seconds (strongly fair, because it competes   *)
(* for the mutex) and time passes.  The client need not renew its lease,   *)
(* nor stop renewing it.                                                   *)
(***************************************************************************)
Fairness ==
  /\ WF_vars(HolderStep) /\ WF_vars(Restore) /\ SF_vars(MonitorTick)
  /\ SF_vars(RequestReconciles) /\ WF_vars(FirewallCheckAges)
FairSpec == Spec /\ Fairness

-----------------------------------------------------------------------------
\* Reconcile sends rules only when the policy changed.  Whenever the mutex is
\* free, a recorded policy is what the tracked router really does, unless it
\* died: it has loaded the current rules, with the availability recorded.
PolicyInForce ==
  todo = <<>> /\ policy # None =>
    /\ tracked /\ policy.gen = gen
    /\ alive => loaded = [rules |-> rules, up |-> policy.up]

\* Between operations the manager has a router only if routing is wanted and
\* the firewall was found in order, and it still owes the firewall a cleanup.
RouterNeedsFirewall == todo = <<>> /\ tracked => desired /\ ready /\ ~cleaned

\* Status tells the truth about a router that has not died since the last
\* reconciliation: "running" or "blocked" is reported exactly when there is
\* one, and a blocked one does not let proxied traffic out directly.
StatusMatchesRouter ==
  todo = <<>> /\ service = "up" =>
    /\ tracked <=> state \in {"running", "blocked"}
    /\ state = "blocked" /\ policy # None => ~policy.up

\* removeFirewallLocked skips a firewall it has cleaned: the group then really
\* has no rule, whatever other programs did since.
CleanedIsClean == cleaned => NoOwnRule(fw)

\* After a successful stop or cleanup the manager's router has ended, no rule of
\* the group is left and no wish to route is on disk, whichever calls were still
\* under way and whether or not the service has crashed since.
StopLeaves ==
  quiet => ~alive /\ NoOwnRule(fw) /\ (file = None \/ ~file.enabled)

\* After a successful stop or cleanup nothing is left (stopProcessLocked,
\* removeFirewallLocked, persistLocked) but what an earlier operation has already
\* failed to stop: a router whose own Stop timed out is let go of, and may still
\* be running (stray) when a later stop, which does not know of it, succeeds.  A
\* stop whose own router outlives its Stop fails, and after one that succeeded
\* nothing else leaves a router behind.
StopLeavesNothing ==
  [][ /\ StopLeaves'
      /\ ~stray /\ stray' =>
           ~quiet' /\ (op' \in {"disable", "cleanup"} => failed') ]_vars

\* Once the outside world stops changing, routing settles: a wanted and leased
\* router runs with the current rules and the current state of the proxy, and
\* one whose lease lapsed is gone with its firewall rules.
Settled ==
  IF leased THEN /\ alive /\ tracked /\ Healthy(fw)
                 /\ loaded = [rules |-> rules, up |-> Available]
            ELSE ~alive /\ NoOwnRule(fw)
Settles ==
  <>[](service = "up" /\ desired /\ Removable(fw) => Settled)

\* Between two operations of the manager the router, the firewall, the policy
\* and the reported status agree, whatever failed on the way.
RouterSound ==
  /\ TypeOK
  /\ PolicyInForce
  /\ RouterNeedsFirewall
  /\ StatusMatchesRouter
  /\ CleanedIsClean
=============================================================================
