---------------------------- MODULE RouterProofs ----------------------------
(***************************************************************************)
(* Proofs about ProcessRouter: between two operations of the manager its   *)
(* fields, the router process, the firewall and the reported status agree  *)
(* (RouterSound), and a successful stop leaves nothing behind              *)
(* (StopLeavesNothing), for any rule lists, names, bounds and faults.      *)
(*                                                                         *)
(* Both speak of moments when the mutex is free.  The inductive invariant  *)
(* RouterInv says what holds after each step of its holder: which steps    *)
(* the operation can still have to take (HolderType), and what the steps   *)
(* before have established for them.                                       *)
(***************************************************************************)
EXTENDS ProcessRouter, SequenceTheorems, TLAPS

-----------------------------------------------------------------------------
(***************************************************************************)
(* The inductive invariant.                                                *)
(***************************************************************************)
FlagType ==
  /\ desired \in BOOLEAN /\ leased \in BOOLEAN /\ tracked \in BOOLEAN
  /\ cleaned \in BOOLEAN /\ ready \in BOOLEAN /\ fresh \in BOOLEAN
  /\ alive \in BOOLEAN /\ stray \in BOOLEAN /\ proxyUp \in BOOLEAN
  /\ monitor \in BOOLEAN /\ failed \in BOOLEAN /\ quiet \in BOOLEAN

\* Each request, and the start of the service, makes at most one generation of
\* rules and one call of Reconcile.
CountType ==
  /\ requests \in 0..MaxRequests /\ faults \in 0..MaxFaults
  /\ events \in 0..MaxEvents /\ crashes \in 0..MaxCrashes
  /\ gen \in Nat /\ gen <= requests + 1
  /\ pending \in Nat /\ pending <= requests + 1

StoredFile == [enabled: BOOLEAN, rules: Ruleset]
RulesType ==
  /\ rules \in Ruleset /\ file \in StoredFile \cup {None}
  /\ loaded \in Command \cup {None}

PolicyType == policy \in [gen: Nat, up: BOOLEAN] \cup {None}

StateType == state \in {"stopped", "starting", "running", "blocked", "error"}

FirewallType == fw \in [Name -> RuleState]

(***************************************************************************)
(* The lists of steps that the holder of the mutex may have before it.     *)
(***************************************************************************)
Nothing      == <<>>
EnsureStart  == <<"ensure", "start", "send">>
StartSend    == <<"start", "send">>
EnsureSend   == <<"ensure", "send">>
SendOnly     == <<"send">>
StopOnly     == <<"stop">>
StopRemove   == <<"stop", "remove">>
StopAll      == <<"stop", "remove", "unlink">>
RemoveUnlink == <<"remove", "unlink">>
RemoveOnly   == <<"remove">>
UnlinkOnly   == <<"unlink">>
RepairOnly   == <<"repair">>

ToStop   == todo \in {StopOnly, StopRemove, StopAll}
ToRemove == todo \in {RemoveUnlink, RemoveOnly}

\* The steps that each operation can have before it.
HolderType ==
  /\ service \in {"down", "up", "closing"}
  /\ \/ op = "none" /\ todo = Nothing
     \/ op = "reconcile" /\ todo \in {EnsureStart, StartSend, EnsureSend, SendOnly,
                                      StopOnly, StopRemove, RemoveOnly}
     \/ op = "disable" /\ todo \in {StopRemove, RemoveOnly}
     \/ op = "cleanup" /\ todo \in {StopAll, RemoveUnlink, UnlinkOnly}
     \/ op = "repair" /\ todo \in {RepairOnly, StopOnly}
     \/ op = "close" /\ todo \in {StopRemove, StopOnly, RemoveOnly}

\* A process of the service that has not started is as newManager makes it.
NewWhenDown ==
  service = "down" =>
    /\ todo = Nothing /\ ~desired /\ ~tracked /\ ~cleaned
    /\ policy = None /\ state = "stopped" /\ gen = 0 /\ pending = 0

\* The router process at each step: what was let go of does not run, and what
\* has to be started is not there yet.
RouterAtStep ==
  /\ alive => tracked
  /\ todo \in {SendOnly, EnsureSend} => tracked
  /\ todo \in {StartSend, EnsureStart, UnlinkOnly} \/ ToRemove => ~tracked

\* A recorded policy is in force until the router is to be stopped.
PolicyHeld ==
  policy # None =>
    /\ tracked /\ policy.gen = gen
    /\ alive /\ ~ToStop => loaded = [rules |-> rules, up |-> policy.up]

\* A router that is not to be stopped is wanted and has its firewall rules, and
\* so is the one that is to be started.
RouterBacked ==
  /\ tracked /\ ~ToStop => desired /\ ready
  /\ todo = StartSend => desired /\ ready
  /\ todo \in {EnsureStart, EnsureSend} => desired

\* The status is right except while an operation has still to make it so.
StatusHeld ==
  service = "up" =>
    /\ todo \in {Nothing, RepairOnly} => (tracked <=> state \in {"running", "blocked"})
    /\ ToStop \/ ToRemove \/ todo = UnlinkOnly => state \notin {"running", "blocked"}
BlockedHeld == state = "blocked" /\ policy # None => ~policy.up

\* The manager owes a cleanup before it has, or will have, a router.
CleanupOwed == tracked \/ todo = StartSend => ~cleaned

\* What an operation that stops routing has achieved so far.
NotEnabled == file = None \/ ~file.enabled
StopDone ==
  /\ op \in {"disable", "cleanup"} => ~desired
  /\ op = "disable" /\ ~failed => NotEnabled
CleanDone == todo = UnlinkOnly /\ ~failed => NoOwnRule(fw)

\* While nothing is asked for, nothing is wanted, in memory or on disk, and no
\* operation is under way that would make a router or a rule.
QuietHeld ==
  quiet =>
    /\ ~desired /\ ~tracked /\ NotEnabled
    /\ todo \notin {EnsureStart, EnsureSend, StartSend, SendOnly, RepairOnly}

QuietClean == quiet => NoOwnRule(fw)

Types == /\ FlagType /\ CountType /\ RulesType /\ PolicyType /\ StateType
         /\ FirewallType /\ HolderType

RouterInv ==
  /\ Types /\ NewWhenDown /\ RouterAtStep /\ PolicyHeld /\ RouterBacked
  /\ StatusHeld /\ BlockedHeld /\ CleanupOwed /\ CleanedIsClean /\ StopDone
  /\ CleanDone /\ QuietHeld /\ QuietClean

-----------------------------------------------------------------------------
(***************************************************************************)
(* The holder's steps.                                                     *)
(***************************************************************************)
\* The lists of steps differ.
LEMMA StepsDiffer ==
  /\ Nothing \notin {EnsureStart, StartSend, EnsureSend, SendOnly, StopOnly, StopRemove,
                     StopAll, RemoveUnlink, RemoveOnly, UnlinkOnly, RepairOnly}
  /\ EnsureStart \notin {StartSend, EnsureSend, SendOnly, StopOnly, StopRemove, StopAll,
                         RemoveUnlink, RemoveOnly, UnlinkOnly, RepairOnly}
  /\ StartSend \notin {EnsureSend, SendOnly, StopOnly, StopRemove, StopAll,
                       RemoveUnlink, RemoveOnly, UnlinkOnly, RepairOnly}
  /\ EnsureSend \notin {SendOnly, StopOnly, StopRemove, StopAll, RemoveUnlink,
                        RemoveOnly, UnlinkOnly, RepairOnly}
  /\ SendOnly \notin {StopOnly, StopRemove, StopAll, RemoveUnlink, RemoveOnly,
                      UnlinkOnly, RepairOnly}
  /\ StopOnly \notin {StopRemove, StopAll, RemoveUnlink, RemoveOnly, UnlinkOnly, RepairOnly}
  /\ StopRemove \notin {StopAll, RemoveUnlink, RemoveOnly, UnlinkOnly, RepairOnly}
  /\ StopAll \notin {RemoveUnlink, RemoveOnly, UnlinkOnly, RepairOnly}
  /\ RemoveUnlink \notin {RemoveOnly, UnlinkOnly, RepairOnly}
  /\ RemoveOnly \notin {UnlinkOnly, RepairOnly} /\ UnlinkOnly # RepairOnly
BY DEF Nothing, EnsureStart, StartSend, EnsureSend, SendOnly, StopOnly, StopRemove,
       StopAll, RemoveUnlink, RemoveOnly, UnlinkOnly, RepairOnly

\* What is left of each list of steps when its first has been taken.
LEMMA Tails ==
  /\ Tail(EnsureStart) = StartSend /\ Tail(StartSend) = SendOnly
  /\ Tail(EnsureSend) = SendOnly /\ Tail(StopOnly) = Nothing
  /\ Tail(StopRemove) = RemoveOnly /\ Tail(StopAll) = RemoveUnlink
  /\ Tail(RemoveUnlink) = UnlinkOnly /\ Tail(RemoveOnly) = Nothing
BY DEF Nothing, EnsureStart, StartSend, EnsureSend, SendOnly, StopOnly, StopRemove,
       StopAll, RemoveUnlink, RemoveOnly, UnlinkOnly

\* Which lists begin with which step.
LEMMA FirstSteps ==
  ASSUME HolderType
  PROVE  /\ At("ensure") => todo \in {EnsureStart, EnsureSend} /\ op = "reconcile"
         /\ At("start") => todo = StartSend /\ op = "reconcile"
         /\ At("send") => todo = SendOnly /\ op = "reconcile"
         /\ At("stop") => ToStop
         /\ At("remove") => ToRemove
         /\ At("unlink") => todo = UnlinkOnly
         /\ At("repair") => todo = RepairOnly /\ op = "repair"
BY DEF HolderType, At, ToStop, ToRemove, Nothing, EnsureStart, StartSend, EnsureSend,
       SendOnly, StopOnly, StopRemove, StopAll, RemoveUnlink, RemoveOnly, UnlinkOnly,
       RepairOnly

LEMMA ContinueDoes ==
  ASSUME NEW rest, NEW bad \in BOOLEAN, Continue(rest, bad)
  PROVE  /\ todo' = rest
         /\ rest = Nothing => op' = "none" /\ ~failed'
         /\ rest # Nothing => op' = op /\ (failed' <=> failed \/ bad)
         /\ quiet' <=> \/ quiet
                       \/ /\ rest = Nothing /\ op \in {"disable", "cleanup"}
                          /\ ~failed /\ ~bad
BY DEF Continue, Nothing

LEMMA FreeMeans == Free => todo = Nothing /\ service # "down"
BY DEF Free, Nothing

Counted == faults' = faults \/ (faults < MaxFaults /\ faults' = faults + 1)

LEMMA FaultCounted == Fault \/ NoFault => Counted
BY DEF Fault, NoFault, Counted

-----------------------------------------------------------------------------
(***************************************************************************)
(* The firewall.                                                           *)
(***************************************************************************)
\* Every pass over the firewall leaves a state of it.
LEMMA PassType ==
  ASSUME NEW f \in [Name -> RuleState]
  PROVE  /\ Ensured(f) \in [Name -> RuleState] /\ Removed(f) \in [Name -> RuleState]
         /\ EnsureFails(f) \subseteq [Name -> RuleState]
         /\ RemoveFails(f) \subseteq [Name -> RuleState]
<1>1. \A done : Repaired(f, done) \in [Name -> RuleState]
  BY DEF Repaired, RuleState
<1>2. \A gone : Without(f, gone) \in [Name -> RuleState]
  BY DEF Without, RuleState
<1>3. EnsureFails(f) \subseteq [Name -> RuleState]
  <2> SUFFICES ASSUME NEW g \in EnsureFails(f) PROVE g \in [Name -> RuleState]
    OBVIOUS
  <2>1. CASE ~Reservable(f)
    BY <2>1 DEF EnsureFails
  <2>2. CASE \E k : g = Repaired(f, First(k))
    BY <2>2, <1>1
  <2>3. CASE \E k : g = [Repaired(f, First(k)) EXCEPT ![Order[k + 1]] = "none"]
    <3>1. PICK k : g = [Repaired(f, First(k)) EXCEPT ![Order[k + 1]] = "none"]
      BY <2>3
    <3>2. Repaired(f, First(k)) \in [Name -> RuleState] /\ "none" \in RuleState
      BY <1>1 DEF RuleState
    <3>3. QED
      BY <3>1, <3>2
  <2>4. QED
    BY <2>1, <2>2, <2>3 DEF EnsureFails
<1>4. QED
  BY <1>1, <1>2, <1>3 DEF Ensured, Removed, RemoveFails

\* A removal that succeeds leaves no rule of the group, and one that fails
\* makes none.
LEMMA RemovalCleans ==
  ASSUME NEW f \in [Name -> RuleState]
  PROVE  /\ NoOwnRule(Removed(f))
         /\ NoOwnRule(f) => \A g \in RemoveFails(f) : NoOwnRule(g)
BY DEF NoOwnRule, Removed, RemoveFails, Without, Own

\* A group whose rules are in order is not clean.
LEMMA HealthyIsNotClean ==
  ASSUME NEW f, Healthy(f)
  PROVE  ~NoOwnRule(f)
<1>1. 1 \in DOMAIN Order
  BY FirewallAssumption
<1>2. Order[1] \in Reserved /\ Order[1] \in Name
  BY <1>1 DEF Reserved, Name
<1>3. QED
  BY <1>2 DEF Healthy, NoOwnRule, Own

-----------------------------------------------------------------------------
(***************************************************************************)
(* What the actions do to the operation that is under way.                 *)
(***************************************************************************)
\* A firewall pass of Ensure succeeds.
PassSucceeds(forced) ==
  \/ ~forced /\ ready /\ UNCHANGED firewallVars
  \/ /\ fw' = Ensured(fw) /\ ready' = TRUE
     /\ (cleaned' <=> cleaned /\ Healthy(fw))

\* It fails.
PassFails ==
  /\ fw' \in EnsureFails(fw) /\ (cleaned /\ fw' # fw => "partial" \in Rare)
  /\ ready' = FALSE /\ UNCHANGED cleaned

LEMMA PassDoes ==
  ASSUME NEW forced \in BOOLEAN, FlagType
  PROVE  /\ EnsureSucceeds(forced) => PassSucceeds(forced) /\ Counted
         /\ EnsureFailed(forced) => PassFails /\ Counted
<1>1. EnsureSucceeds(forced) => PassSucceeds(forced) /\ Counted
  BY FaultCounted DEF EnsureSucceeds, PassSucceeds, FlagType
<1>2. EnsureFailed(forced) => PassFails /\ Counted
  BY FaultCounted DEF EnsureFailed, PassFails
<1>3. QED
  BY <1>1, <1>2

LEMMA EnsureDoes ==
  ASSUME HolderType, FlagType, EnsureStep
  PROVE  /\ todo \in {EnsureStart, EnsureSend}
         /\ op = "reconcile" /\ op' = "reconcile" /\ (quiet' <=> quiet)
         /\ Idle /\ Counted /\ UNCHANGED <<policy, tracked, alive, loaded, stray, file>>
         /\ \/ /\ PassSucceeds(~tracked) /\ UNCHANGED state
               /\ todo = EnsureStart => todo' = StartSend
               /\ todo = EnsureSend => todo' = SendOnly
            \/ PassFails /\ state' = "error" /\ todo' = StopOnly
<1>1. At("ensure") /\ todo \in {EnsureStart, EnsureSend} /\ op = "reconcile"
  BY FirstSteps DEF EnsureStep
<1>2. Idle /\ UNCHANGED <<policy, tracked, alive, loaded, stray, file>>
  BY DEF EnsureStep, processVars
<1>3. CASE EnsureSucceeds(~tracked) /\ Continue(Tail(todo), FALSE) /\ UNCHANGED state
  <2>1. Tail(todo) # Nothing /\ (todo = EnsureStart => Tail(todo) = StartSend)
          /\ (todo = EnsureSend => Tail(todo) = SendOnly)
    BY <1>1, Tails, StepsDiffer
  <2>2. PassSucceeds(~tracked) /\ Counted
    BY <1>3, PassDoes DEF FlagType
  <2>3. QED
    BY <1>1, <1>2, <1>3, <2>1, <2>2, ContinueDoes
<1>4. CASE EnsureFailed(~tracked) /\ Continue(<<"stop">>, TRUE) /\ state' = "error"
  <2>1. Continue(StopOnly, TRUE)
    BY <1>4 DEF StopOnly
  <2>2. PassFails /\ Counted
    BY <1>4, PassDoes DEF FlagType
  <2>3. QED
    BY <1>1, <1>2, <1>4, <2>1, <2>2, ContinueDoes, StepsDiffer
<1>5. QED
  BY <1>3, <1>4 DEF EnsureStep

LEMMA RepairDoes ==
  ASSUME HolderType, FlagType, RepairStep
  PROVE  /\ todo = RepairOnly /\ op = "repair" /\ (quiet' <=> quiet)
         /\ Idle /\ Counted /\ UNCHANGED <<policy, tracked, alive, loaded, stray, file>>
         /\ \/ PassSucceeds(TRUE) /\ UNCHANGED state /\ todo' = Nothing /\ op' = "none"
            \/ PassFails /\ ~desired /\ UNCHANGED state /\ todo' = Nothing /\ op' = "none"
            \/ PassFails /\ desired /\ state' = "error" /\ todo' = StopOnly /\ op' = "repair"
<1>1. At("repair") /\ todo = RepairOnly /\ op = "repair"
  BY FirstSteps DEF RepairStep
<1>2. Idle /\ UNCHANGED <<policy, tracked, alive, loaded, stray, file>>
  BY DEF RepairStep, processVars
<1>3. CASE EnsureSucceeds(TRUE) /\ Continue(<<>>, FALSE) /\ UNCHANGED state
  <2>1. Continue(Nothing, FALSE)
    BY <1>3 DEF Nothing
  <2>2. PassSucceeds(TRUE) /\ Counted
    BY <1>3, PassDoes
  <2>3. QED
    BY <1>1, <1>2, <1>3, <2>1, <2>2, ContinueDoes
<1>4. CASE /\ EnsureFailed(TRUE) /\ Continue(IF desired THEN <<"stop">> ELSE <<>>, TRUE)
           /\ state' = IF desired THEN "error" ELSE state
  <2>1. PassFails /\ Counted
    BY <1>4, PassDoes
  <2>2. CASE desired
    <3>1. Continue(StopOnly, TRUE)
      BY <1>4, <2>2 DEF StopOnly
    <3>2. QED
      BY <1>1, <1>2, <1>4, <2>1, <2>2, <3>1, ContinueDoes, StepsDiffer
  <2>3. CASE ~desired
    <3>1. Continue(Nothing, TRUE)
      BY <1>4, <2>3 DEF Nothing
    <3>2. QED
      BY <1>1, <1>2, <1>4, <2>1, <2>3, <3>1, ContinueDoes
  <2>4. QED
    BY <2>2, <2>3
<1>5. QED
  BY <1>3, <1>4 DEF RepairStep

LEMMA StartDoes ==
  ASSUME HolderType, StartStep
  PROVE  /\ todo = StartSend /\ op = "reconcile" /\ op' = "reconcile" /\ (quiet' <=> quiet)
         /\ Idle /\ Counted /\ UNCHANGED <<cleaned, ready, fresh, fw, file>>
         /\ \/ /\ todo' = SendOnly /\ UNCHANGED state
               /\ alive' = TRUE /\ loaded' = None /\ tracked' = TRUE /\ policy' = None
            \/ /\ todo' = RemoveOnly /\ state' = "error"
               /\ UNCHANGED <<alive, loaded, tracked, policy>>
<1>1. At("start") /\ todo = StartSend /\ op = "reconcile"
  BY FirstSteps DEF StartStep
<1>2. Idle /\ Counted /\ UNCHANGED <<cleaned, ready, fresh, fw, file>>
  BY FaultCounted DEF StartStep, firewallVars
<1>3. CASE /\ alive' = TRUE /\ loaded' = None /\ tracked' = TRUE
           /\ policy' = None
           /\ Continue(Tail(todo), FALSE) /\ UNCHANGED state
  <2>1. Continue(SendOnly, FALSE)
    BY <1>1, <1>3, Tails
  <2>2. QED
    BY <1>1, <1>2, <1>3, <2>1, ContinueDoes, StepsDiffer
<1>4. CASE /\ state' = "error" /\ Continue(<<"remove">>, TRUE)
           /\ UNCHANGED <<alive, loaded, tracked, policy>>
  <2>1. Continue(RemoveOnly, TRUE)
    BY <1>4 DEF RemoveOnly
  <2>2. QED
    BY <1>1, <1>2, <1>4, <2>1, ContinueDoes, StepsDiffer
<1>5. QED
  BY <1>3, <1>4 DEF StartStep

LEMMA SendDoes ==
  ASSUME HolderType, SendStep
  PROVE  /\ todo = SendOnly /\ op = "reconcile" /\ (quiet' <=> quiet)
         /\ Idle /\ Counted
         /\ UNCHANGED <<tracked, alive, stray, cleaned, ready, fresh, fw, file>>
         /\ \/ /\ todo' = Nothing /\ op' = "none" /\ Health
               /\ policy' = [gen |-> gen, up |-> Available]
               /\ \/ policy' = policy /\ UNCHANGED loaded
                  \/ loaded' = [rules |-> rules, up |-> Available]
            \/ /\ todo' = StopRemove /\ op' = "reconcile" /\ state' = "error"
               /\ UNCHANGED policy
               /\ loaded' \in {loaded, [rules |-> rules, up |-> Available]}
<1> DEFINE wanted == [gen |-> gen, up |-> Available]
           command == [rules |-> rules, up |-> Available]
<1>1. At("send") /\ todo = SendOnly /\ op = "reconcile"
  BY FirstSteps DEF SendStep
<1>2. /\ Idle /\ Counted
      /\ UNCHANGED <<tracked, alive, stray, cleaned, ready, fresh, fw, file>>
  BY FaultCounted DEF SendStep, firewallVars
<1> HIDE DEF wanted, command
<1>3. CASE policy = wanted /\ Health /\ Continue(<<>>, FALSE) /\ UNCHANGED <<policy, loaded>>
  <2>1. Continue(Nothing, FALSE)
    BY <1>3 DEF Nothing
  <2>2. QED
    BY <1>1, <1>2, <1>3, <2>1, ContinueDoes DEF wanted
<1>4. CASE loaded' = command /\ policy' = wanted /\ Health /\ Continue(<<>>, FALSE)
  <2>1. Continue(Nothing, FALSE)
    BY <1>4 DEF Nothing
  <2>2. QED
    BY <1>1, <1>2, <1>4, <2>1, ContinueDoes DEF wanted, command
<1>5. CASE /\ loaded' \in {loaded, command}
           /\ state' = "error" /\ Continue(<<"stop", "remove">>, TRUE)
           /\ UNCHANGED policy
  <2>1. Continue(StopRemove, TRUE)
    BY <1>5 DEF StopRemove
  <2>2. QED
    BY <1>1, <1>2, <1>5, <2>1, ContinueDoes, StepsDiffer DEF command
<1>6. QED
  BY <1>3, <1>4, <1>5 DEF SendStep, wanted, command

\* A step of a stop leaves the next one, and with none the mutex is free; what
\* was asked for is done if none has failed.
Goes(rest, bad) ==
  /\ todo' = rest
  /\ IF rest = Nothing
     THEN /\ op' = "none" /\ ~failed'
          /\ quiet' <=> quiet \/ (op \in {"disable", "cleanup"} /\ ~failed /\ ~bad)
     ELSE op' = op /\ (failed' <=> failed \/ bad) /\ (quiet' <=> quiet)

LEMMA ContinueGoes ==
  ASSUME NEW rest, NEW bad \in BOOLEAN, Continue(rest, bad)
  PROVE  Goes(rest, bad)
BY ContinueDoes DEF Goes

NextStop ==
  CASE todo = StopOnly -> Nothing [] todo = StopRemove -> RemoveOnly
    [] todo = StopAll -> RemoveUnlink
NextRemove == IF todo = RemoveOnly THEN Nothing ELSE UnlinkOnly

LEMMA NextSteps ==
  /\ ToStop => Tail(todo) = NextStop
  /\ ToRemove => Tail(todo) = NextRemove
BY Tails, StepsDiffer DEF ToStop, ToRemove, NextStop, NextRemove

LEMMA StopDoes ==
  ASSUME HolderType, StopStep
  PROVE  /\ ToStop /\ (Goes(NextStop, TRUE) \/ Goes(NextStop, FALSE))
         /\ Idle /\ Counted /\ tracked' = FALSE
         /\ UNCHANGED <<state, cleaned, ready, fresh, fw, file>>
         /\ \/ ~tracked /\ UNCHANGED <<policy, alive, loaded, stray>>
            \/ policy' = None /\ alive' = FALSE /\ loaded' = None
<1>1. ToStop /\ Tail(todo) = NextStop
  BY FirstSteps, NextSteps DEF StopStep
<1>2. /\ Idle /\ Counted /\ tracked' = FALSE
      /\ UNCHANGED <<state, cleaned, ready, fresh, fw, file>>
  BY FaultCounted DEF StopStep, firewallVars
<1>3. Continue(NextStop, TRUE) \/ Continue(NextStop, FALSE)
  BY <1>1 DEF StopStep
<1>4. \/ ~tracked /\ UNCHANGED <<policy, alive, loaded, stray>>
      \/ policy' = None /\ alive' = FALSE /\ loaded' = None
  BY DEF StopStep, processVars
<1>5. QED
  BY <1>1, <1>2, <1>3, <1>4, ContinueGoes

LEMMA RemoveDoes ==
  ASSUME HolderType, RemoveStep
  PROVE  /\ ToRemove /\ Idle /\ Counted
         /\ UNCHANGED <<policy, state, tracked, alive, loaded, stray, file>>
         /\ \/ cleaned /\ UNCHANGED <<cleaned, ready, fresh, fw>> /\ Goes(NextRemove, FALSE)
            \/ /\ ~cleaned /\ ready' = FALSE /\ fresh' = FALSE
               /\ \/ fw' = Removed(fw) /\ cleaned' = TRUE /\ Goes(NextRemove, FALSE)
                  \/ fw' \in RemoveFails(fw) /\ UNCHANGED cleaned /\ Goes(NextRemove, TRUE)
<1>1. ToRemove /\ Tail(todo) = NextRemove
  BY FirstSteps, NextSteps DEF RemoveStep
<1>2. Idle /\ Counted /\ UNCHANGED <<policy, state, tracked, alive, loaded, stray, file>>
  BY FaultCounted DEF RemoveStep, processVars
<1>3. \/ cleaned /\ UNCHANGED <<cleaned, ready, fresh, fw>> /\ Continue(NextRemove, FALSE)
      \/ /\ ~cleaned /\ ready' = FALSE /\ fresh' = FALSE
         /\ \/ fw' = Removed(fw) /\ cleaned' = TRUE /\ Continue(NextRemove, FALSE)
            \/ fw' \in RemoveFails(fw) /\ UNCHANGED cleaned /\ Continue(NextRemove, TRUE)
  BY <1>1 DEF RemoveStep, firewallVars
<1>4. QED
  BY <1>1, <1>2, <1>3, ContinueGoes

LEMMA UnlinkDoes ==
  ASSUME HolderType, UnlinkStep
  PROVE  /\ todo = UnlinkOnly /\ Idle /\ Counted
         /\ UNCHANGED <<policy, state, tracked, alive, loaded, stray, cleaned, ready,
                        fresh, fw>>
         /\ \/ file' = None /\ Goes(Nothing, FALSE)
            \/ UNCHANGED file /\ Goes(Nothing, TRUE)
<1>1. todo = UnlinkOnly
  BY FirstSteps DEF UnlinkStep
<1>2. /\ Idle /\ Counted
      /\ UNCHANGED <<policy, state, tracked, alive, loaded, stray, cleaned, ready, fresh, fw>>
  BY FaultCounted DEF UnlinkStep, processVars, firewallVars
<1>3. \/ file' = None /\ Continue(Nothing, FALSE)
      \/ UNCHANGED file /\ Continue(Nothing, TRUE)
  BY DEF UnlinkStep, Nothing
<1>4. QED
  BY <1>1, <1>2, <1>3, ContinueGoes

LEMMA DisableDoes ==
  ASSUME Disable
  PROVE  /\ Asked /\ todo = Nothing /\ todo' = StopRemove /\ op' = "disable"
         /\ (failed' <=> faults' # faults)
         /\ desired' = FALSE /\ policy' = None /\ state' = "stopped" /\ Counted
         /\ \/ file' = [enabled |-> FALSE, rules |-> rules] /\ faults' = faults
            \/ faults' = faults + 1 /\ file' = file
         /\ UNCHANGED <<rules, gen, leased, tracked, cleaned, ready, fresh, fw, alive,
                        loaded, stray, quiet, proxyUp, monitor, pending, service>>
BY FaultCounted, FreeMeans
   DEF Disable, Asked, Persist, Hold, StopRemove, Fault, NoFault, firewallVars, processVars

LEMMA CleanupDoes ==
  ASSUME Cleanup
  PROVE  /\ Asked /\ todo = Nothing /\ todo' = StopAll /\ op' = "cleanup" /\ ~failed'
         /\ desired' = FALSE /\ rules' = Empty /\ gen' = gen + 1
         /\ policy' = None /\ state' = "stopped"
         /\ UNCHANGED <<leased, tracked, cleaned, ready, fresh, fw, alive, loaded, stray,
                        quiet, faults, file, proxyUp, monitor, pending, service>>
BY FreeMeans
   DEF Cleanup, Asked, Hold, StopAll, firewallVars, processVars, restVars

LEMMA RepairFirewallDoes ==
  ASSUME RepairFirewall
  PROVE  /\ Asked /\ todo = Nothing /\ leased' = TRUE /\ quiet' = FALSE /\ Counted
         /\ \/ todo' = RepairOnly /\ op' = "repair" /\ ~failed'
            \/ UNCHANGED <<todo, op, failed>>
         /\ UNCHANGED <<desired, rules, gen, policy, state, tracked, cleaned, ready, fresh,
                        fw, alive, loaded, stray, file, proxyUp, monitor, pending, service>>
BY FaultCounted, FreeMeans
   DEF RepairFirewall, Asked, Hold, RepairOnly, firewallVars, processVars, restVars

ReconcileFrame ==
  UNCHANGED <<desired, rules, gen, leased, cleaned, ready, fresh, fw, alive, loaded,
              stray, requests, events, crashes, file, proxyUp, service, quiet>>

LEMMA ReconcileDoes ==
  ASSUME Reconcile
  PROVE  /\ todo = Nothing /\ service # "down" /\ ReconcileFrame /\ Counted
         /\ \/ UNCHANGED <<policy, state, tracked, todo, op, failed>>
            \/ /\ desired /\ state' = "stopped" /\ todo' = StopRemove /\ op' = "reconcile"
               /\ ~failed' /\ UNCHANGED <<policy, tracked>>
            \/ /\ desired /\ tracked /\ alive /\ tracked' = TRUE
               /\ UNCHANGED <<policy, state>>
               /\ todo' = EnsureSend /\ op' = "reconcile" /\ ~failed'
            \/ /\ desired /\ ~(tracked /\ alive) /\ tracked' = FALSE /\ policy' = None
               /\ \/ /\ state' = "starting" /\ todo' = EnsureStart /\ op' = "reconcile"
                     /\ ~failed'
                  \/ state' = "error" /\ UNCHANGED <<todo, op, failed>>
<1>1. todo = Nothing /\ service # "down" /\ ReconcileFrame /\ Counted
  BY FreeMeans, FaultCounted
     DEF Reconcile, ReconcileFrame, StopRouting, KeepRouting, Hold, firewallVars,
         processVars, holderVars, NoFault
<1>2. CASE ~desired /\ UNCHANGED <<policy, state, tracked, holderVars, faults>>
  BY <1>1, <1>2 DEF holderVars
<1>3. CASE desired /\ StopRouting
  BY <1>1, <1>3 DEF StopRouting, Hold, StopRemove
<1>4. CASE desired /\ KeepRouting
  BY <1>1, <1>4 DEF KeepRouting, Hold, EnsureSend, EnsureStart
<1>5. QED
  BY <1>2, <1>3, <1>4 DEF Reconcile

LEMMA CloseDoes ==
  ASSUME Close
  PROVE  /\ todo = Nothing /\ todo' \in {StopRemove, StopOnly} /\ op' = "close" /\ ~failed'
         /\ service' = "closing"
         /\ UNCHANGED <<desired, rules, gen, policy, state, leased, tracked, cleaned, ready,
                        fresh, fw, alive, loaded, stray, quiet, requests, faults, events,
                        crashes, file, proxyUp, monitor, pending>>
BY FreeMeans
   DEF Close, Hold, StopRemove, StopOnly, managerVars, firewallVars, processVars, budgetVars

LEMMA CrashDoes ==
  ASSUME Crash
  PROVE  /\ service' = "down" /\ todo' = Nothing /\ op' = "none" /\ failed' = FALSE
         /\ crashes < MaxCrashes /\ crashes' = crashes + 1
         /\ desired' = FALSE /\ rules' = Empty /\ gen' = 0 /\ policy' = None
         /\ state' = "stopped" /\ leased' = FALSE /\ tracked' = FALSE
         /\ cleaned' = FALSE /\ ready' = FALSE /\ fresh' = FALSE
         /\ alive' = FALSE /\ loaded' = None /\ stray' = FALSE
         /\ monitor' = FALSE /\ pending' = 0
         /\ UNCHANGED <<fw, file, proxyUp, quiet, requests, faults, events>>
BY DEF Crash, Nothing

LEMMA StepCounts == HolderStep => Idle /\ Counted
<1> USE FaultCounted
<1>1. EnsureStep => Idle /\ Counted
  BY DEF EnsureStep, EnsureSucceeds, EnsureFailed
<1>2. RepairStep => Idle /\ Counted
  BY DEF RepairStep, EnsureSucceeds, EnsureFailed
<1>3. StartStep \/ SendStep \/ UnlinkStep => Idle /\ Counted
  BY DEF StartStep, SendStep, UnlinkStep
<1>4. StopStep \/ RemoveStep => Idle /\ Counted
  BY DEF StopStep, RemoveStep
<1>5. QED
  BY <1>1, <1>2, <1>3, <1>4 DEF HolderStep

\* Other programs add no rule to the group.
LEMMA EditMakesNone ==
  ASSUME FirewallType, FirewallEdited, NoOwnRule(fw)
  PROVE  NoOwnRule(fw')
BY DEF FirewallType, FirewallEdited, NoOwnRule, Own

-----------------------------------------------------------------------------
(***************************************************************************)
(* Each part of the invariant is kept by every action.                     *)
(***************************************************************************)

\* Flags stay Booleans.
LEMMA FlagTypeStep ==
  ASSUME FlagType, RulesType, [Next]_vars
  PROVE  FlagType'
<1> USE RouterAssumption DEF FlagType
<1>1. CASE UNCHANGED <<desired, leased, tracked, cleaned, ready, fresh, alive,
                        stray, proxyUp, monitor, failed,
                        quiet>>
  BY <1>1
<1>2. ASSUME NEW r \in Ruleset, ReplaceRules(r)
       PROVE  FlagType'
  BY <1>2
     DEF ReplaceRules, Asked, Persist, firewallVars, holderVars, processVars,
         Free, Fault, NoFault
<1>3. CASE Enable
  BY <1>3 DEF Enable, Asked, Persist, processVars, Free, Fault, NoFault
<1>4. CASE Disable
  BY <1>4
     DEF Disable, Asked, Hold, Persist, firewallVars, processVars, Free,
         Fault, NoFault
<1>5. CASE Cleanup
  BY <1>5 DEF Cleanup, Asked, Hold, firewallVars, processVars, restVars, Free
<1>6. CASE RepairFirewall
  BY <1>6
     DEF RepairFirewall, Asked, Fault, Hold, NoFault, firewallVars,
         processVars, restVars, Free
<1>7. CASE RenewLease
  BY <1>7
     DEF RenewLease, Asked, firewallVars, holderVars, processVars, restVars,
         Free
<1>8. CASE RequestReconciles
  BY <1>8, ZenonT(30)
     DEF RequestReconciles, Reconcile, Free, KeepRouting, StopRouting,
         firewallVars, holderVars, processVars, Fault, Hold, NoFault
<1>9. CASE MonitorTick
  BY <1>9
     DEF MonitorTick, Reconcile, Free, KeepRouting, StopRouting, firewallVars,
         holderVars, processVars, Fault, Hold, NoFault
<1>10. CASE MonitorExits
  BY <1>10
     DEF MonitorExits, budgetVars, firewallVars, holderVars, managerVars,
         processVars
<1>11. CASE EnsureStep
  BY <1>11
     DEF EnsureStep, At, Continue, EnsureFailed, EnsureSucceeds, Idle,
         processVars, EnsureFails, Fault, NoFault, Reservable, Ensured,
         Healthy, firewallVars, First, Repaired, SharedName, Reserved, Name
<1>12. CASE RepairStep
  BY <1>12
     DEF RepairStep, At, Continue, EnsureFailed, EnsureSucceeds, Idle,
         processVars, EnsureFails, Fault, NoFault, Reservable, Ensured,
         Healthy, firewallVars, First, Repaired, SharedName, Reserved, Name
<1>13. CASE StartStep
  BY <1>13 DEF StartStep, At, Continue, Fault, Idle, NoFault, firewallVars
<1>14. CASE SendStep
  BY <1>14
     DEF SendStep, At, Available, Continue, Fault, Health, Idle, NoFault,
         firewallVars
<1>15. CASE StopStep
  BY <1>15
     DEF StopStep, At, Continue, Fault, Idle, NoFault, firewallVars,
         processVars
<1>16. CASE RemoveStep
  BY <1>16
     DEF RemoveStep, At, Continue, Fault, Idle, NoFault, Removable,
         RemoveFails, Removed, firewallVars, processVars, Reservable, Name,
         Without, SharedName, Reserved, Own
<1>17. CASE UnlinkStep
  BY <1>17
     DEF UnlinkStep, At, Continue, Fault, Idle, NoFault, firewallVars,
         processVars
<1>18. CASE Restore
  <2>1. file # None => file.enabled \in BOOLEAN
    BY DEF RulesType, StoredFile
  <2>2. QED
    BY <1>18, <2>1 DEF Restore, holderVars, firewallVars, processVars
<1>19. CASE Close
  BY <1>19
     DEF Close, Free, Hold, budgetVars, firewallVars, managerVars, processVars
<1>20. CASE Crash
  BY <1>20 DEF Crash
<1>21. CASE RouterDies
  BY <1>21 DEF RouterDies, Event, Unasked, holderVars
<1>22. CASE ProxyChanges
  BY <1>22 DEF ProxyChanges, Event, Unasked, processVars, holderVars
<1>23. CASE FirewallCheckAges
  BY <1>23 DEF FirewallCheckAges, Unasked, processVars, holderVars
<1>24. CASE LeaseExpires
  BY <1>24 DEF LeaseExpires, Unasked, processVars, holderVars
<1>25. CASE StrayDies
  BY <1>25 DEF StrayDies, Unasked, holderVars
<1> HIDE DEF FlagType
<1>26. QED
  <2>1. \/ UNCHANGED <<desired, leased, tracked, cleaned, ready, fresh, alive,
                      stray, proxyUp, monitor, failed,
                      quiet>>
        \/ \E r \in Ruleset : ReplaceRules(r)
        \/ Enable
        \/ Disable
        \/ Cleanup
        \/ RepairFirewall
        \/ RenewLease
        \/ RequestReconciles
        \/ MonitorTick
        \/ MonitorExits
        \/ EnsureStep
        \/ RepairStep
        \/ StartStep
        \/ SendStep
        \/ StopStep
        \/ RemoveStep
        \/ UnlinkStep
        \/ Restore
        \/ Close
        \/ Crash
        \/ RouterDies
        \/ ProxyChanges
        \/ FirewallCheckAges
        \/ LeaseExpires
        \/ StrayDies
    BY DEF Next, HolderStep, vars, managerVars, firewallVars, processVars,
           holderVars, budgetVars, restVars, Nothing, FirewallEdited, Unasked
  <2>2. QED
    BY <2>1, <1>1, <1>2, <1>3, <1>4, <1>5, <1>6, <1>7, <1>8, <1>9, <1>10,
       <1>11, <1>12, <1>13, <1>14, <1>15, <1>16, <1>17, <1>18, <1>19, <1>20,
       <1>21, <1>22, <1>23, <1>24, <1>25

\* The counters keep their bounds.
LEMMA CountTypeStep ==
  ASSUME CountType, NewWhenDown, [Next]_vars
  PROVE  CountType'
<1> USE RouterAssumption DEF CountType, NewWhenDown
<1>1. CASE UNCHANGED <<gen, pending, requests, faults, events, crashes>>
  BY <1>1
<1>2. ASSUME NEW r \in Ruleset, ReplaceRules(r)
       PROVE  CountType'
  BY <1>2, FreeMeans, StepsDiffer
     DEF ReplaceRules, Asked, Persist, firewallVars, holderVars, processVars,
         Fault, NoFault
<1>3. CASE Enable
  BY <1>3, FreeMeans, StepsDiffer
     DEF Enable, Asked, Persist, processVars, Fault, NoFault
<1>4. CASE Disable
  BY <1>4, DisableDoes, StepsDiffer, FreeMeans DEF Asked, Counted
<1>5. CASE Cleanup
  BY <1>5, CleanupDoes, StepsDiffer, FreeMeans DEF Asked
<1>6. CASE RepairFirewall
  BY <1>6, RepairFirewallDoes, StepsDiffer, FreeMeans DEF Asked, Counted
<1>7. CASE RenewLease
  BY <1>7, FreeMeans, StepsDiffer
     DEF RenewLease, Asked, firewallVars, holderVars, processVars, restVars
<1>8. CASE RequestReconciles
  BY <1>8, ReconcileDoes DEF Counted, ReconcileFrame, RequestReconciles
<1>9. CASE MonitorTick
  BY <1>9, ReconcileDoes DEF Counted, ReconcileFrame, MonitorTick
<1>10. CASE EnsureStep
  BY <1>10, StepCounts DEF HolderStep, Counted, Idle
<1>11. CASE RepairStep
  BY <1>11, StepCounts DEF HolderStep, Counted, Idle
<1>12. CASE StartStep
  BY <1>12, StepCounts DEF HolderStep, Counted, Idle
<1>13. CASE SendStep
  BY <1>13, StepCounts DEF HolderStep, Counted, Idle
<1>14. CASE StopStep
  BY <1>14, StepCounts DEF HolderStep, Counted, Idle
<1>15. CASE RemoveStep
  BY <1>15, StepCounts DEF HolderStep, Counted, Idle
<1>16. CASE UnlinkStep
  BY <1>16, StepCounts DEF HolderStep, Counted, Idle
<1>17. CASE Restore
  BY <1>17, FreeMeans, StepsDiffer
     DEF Restore, Fault, NoFault, firewallVars, holderVars, processVars
<1>18. CASE Crash
  BY <1>18, CrashDoes, StepsDiffer, FreeMeans
<1>19. CASE RouterDies
  BY <1>19, FreeMeans, StepsDiffer DEF RouterDies, Event, Unasked, holderVars
<1>20. CASE ProxyChanges
  BY <1>20, FreeMeans, StepsDiffer
     DEF ProxyChanges, Event, Unasked, processVars, holderVars
<1>21. CASE FirewallEdited
  BY <1>21, FreeMeans, StepsDiffer
     DEF FirewallEdited, Event, Unasked, processVars, holderVars
<1> HIDE DEF CountType, NewWhenDown
<1>22. QED
  <2>1. \/ UNCHANGED <<gen, pending, requests, faults, events, crashes>>
        \/ \E r \in Ruleset : ReplaceRules(r)
        \/ Enable
        \/ Disable
        \/ Cleanup
        \/ RepairFirewall
        \/ RenewLease
        \/ RequestReconciles
        \/ MonitorTick
        \/ EnsureStep
        \/ RepairStep
        \/ StartStep
        \/ SendStep
        \/ StopStep
        \/ RemoveStep
        \/ UnlinkStep
        \/ Restore
        \/ Crash
        \/ RouterDies
        \/ ProxyChanges
        \/ FirewallEdited
    BY DEF Next, HolderStep, vars, managerVars, firewallVars, processVars,
           holderVars, budgetVars, restVars, Nothing, MonitorExits, Close,
           FirewallCheckAges, Unasked, LeaseExpires, StrayDies
  <2>2. QED
    BY <2>1, <1>1, <1>2, <1>3, <1>4, <1>5, <1>6, <1>7, <1>8, <1>9, <1>10,
       <1>11, <1>12, <1>13, <1>14, <1>15, <1>16, <1>17, <1>18, <1>19, <1>20,
       <1>21

\* A router is only ever sent rules that were accepted.
LEMMA RulesTypeStep ==
  ASSUME RulesType, HolderType, FlagType, [Next]_vars
  PROVE  RulesType'
<1> USE RouterAssumption DEF RulesType
<1>1. CASE UNCHANGED <<rules, file, loaded>>
  BY <1>1
<1>2. ASSUME NEW r \in Ruleset, ReplaceRules(r)
       PROVE  RulesType'
  <2>1. [enabled |-> desired, rules |-> r] \in StoredFile
    BY DEF StoredFile, FlagType
  <2>2. QED
    BY <1>2, <2>1 DEF ReplaceRules, Persist, processVars
<1>3. CASE Enable
  <2>1. [enabled |-> TRUE, rules |-> rules] \in StoredFile
    BY DEF StoredFile, FlagType
  <2>2. QED
    BY <1>3, <2>1 DEF Enable, Persist, processVars
<1>4. CASE Disable
  <2>1. [enabled |-> FALSE, rules |-> rules] \in StoredFile
    BY DEF StoredFile
  <2>2. QED
    BY <1>4, <2>1, DisableDoes
<1>5. CASE Cleanup
  BY <1>5, CleanupDoes, StepsDiffer, FreeMeans DEF Asked
<1>6. CASE StartStep
  BY <1>6, StartDoes, StepsDiffer, FreeMeans DEF Idle, Counted
<1>7. CASE SendStep
  <2>1. Available \in BOOLEAN
    BY DEF Available, FlagType
  <2>2. [rules |-> rules, up |-> Available] \in Command
    BY <2>1 DEF Command
  <2>3. QED
    BY <1>7, <2>2, SendDoes DEF Idle
<1>8. CASE StopStep
  BY <1>8, StopDoes, StepsDiffer, FreeMeans
     DEF Idle, Goes, NextStop, ToStop, Counted
<1>9. CASE UnlinkStep
  BY <1>9, UnlinkDoes, StepsDiffer, FreeMeans DEF Idle, Goes, Counted
<1>10. CASE Restore
  <2>1. file # None => file.rules \in Ruleset
    BY DEF StoredFile
  <2>2. QED
    BY <1>10, <2>1 DEF Restore, processVars
<1>11. CASE Crash
  BY <1>11, CrashDoes, StepsDiffer, FreeMeans
<1>12. CASE RouterDies
  BY <1>12, FreeMeans, StepsDiffer DEF RouterDies, Event, Unasked, holderVars
<1> HIDE DEF RulesType
<1>13. QED
  <2>1. \/ UNCHANGED <<rules, file, loaded>>
        \/ \E r \in Ruleset : ReplaceRules(r)
        \/ Enable
        \/ Disable
        \/ Cleanup
        \/ StartStep
        \/ SendStep
        \/ StopStep
        \/ UnlinkStep
        \/ Restore
        \/ Crash
        \/ RouterDies
    BY DEF Next, HolderStep, vars, managerVars, firewallVars, processVars,
           holderVars, budgetVars, restVars, Nothing, RepairFirewall, Asked,
           NoFault, RenewLease, RequestReconciles, Reconcile, KeepRouting,
           StopRouting, MonitorTick, MonitorExits, EnsureStep, EnsureFailed,
           EnsureSucceeds, Idle, RepairStep, RemoveStep, Close, ProxyChanges,
           Unasked, FirewallEdited, FirewallCheckAges, LeaseExpires, StrayDies
  <2>2. QED
    BY <2>1, <1>1, <1>2, <1>3, <1>4, <1>5, <1>6, <1>7, <1>8, <1>9, <1>10,
       <1>11, <1>12

\* A policy is a generation and the health of the proxy.
LEMMA PolicyTypeStep ==
  ASSUME PolicyType, CountType, HolderType, FlagType, [Next]_vars
  PROVE  PolicyType'
<1> USE RouterAssumption DEF PolicyType, CountType
<1>1. CASE UNCHANGED <<gen, policy>>
  BY <1>1
<1>2. ASSUME NEW r \in Ruleset, ReplaceRules(r)
       PROVE  PolicyType'
  BY <1>2, FreeMeans, StepsDiffer
     DEF ReplaceRules, Asked, Persist, firewallVars, holderVars, processVars
<1>3. CASE Disable
  BY <1>3, DisableDoes, StepsDiffer, FreeMeans DEF Asked, Counted
<1>4. CASE Cleanup
  BY <1>4, CleanupDoes, StepsDiffer, FreeMeans DEF Asked
<1>5. CASE RequestReconciles
  BY <1>5, ReconcileDoes, StepsDiffer, FreeMeans
     DEF RequestReconciles, ReconcileFrame, Counted
<1>6. CASE MonitorTick
  BY <1>6, ReconcileDoes, StepsDiffer, FreeMeans
     DEF MonitorTick, ReconcileFrame, Counted
<1>7. CASE StartStep
  BY <1>7, StartDoes, StepsDiffer, FreeMeans DEF Idle, Counted
<1>8. CASE SendStep
  <2>1. Available \in BOOLEAN
    BY DEF Available, FlagType
  <2>2. [gen |-> gen, up |-> Available] \in [gen: Nat, up: BOOLEAN]
    BY <2>1
  <2>3. QED
    BY <1>8, <2>2, SendDoes
<1>9. CASE StopStep
  BY <1>9, StopDoes, StepsDiffer, FreeMeans
     DEF Idle, Goes, NextStop, ToStop, Counted
<1>10. CASE Restore
  BY <1>10, FreeMeans, StepsDiffer
     DEF Restore, firewallVars, holderVars, processVars
<1>11. CASE Crash
  BY <1>11, CrashDoes, StepsDiffer, FreeMeans
<1> HIDE DEF PolicyType, CountType
<1>12. QED
  <2>1. \/ UNCHANGED <<gen, policy>>
        \/ \E r \in Ruleset : ReplaceRules(r)
        \/ Disable
        \/ Cleanup
        \/ RequestReconciles
        \/ MonitorTick
        \/ StartStep
        \/ SendStep
        \/ StopStep
        \/ Restore
        \/ Crash
    BY DEF Next, HolderStep, vars, managerVars, firewallVars, processVars,
           holderVars, budgetVars, restVars, Nothing, Enable, Asked, NoFault,
           RepairFirewall, RenewLease, MonitorExits, EnsureStep, EnsureFailed,
           EnsureSucceeds, Idle, RepairStep, RemoveStep, UnlinkStep, Close,
           RouterDies, Unasked, ProxyChanges, FirewallEdited,
           FirewallCheckAges, LeaseExpires, StrayDies
  <2>2. QED
    BY <2>1, <1>1, <1>2, <1>3, <1>4, <1>5, <1>6, <1>7, <1>8, <1>9, <1>10,
       <1>11

\* The status is one of five.
LEMMA StateTypeStep ==
  ASSUME StateType, HolderType, FlagType, [Next]_vars
  PROVE  StateType'
<1> USE RouterAssumption DEF StateType
<1>1. CASE UNCHANGED state
  BY <1>1
<1>2. CASE Disable
  BY <1>2, DisableDoes, StepsDiffer, FreeMeans DEF Asked, Counted
<1>3. CASE Cleanup
  BY <1>3, CleanupDoes, StepsDiffer, FreeMeans DEF Asked
<1>4. CASE RequestReconciles
  BY <1>4, ReconcileDoes, StepsDiffer, FreeMeans
     DEF RequestReconciles, ReconcileFrame, Counted
<1>5. CASE MonitorTick
  BY <1>5, ReconcileDoes, StepsDiffer, FreeMeans
     DEF MonitorTick, ReconcileFrame, Counted
<1>6. CASE EnsureStep
  BY <1>6, EnsureDoes, StepsDiffer, FreeMeans
     DEF Idle, PassSucceeds, PassFails, firewallVars, Counted
<1>7. CASE RepairStep
  BY <1>7, RepairDoes, StepsDiffer, FreeMeans
     DEF Idle, PassSucceeds, PassFails, firewallVars, Counted
<1>8. CASE StartStep
  BY <1>8, StartDoes, StepsDiffer, FreeMeans DEF Idle, Counted
<1>9. CASE SendStep
  BY <1>9, SendDoes, StepsDiffer, FreeMeans DEF Idle, Health, Available, Counted
<1>10. CASE Crash
  BY <1>10, CrashDoes, StepsDiffer, FreeMeans
<1> HIDE DEF StateType
<1>11. QED
  <2>1. \/ UNCHANGED state
        \/ Disable
        \/ Cleanup
        \/ RequestReconciles
        \/ MonitorTick
        \/ EnsureStep
        \/ RepairStep
        \/ StartStep
        \/ SendStep
        \/ Crash
    BY DEF Next, HolderStep, vars, managerVars, firewallVars, processVars,
           holderVars, budgetVars, restVars, Nothing, ReplaceRules, Asked,
           NoFault, Enable, RepairFirewall, RenewLease, MonitorExits,
           StopStep, Idle, RemoveStep, UnlinkStep, Restore, Close, RouterDies,
           Unasked, ProxyChanges, FirewallEdited, FirewallCheckAges,
           LeaseExpires, StrayDies
  <2>2. QED
    BY <2>1, <1>1, <1>2, <1>3, <1>4, <1>5, <1>6, <1>7, <1>8, <1>9, <1>10

\* Every name carries one of the states of a rule.
LEMMA FirewallTypeStep ==
  ASSUME FirewallType, HolderType, FlagType, [Next]_vars
  PROVE  FirewallType'
<1> USE RouterAssumption DEF FirewallType
<1>1. CASE UNCHANGED fw
  BY <1>1
<1>2. CASE EnsureStep
  BY <1>2, EnsureDoes, StepsDiffer, FreeMeans, PassType, RemovalCleans,
     HealthyIsNotClean
     DEF Idle, PassSucceeds, PassFails, firewallVars, Counted
<1>3. CASE RepairStep
  BY <1>3, RepairDoes, StepsDiffer, FreeMeans, PassType, RemovalCleans,
     HealthyIsNotClean
     DEF Idle, PassSucceeds, PassFails, firewallVars, Counted
<1>4. CASE RemoveStep
  BY <1>4, RemoveDoes, StepsDiffer, FreeMeans, PassType, RemovalCleans,
     HealthyIsNotClean
     DEF Idle, Goes, NextRemove, ToRemove, Counted
<1>5. CASE FirewallEdited
  BY <1>5, FreeMeans, StepsDiffer
     DEF FirewallEdited, Event, Unasked, processVars, holderVars
<1> HIDE DEF FirewallType
<1>6. QED
  <2>1. \/ UNCHANGED fw
        \/ EnsureStep
        \/ RepairStep
        \/ RemoveStep
        \/ FirewallEdited
    BY DEF Next, HolderStep, vars, managerVars, firewallVars, processVars,
           holderVars, budgetVars, restVars, Nothing, ReplaceRules, Asked,
           NoFault, Enable, Disable, Cleanup, RepairFirewall, RenewLease,
           RequestReconciles, Reconcile, KeepRouting, StopRouting,
           MonitorTick, MonitorExits, StartStep, Idle, SendStep, StopStep,
           UnlinkStep, Restore, Close, Crash, RouterDies, Unasked,
           ProxyChanges, FirewallCheckAges, LeaseExpires, StrayDies
  <2>2. QED
    BY <2>1, <1>1, <1>2, <1>3, <1>4, <1>5

\* An operation goes on with its own steps.
LEMMA HolderTypeStep ==
  ASSUME HolderType, FlagType, [Next]_vars
  PROVE  HolderType'
<1> USE RouterAssumption DEF HolderType
<1>1. CASE UNCHANGED <<todo, op, service>>
  BY <1>1
<1>2. CASE Disable
  BY <1>2, DisableDoes, StepsDiffer, FreeMeans DEF Asked, Counted
<1>3. CASE Cleanup
  BY <1>3, CleanupDoes, StepsDiffer, FreeMeans DEF Asked
<1>4. CASE RepairFirewall
  BY <1>4, RepairFirewallDoes, StepsDiffer, FreeMeans DEF Asked, Counted
<1>5. CASE RequestReconciles
  BY <1>5, ReconcileDoes, StepsDiffer, FreeMeans
     DEF RequestReconciles, ReconcileFrame, Counted
<1>6. CASE MonitorTick
  BY <1>6, ReconcileDoes, StepsDiffer, FreeMeans
     DEF MonitorTick, ReconcileFrame, Counted
<1>7. CASE EnsureStep
  BY <1>7, EnsureDoes, StepsDiffer, FreeMeans
     DEF Idle, PassSucceeds, PassFails, firewallVars, Counted
<1>8. CASE RepairStep
  BY <1>8, RepairDoes, StepsDiffer, FreeMeans
     DEF Idle, PassSucceeds, PassFails, firewallVars, Counted
<1>9. CASE StartStep
  BY <1>9, StartDoes, StepsDiffer, FreeMeans DEF Idle, Counted
<1>10. CASE SendStep
  BY <1>10, SendDoes, StepsDiffer, FreeMeans DEF Idle, Health, Available, Counted
<1>11. CASE StopStep
  BY <1>11, StopDoes, StepsDiffer, FreeMeans
     DEF Idle, Goes, NextStop, ToStop, Counted
<1>12. CASE RemoveStep
  BY <1>12, RemoveDoes, StepsDiffer, FreeMeans
     DEF Idle, Goes, NextRemove, ToRemove, Counted
<1>13. CASE UnlinkStep
  BY <1>13, UnlinkDoes, StepsDiffer, FreeMeans DEF Idle, Goes, Counted
<1>14. CASE Restore
  BY <1>14, FreeMeans, StepsDiffer
     DEF Restore, firewallVars, holderVars, processVars
<1>15. CASE Close
  BY <1>15, CloseDoes, StepsDiffer, FreeMeans
<1>16. CASE Crash
  BY <1>16, CrashDoes, StepsDiffer, FreeMeans
<1> HIDE DEF HolderType
<1>17. QED
  <2>1. \/ UNCHANGED <<todo, op, service>>
        \/ Disable
        \/ Cleanup
        \/ RepairFirewall
        \/ RequestReconciles
        \/ MonitorTick
        \/ EnsureStep
        \/ RepairStep
        \/ StartStep
        \/ SendStep
        \/ StopStep
        \/ RemoveStep
        \/ UnlinkStep
        \/ Restore
        \/ Close
        \/ Crash
    BY DEF Next, HolderStep, vars, managerVars, firewallVars, processVars,
           holderVars, budgetVars, restVars, Nothing, ReplaceRules, Asked,
           NoFault, Enable, RenewLease, MonitorExits, RouterDies, Unasked,
           ProxyChanges, FirewallEdited, FirewallCheckAges, LeaseExpires,
           StrayDies
  <2>2. QED
    BY <2>1, <1>1, <1>2, <1>3, <1>4, <1>5, <1>6, <1>7, <1>8, <1>9, <1>10,
       <1>11, <1>12, <1>13, <1>14, <1>15, <1>16

\* Only a crash ends a process of the service.
LEMMA NewWhenDownStep ==
  ASSUME NewWhenDown, HolderType, FlagType, [Next]_vars
  PROVE  NewWhenDown'
<1> USE RouterAssumption DEF NewWhenDown
<1>1. CASE UNCHANGED <<desired, gen, policy, state, tracked, cleaned, pending,
                        todo, service>>
  BY <1>1
<1>2. ASSUME NEW r \in Ruleset, ReplaceRules(r)
       PROVE  NewWhenDown'
  BY <1>2, FreeMeans, StepsDiffer
     DEF ReplaceRules, Asked, Persist, firewallVars, holderVars, processVars
<1>3. CASE Enable
  BY <1>3, FreeMeans, StepsDiffer DEF Enable, Asked, Persist, processVars
<1>4. CASE Disable
  BY <1>4, DisableDoes, StepsDiffer, FreeMeans DEF Asked, Counted
<1>5. CASE Cleanup
  BY <1>5, CleanupDoes, StepsDiffer, FreeMeans DEF Asked
<1>6. CASE RepairFirewall
  BY <1>6, RepairFirewallDoes, StepsDiffer, FreeMeans DEF Asked, Counted
<1>7. CASE RequestReconciles
  BY <1>7, ReconcileDoes, StepsDiffer, FreeMeans
     DEF RequestReconciles, ReconcileFrame, Counted
<1>8. CASE MonitorTick
  BY <1>8, ReconcileDoes, StepsDiffer, FreeMeans
     DEF MonitorTick, ReconcileFrame, Counted
<1>9. CASE EnsureStep
  BY <1>9, EnsureDoes, StepsDiffer, FreeMeans
     DEF Idle, PassSucceeds, PassFails, firewallVars, Counted
<1>10. CASE RepairStep
  BY <1>10, RepairDoes, StepsDiffer, FreeMeans
     DEF Idle, PassSucceeds, PassFails, firewallVars, Counted
<1>11. CASE StartStep
  BY <1>11, StartDoes, StepsDiffer, FreeMeans DEF Idle, Counted
<1>12. CASE SendStep
  BY <1>12, SendDoes, StepsDiffer, FreeMeans DEF Idle, Health, Available, Counted
<1>13. CASE StopStep
  BY <1>13, StopDoes, StepsDiffer, FreeMeans
     DEF Idle, Goes, NextStop, ToStop, Counted
<1>14. CASE RemoveStep
  BY <1>14, RemoveDoes, StepsDiffer, FreeMeans
     DEF Idle, Goes, NextRemove, ToRemove, Counted
<1>15. CASE UnlinkStep
  BY <1>15, UnlinkDoes, StepsDiffer, FreeMeans DEF Idle, Goes, Counted
<1>16. CASE Restore
  BY <1>16, FreeMeans, StepsDiffer
     DEF Restore, firewallVars, holderVars, processVars
<1>17. CASE Close
  BY <1>17, CloseDoes, StepsDiffer, FreeMeans
<1>18. CASE Crash
  BY <1>18, CrashDoes, StepsDiffer, FreeMeans
<1> HIDE DEF NewWhenDown
<1>19. QED
  <2>1. \/ UNCHANGED <<desired, gen, policy, state, tracked, cleaned, pending,
                      todo, service>>
        \/ \E r \in Ruleset : ReplaceRules(r)
        \/ Enable
        \/ Disable
        \/ Cleanup
        \/ RepairFirewall
        \/ RequestReconciles
        \/ MonitorTick
        \/ EnsureStep
        \/ RepairStep
        \/ StartStep
        \/ SendStep
        \/ StopStep
        \/ RemoveStep
        \/ UnlinkStep
        \/ Restore
        \/ Close
        \/ Crash
    BY DEF Next, HolderStep, vars, managerVars, firewallVars, processVars,
           holderVars, budgetVars, restVars, Nothing, RenewLease, Asked,
           MonitorExits, RouterDies, Unasked, ProxyChanges, FirewallEdited,
           FirewallCheckAges, LeaseExpires, StrayDies
  <2>2. QED
    BY <2>1, <1>1, <1>2, <1>3, <1>4, <1>5, <1>6, <1>7, <1>8, <1>9, <1>10,
       <1>11, <1>12, <1>13, <1>14, <1>15, <1>16, <1>17, <1>18

\* Steps know whether there is a router.
LEMMA RouterAtStepStep ==
  ASSUME RouterAtStep, HolderType, NewWhenDown, FlagType, [Next]_vars
  PROVE  RouterAtStep'
<1> USE RouterAssumption DEF RouterAtStep, NewWhenDown, ToRemove
<1>1. CASE UNCHANGED <<tracked, alive, todo>>
  BY <1>1
<1>2. CASE Disable
  BY <1>2, DisableDoes, StepsDiffer, FreeMeans DEF Asked, Counted
<1>3. CASE Cleanup
  BY <1>3, CleanupDoes, StepsDiffer, FreeMeans DEF Asked
<1>4. CASE RepairFirewall
  BY <1>4, RepairFirewallDoes, StepsDiffer, FreeMeans DEF Asked, Counted
<1>5. CASE RequestReconciles
  <2> Reconcile
    BY <1>5 DEF RequestReconciles
  <2>1. alive' = alive /\ todo = Nothing
    BY ReconcileDoes DEF ReconcileFrame
  <2>2. CASE UNCHANGED <<tracked, todo>>
    BY <2>1, <2>2
  <2>3. CASE todo' = StopRemove /\ UNCHANGED tracked
    BY <2>1, <2>3, StepsDiffer
  <2>4. CASE todo' = EnsureSend /\ tracked' = TRUE
    BY <2>1, <2>4, StepsDiffer
  <2>5. CASE ~(tracked /\ alive) /\ tracked' = FALSE /\ todo' \in {EnsureStart, Nothing}
    BY <2>1, <2>5, StepsDiffer
  <2>6. QED
    BY <2>1, <2>2, <2>3, <2>4, <2>5, ReconcileDoes
<1>6. CASE MonitorTick
  <2> Reconcile
    BY <1>6 DEF MonitorTick
  <2>1. alive' = alive /\ todo = Nothing
    BY ReconcileDoes DEF ReconcileFrame
  <2>2. CASE UNCHANGED <<tracked, todo>>
    BY <2>1, <2>2
  <2>3. CASE todo' = StopRemove /\ UNCHANGED tracked
    BY <2>1, <2>3, StepsDiffer
  <2>4. CASE todo' = EnsureSend /\ tracked' = TRUE
    BY <2>1, <2>4, StepsDiffer
  <2>5. CASE ~(tracked /\ alive) /\ tracked' = FALSE /\ todo' \in {EnsureStart, Nothing}
    BY <2>1, <2>5, StepsDiffer
  <2>6. QED
    BY <2>1, <2>2, <2>3, <2>4, <2>5, ReconcileDoes
<1>7. CASE EnsureStep
  BY <1>7, EnsureDoes, StepsDiffer
<1>8. CASE RepairStep
  <2>1. UNCHANGED <<alive, tracked>> /\ todo' \in {Nothing, StopOnly}
    BY <1>8, RepairDoes
  <2>2. QED
    BY <2>1, StepsDiffer
<1>9. CASE StartStep
  <2>1. CASE /\ todo' = SendOnly /\ alive' = TRUE /\ tracked' = TRUE
    BY <2>1, StepsDiffer
  <2>2. CASE /\ todo' = RemoveOnly /\ UNCHANGED <<alive, tracked>> /\ todo = StartSend
    <3>1. (alive' => tracked')
      BY <2>2
    <3>2. (todo' \in {SendOnly, EnsureSend} => tracked')
      BY <2>2, StepsDiffer
    <3>3. ~tracked'
      BY <2>2
    <3>4. QED
      BY <3>1, <3>2, <3>3
  <2>3. QED
    BY <1>9, <2>1, <2>2, StartDoes
<1>10. CASE SendStep
  BY <1>10, SendDoes, StepsDiffer, FreeMeans DEF Idle, Health, Available, Counted
<1>11. CASE StopStep
  <2>1. tracked' = FALSE /\ ((alive' = alive /\ ~tracked) \/ alive' = FALSE)
    BY <1>11, StopDoes
  <2>2. todo' \in {Nothing, RemoveOnly, RemoveUnlink}
    BY <1>11, StopDoes, StepsDiffer DEF Goes, NextStop, ToStop
  <2>3. QED
    BY <2>1, <2>2, StepsDiffer
<1>12. CASE RemoveStep
  <2>1. UNCHANGED <<alive, tracked>> /\ ToRemove
    BY <1>12, RemoveDoes
  <2>2. todo' \in {Nothing, UnlinkOnly}
    BY <1>12, RemoveDoes DEF Goes, NextRemove
  <2>3. ~tracked /\ ~tracked' /\ ~alive'
    BY <2>1
  <2>4. QED
    BY <2>2, <2>3, StepsDiffer
<1>13. CASE UnlinkStep
  BY <1>13, UnlinkDoes, StepsDiffer, FreeMeans DEF Idle, Goes, Counted
<1>14. CASE Close
  BY <1>14, CloseDoes, StepsDiffer, FreeMeans
<1>15. CASE Crash
  BY <1>15, CrashDoes, StepsDiffer, FreeMeans
<1>16. CASE RouterDies
  BY <1>16, FreeMeans, StepsDiffer DEF RouterDies, Event, Unasked, holderVars
<1> HIDE DEF RouterAtStep, NewWhenDown, ToRemove
<1>17. QED
  <2>1. \/ UNCHANGED <<tracked, alive, todo>>
        \/ Disable
        \/ Cleanup
        \/ RepairFirewall
        \/ RequestReconciles
        \/ MonitorTick
        \/ EnsureStep
        \/ RepairStep
        \/ StartStep
        \/ SendStep
        \/ StopStep
        \/ RemoveStep
        \/ UnlinkStep
        \/ Close
        \/ Crash
        \/ RouterDies
    BY DEF Next, HolderStep, vars, managerVars, firewallVars, processVars,
           holderVars, budgetVars, restVars, Nothing, ReplaceRules, Asked,
           NoFault, Enable, RenewLease, MonitorExits, Restore, ProxyChanges,
           Unasked, FirewallEdited, FirewallCheckAges, LeaseExpires, StrayDies
  <2>2. QED
    BY <2>1, <1>1, <1>2, <1>3, <1>4, <1>5, <1>6, <1>7, <1>8, <1>9, <1>10,
       <1>11, <1>12, <1>13, <1>14, <1>15, <1>16

\* A policy that is recorded is in force.
LEMMA PolicyHeldStep ==
  ASSUME PolicyHeld, HolderType, NewWhenDown, RouterAtStep, PolicyType,
         FlagType, [Next]_vars
  PROVE  PolicyHeld'
<1> USE RouterAssumption DEF PolicyHeld, NewWhenDown, RouterAtStep,
        PolicyType, ToStop, ToRemove
<1>1. CASE UNCHANGED <<rules, gen, policy, tracked, alive, loaded, todo>>
  BY <1>1
<1>2. ASSUME NEW r \in Ruleset, ReplaceRules(r)
       PROVE  PolicyHeld'
  BY <1>2, FreeMeans, StepsDiffer
     DEF ReplaceRules, Asked, Persist, firewallVars, holderVars, processVars
<1>3. CASE Disable
  BY <1>3, DisableDoes, StepsDiffer, FreeMeans DEF Asked, Counted
<1>4. CASE Cleanup
  BY <1>4, CleanupDoes, StepsDiffer, FreeMeans DEF Asked
<1>5. CASE RepairFirewall
  BY <1>5, RepairFirewallDoes, StepsDiffer, FreeMeans DEF Asked, Counted
<1>6. CASE RequestReconciles
  BY <1>6, ReconcileDoes, StepsDiffer, FreeMeans
     DEF RequestReconciles, ReconcileFrame, Counted
<1>7. CASE MonitorTick
  BY <1>7, ReconcileDoes, StepsDiffer, FreeMeans
     DEF MonitorTick, ReconcileFrame, Counted
<1>8. CASE EnsureStep
  BY <1>8, EnsureDoes, StepsDiffer, FreeMeans
     DEF Idle, PassSucceeds, PassFails, firewallVars, Counted
<1>9. CASE RepairStep
  BY <1>9, RepairDoes, StepsDiffer, FreeMeans
     DEF Idle, PassSucceeds, PassFails, firewallVars, Counted
<1>10. CASE StartStep
  BY <1>10, StartDoes, StepsDiffer, FreeMeans DEF Idle, Counted
<1>11. CASE SendStep
  BY <1>11, SendDoes, StepsDiffer, FreeMeans DEF Idle, Health, Available, Counted
<1>12. CASE StopStep
  BY <1>12, StopDoes, StepsDiffer, FreeMeans DEF Idle, Goes, NextStop, Counted
<1>13. CASE RemoveStep
  BY <1>13, RemoveDoes, StepsDiffer, FreeMeans DEF Idle, Goes, NextRemove, Counted
<1>14. CASE UnlinkStep
  BY <1>14, UnlinkDoes, StepsDiffer, FreeMeans DEF Idle, Goes, Counted
<1>15. CASE Restore
  BY <1>15, FreeMeans, StepsDiffer
     DEF Restore, firewallVars, holderVars, processVars
<1>16. CASE Close
  BY <1>16, CloseDoes, StepsDiffer, FreeMeans
<1>17. CASE Crash
  BY <1>17, CrashDoes, StepsDiffer, FreeMeans
<1>18. CASE RouterDies
  BY <1>18, FreeMeans, StepsDiffer DEF RouterDies, Event, Unasked, holderVars
<1> HIDE DEF PolicyHeld, NewWhenDown, RouterAtStep, PolicyType, ToStop,
         ToRemove
<1>19. QED
  <2>1. \/ UNCHANGED <<rules, gen, policy, tracked, alive, loaded, todo>>
        \/ \E r \in Ruleset : ReplaceRules(r)
        \/ Disable
        \/ Cleanup
        \/ RepairFirewall
        \/ RequestReconciles
        \/ MonitorTick
        \/ EnsureStep
        \/ RepairStep
        \/ StartStep
        \/ SendStep
        \/ StopStep
        \/ RemoveStep
        \/ UnlinkStep
        \/ Restore
        \/ Close
        \/ Crash
        \/ RouterDies
    BY DEF Next, HolderStep, vars, managerVars, firewallVars, processVars,
           holderVars, budgetVars, restVars, Nothing, Enable, Asked, NoFault,
           RenewLease, MonitorExits, ProxyChanges, Unasked, FirewallEdited,
           FirewallCheckAges, LeaseExpires, StrayDies
  <2>2. QED
    BY <2>1, <1>1, <1>2, <1>3, <1>4, <1>5, <1>6, <1>7, <1>8, <1>9, <1>10,
       <1>11, <1>12, <1>13, <1>14, <1>15, <1>16, <1>17, <1>18

\* A router is wanted and has its firewall rules.
LEMMA RouterBackedStep ==
  ASSUME RouterBacked, HolderType, NewWhenDown, RouterAtStep, FlagType,
         [Next]_vars
  PROVE  RouterBacked'
<1> USE RouterAssumption DEF RouterBacked, NewWhenDown, RouterAtStep, ToStop,
        ToRemove
<1>1. CASE UNCHANGED <<desired, tracked, ready, todo>>
  BY <1>1
<1>2. CASE Enable
  BY <1>2, FreeMeans, StepsDiffer DEF Enable, Asked, Persist, processVars
<1>3. CASE Disable
  BY <1>3, DisableDoes, StepsDiffer, FreeMeans DEF Asked, Counted
<1>4. CASE Cleanup
  BY <1>4, CleanupDoes, StepsDiffer, FreeMeans DEF Asked
<1>5. CASE RepairFirewall
  BY <1>5, RepairFirewallDoes, StepsDiffer, FreeMeans DEF Asked, Counted
<1>6. CASE RequestReconciles
  <2> Reconcile
    BY <1>6 DEF RequestReconciles
  <2>1. UNCHANGED <<desired, ready>> /\ todo = Nothing
    BY ReconcileDoes DEF ReconcileFrame
  <2>2. CASE UNCHANGED <<tracked, todo>>
    BY <2>1, <2>2
  <2>3. CASE todo' = StopRemove
    BY <2>1, <2>3, StepsDiffer
  <2>4. CASE desired /\ tracked /\ todo' = EnsureSend
    BY <2>1, <2>4, StepsDiffer
  <2>5. CASE desired /\ tracked' = FALSE /\ todo' \in {EnsureStart, Nothing}
    BY <2>1, <2>5, StepsDiffer
  <2>6. QED
    BY <2>1, <2>2, <2>3, <2>4, <2>5, ReconcileDoes
<1>7. CASE MonitorTick
  <2> Reconcile
    BY <1>7 DEF MonitorTick
  <2>1. UNCHANGED <<desired, ready>> /\ todo = Nothing
    BY ReconcileDoes DEF ReconcileFrame
  <2>2. CASE UNCHANGED <<tracked, todo>>
    BY <2>1, <2>2
  <2>3. CASE todo' = StopRemove
    BY <2>1, <2>3, StepsDiffer
  <2>4. CASE desired /\ tracked /\ todo' = EnsureSend
    BY <2>1, <2>4, StepsDiffer
  <2>5. CASE desired /\ tracked' = FALSE /\ todo' \in {EnsureStart, Nothing}
    BY <2>1, <2>5, StepsDiffer
  <2>6. QED
    BY <2>1, <2>2, <2>3, <2>4, <2>5, ReconcileDoes
<1>8. CASE EnsureStep
  BY <1>8, EnsureDoes, StepsDiffer, FreeMeans
     DEF Idle, PassSucceeds, PassFails, firewallVars, Counted
<1>9. CASE RepairStep
  <2>1. UNCHANGED <<desired, tracked>> /\ todo = RepairOnly
    BY <1>9, RepairDoes DEF Idle
  <2>2. CASE (ready' = ready \/ ready' = TRUE) /\ todo' = Nothing
    BY <2>1, <2>2, StepsDiffer
  <2>3. CASE ~desired /\ todo' = Nothing
    BY <2>1, <2>3, StepsDiffer
  <2>4. CASE todo' = StopOnly
    BY <2>4, StepsDiffer
  <2>5. QED
    BY <1>9, <2>2, <2>3, <2>4, RepairDoes DEF PassSucceeds, firewallVars
<1>10. CASE StartStep
  BY <1>10, StartDoes, StepsDiffer, FreeMeans DEF Idle, Counted
<1>11. CASE SendStep
  BY <1>11, SendDoes, StepsDiffer, FreeMeans DEF Idle, Health, Available, Counted
<1>12. CASE StopStep
  BY <1>12, StopDoes, StepsDiffer, FreeMeans DEF Idle, Goes, NextStop, Counted
<1>13. CASE RemoveStep
  <2>1. UNCHANGED <<tracked>> /\ ToRemove /\ ~tracked
    BY <1>13, RemoveDoes
  <2>2. todo' \in {Nothing, UnlinkOnly}
    BY <1>13, RemoveDoes DEF Goes, NextRemove
  <2>3. QED
    BY <2>1, <2>2, StepsDiffer
<1>14. CASE UnlinkStep
  BY <1>14, UnlinkDoes, StepsDiffer, FreeMeans DEF Idle, Goes, Counted
<1>15. CASE Restore
  BY <1>15, FreeMeans, StepsDiffer
     DEF Restore, firewallVars, holderVars, processVars
<1>16. CASE Close
  BY <1>16, CloseDoes, StepsDiffer, FreeMeans
<1>17. CASE Crash
  BY <1>17, CrashDoes, StepsDiffer, FreeMeans
<1> HIDE DEF RouterBacked, NewWhenDown, RouterAtStep, ToStop, ToRemove
<1>18. QED
  <2>1. \/ UNCHANGED <<desired, tracked, ready, todo>>
        \/ Enable
        \/ Disable
        \/ Cleanup
        \/ RepairFirewall
        \/ RequestReconciles
        \/ MonitorTick
        \/ EnsureStep
        \/ RepairStep
        \/ StartStep
        \/ SendStep
        \/ StopStep
        \/ RemoveStep
        \/ UnlinkStep
        \/ Restore
        \/ Close
        \/ Crash
    BY DEF Next, HolderStep, vars, managerVars, firewallVars, processVars,
           holderVars, budgetVars, restVars, Nothing, ReplaceRules, Asked,
           NoFault, RenewLease, MonitorExits, RouterDies, Unasked,
           ProxyChanges, FirewallEdited, FirewallCheckAges, LeaseExpires,
           StrayDies
  <2>2. QED
    BY <2>1, <1>1, <1>2, <1>3, <1>4, <1>5, <1>6, <1>7, <1>8, <1>9, <1>10,
       <1>11, <1>12, <1>13, <1>14, <1>15, <1>16, <1>17

\* The status is put right by the operation that makes it wrong.
LEMMA StatusHeldStep ==
  ASSUME StatusHeld, HolderType, NewWhenDown, RouterAtStep, RouterBacked,
         FlagType, [Next]_vars
  PROVE  StatusHeld'
<1> USE RouterAssumption DEF StatusHeld, NewWhenDown, RouterAtStep,
        RouterBacked, ToRemove, ToStop
<1>1. CASE UNCHANGED <<state, tracked, todo, service>>
  BY <1>1
<1>2. CASE Disable
  BY <1>2, DisableDoes, StepsDiffer, FreeMeans DEF Asked, Counted
<1>3. CASE Cleanup
  BY <1>3, CleanupDoes, StepsDiffer, FreeMeans DEF Asked
<1>4. CASE RepairFirewall
  BY <1>4, RepairFirewallDoes, StepsDiffer, FreeMeans DEF Asked, Counted
<1>5. CASE RequestReconciles
  BY <1>5, ReconcileDoes, StepsDiffer, FreeMeans
     DEF RequestReconciles, ReconcileFrame, Counted
<1>6. CASE MonitorTick
  BY <1>6, ReconcileDoes, StepsDiffer, FreeMeans
     DEF MonitorTick, ReconcileFrame, Counted
<1>7. CASE EnsureStep
  BY <1>7, EnsureDoes, StepsDiffer, FreeMeans
     DEF Idle, PassSucceeds, PassFails, firewallVars, Counted
<1>8. CASE RepairStep
  BY <1>8, RepairDoes, StepsDiffer, FreeMeans
     DEF Idle, PassSucceeds, PassFails, firewallVars, Counted
<1>9. CASE StartStep
  BY <1>9, StartDoes, StepsDiffer, FreeMeans DEF Idle, Counted
<1>10. CASE SendStep
  BY <1>10, SendDoes, StepsDiffer, FreeMeans DEF Idle, Health, Available, Counted
<1>11. CASE StopStep
  BY <1>11, StopDoes, StepsDiffer, FreeMeans DEF Idle, Goes, NextStop, Counted
<1>12. CASE RemoveStep
  BY <1>12, RemoveDoes, StepsDiffer, FreeMeans DEF Idle, Goes, NextRemove, Counted
<1>13. CASE UnlinkStep
  BY <1>13, UnlinkDoes, StepsDiffer, FreeMeans DEF Idle, Goes, Counted
<1>14. CASE Restore
  BY <1>14, FreeMeans, StepsDiffer
     DEF Restore, firewallVars, holderVars, processVars
<1>15. CASE Close
  BY <1>15, CloseDoes, StepsDiffer, FreeMeans
<1>16. CASE Crash
  BY <1>16, CrashDoes, StepsDiffer, FreeMeans
<1> HIDE DEF StatusHeld, NewWhenDown, RouterAtStep, RouterBacked, ToRemove,
         ToStop
<1>17. QED
  <2>1. \/ UNCHANGED <<state, tracked, todo, service>>
        \/ Disable
        \/ Cleanup
        \/ RepairFirewall
        \/ RequestReconciles
        \/ MonitorTick
        \/ EnsureStep
        \/ RepairStep
        \/ StartStep
        \/ SendStep
        \/ StopStep
        \/ RemoveStep
        \/ UnlinkStep
        \/ Restore
        \/ Close
        \/ Crash
    BY DEF Next, HolderStep, vars, managerVars, firewallVars, processVars,
           holderVars, budgetVars, restVars, Nothing, ReplaceRules, Asked,
           NoFault, Enable, RenewLease, MonitorExits, RouterDies, Unasked,
           ProxyChanges, FirewallEdited, FirewallCheckAges, LeaseExpires,
           StrayDies
  <2>2. QED
    BY <2>1, <1>1, <1>2, <1>3, <1>4, <1>5, <1>6, <1>7, <1>8, <1>9, <1>10,
       <1>11, <1>12, <1>13, <1>14, <1>15, <1>16

\* A blocked router was told that the proxy is not there.
LEMMA BlockedHeldStep ==
  ASSUME BlockedHeld, HolderType, PolicyType, FlagType, [Next]_vars
  PROVE  BlockedHeld'
<1> USE RouterAssumption DEF BlockedHeld
<1>1. CASE UNCHANGED <<policy, state>>
  BY <1>1
<1>2. ASSUME NEW r \in Ruleset, ReplaceRules(r)
       PROVE  BlockedHeld'
  BY <1>2, FreeMeans, StepsDiffer
     DEF ReplaceRules, Asked, Persist, firewallVars, holderVars, processVars
<1>3. CASE Disable
  BY <1>3, DisableDoes, StepsDiffer, FreeMeans DEF Asked, Counted
<1>4. CASE Cleanup
  BY <1>4, CleanupDoes, StepsDiffer, FreeMeans DEF Asked
<1>5. CASE RequestReconciles
  BY <1>5, ReconcileDoes, StepsDiffer, FreeMeans
     DEF RequestReconciles, ReconcileFrame, Counted
<1>6. CASE MonitorTick
  BY <1>6, ReconcileDoes, StepsDiffer, FreeMeans
     DEF MonitorTick, ReconcileFrame, Counted
<1>7. CASE EnsureStep
  BY <1>7, EnsureDoes, StepsDiffer, FreeMeans
     DEF Idle, PassSucceeds, PassFails, firewallVars, Counted
<1>8. CASE RepairStep
  BY <1>8, RepairDoes, StepsDiffer, FreeMeans
     DEF Idle, PassSucceeds, PassFails, firewallVars, Counted
<1>9. CASE StartStep
  BY <1>9, StartDoes, StepsDiffer, FreeMeans DEF Idle, Counted
<1>10. CASE SendStep
  <2>1. CASE Health /\ policy' = [gen |-> gen, up |-> Available]
    <3>1. state' = "blocked" => ~Available
      BY <2>1 DEF Health
    <3>2. policy'.up = Available
      BY <2>1
    <3>3. QED
      BY <3>1, <3>2
  <2>2. CASE state' = "error"
    BY <2>2
  <2>3. QED
    BY <1>10, <2>1, <2>2, SendDoes
<1>11. CASE StopStep
  BY <1>11, StopDoes, StepsDiffer, FreeMeans
     DEF Idle, Goes, NextStop, ToStop, Counted
<1>12. CASE Crash
  BY <1>12, CrashDoes, StepsDiffer, FreeMeans
<1> HIDE DEF BlockedHeld
<1>13. QED
  <2>1. \/ UNCHANGED <<policy, state>>
        \/ \E r \in Ruleset : ReplaceRules(r)
        \/ Disable
        \/ Cleanup
        \/ RequestReconciles
        \/ MonitorTick
        \/ EnsureStep
        \/ RepairStep
        \/ StartStep
        \/ SendStep
        \/ StopStep
        \/ Crash
    BY DEF Next, HolderStep, vars, managerVars, firewallVars, processVars,
           holderVars, budgetVars, restVars, Nothing, Enable, Asked, NoFault,
           RepairFirewall, RenewLease, MonitorExits, RemoveStep, Idle,
           UnlinkStep, Restore, Close, RouterDies, Unasked, ProxyChanges,
           FirewallEdited, FirewallCheckAges, LeaseExpires, StrayDies
  <2>2. QED
    BY <2>1, <1>1, <1>2, <1>3, <1>4, <1>5, <1>6, <1>7, <1>8, <1>9, <1>10,
       <1>11, <1>12

\* With a router there are rules to be removed.
LEMMA CleanupOwedStep ==
  ASSUME CleanupOwed, CleanedIsClean, HolderType, RouterAtStep, NewWhenDown,
         FlagType, [Next]_vars
  PROVE  CleanupOwed'
<1> USE RouterAssumption DEF CleanupOwed, CleanedIsClean, RouterAtStep,
        NewWhenDown, ToRemove
<1>1. CASE UNCHANGED <<tracked, cleaned, todo>>
  BY <1>1
<1>2. CASE Enable
  BY <1>2, FreeMeans, StepsDiffer DEF Enable, Asked, Persist, processVars
<1>3. CASE Disable
  BY <1>3, DisableDoes, StepsDiffer, FreeMeans, PassType, RemovalCleans,
     HealthyIsNotClean
     DEF Asked, Counted
<1>4. CASE Cleanup
  BY <1>4, CleanupDoes, StepsDiffer, FreeMeans, PassType, RemovalCleans,
     HealthyIsNotClean
     DEF Asked
<1>5. CASE RepairFirewall
  BY <1>5, RepairFirewallDoes, StepsDiffer, FreeMeans, PassType, RemovalCleans,
     HealthyIsNotClean
     DEF Asked, Counted
<1>6. CASE RequestReconciles
  BY <1>6, ReconcileDoes, StepsDiffer, FreeMeans, PassType, RemovalCleans,
     HealthyIsNotClean
     DEF RequestReconciles, ReconcileFrame, Counted
<1>7. CASE MonitorTick
  BY <1>7, ReconcileDoes, StepsDiffer, FreeMeans, PassType, RemovalCleans,
     HealthyIsNotClean
     DEF MonitorTick, ReconcileFrame, Counted
<1>8. CASE EnsureStep
  BY <1>8, EnsureDoes, StepsDiffer, FreeMeans, PassType, RemovalCleans,
     HealthyIsNotClean
     DEF Idle, PassSucceeds, PassFails, firewallVars, Counted
<1>9. CASE RepairStep
  BY <1>9, RepairDoes, StepsDiffer, FreeMeans, PassType, RemovalCleans,
     HealthyIsNotClean
     DEF Idle, PassSucceeds, PassFails, firewallVars, Counted
<1>10. CASE StartStep
  BY <1>10, StartDoes, StepsDiffer, FreeMeans, PassType, RemovalCleans,
     HealthyIsNotClean
     DEF Idle, Counted
<1>11. CASE SendStep
  BY <1>11, SendDoes, StepsDiffer, FreeMeans, PassType, RemovalCleans,
     HealthyIsNotClean
     DEF Idle, Health, Available, Counted
<1>12. CASE StopStep
  BY <1>12, StopDoes, StepsDiffer, FreeMeans, PassType, RemovalCleans,
     HealthyIsNotClean
     DEF Idle, Goes, NextStop, ToStop, Counted
<1>13. CASE RemoveStep
  BY <1>13, RemoveDoes, StepsDiffer, FreeMeans, PassType, RemovalCleans,
     HealthyIsNotClean
     DEF Idle, Goes, NextRemove, Counted
<1>14. CASE UnlinkStep
  BY <1>14, UnlinkDoes, StepsDiffer, FreeMeans, PassType, RemovalCleans,
     HealthyIsNotClean
     DEF Idle, Goes, Counted
<1>15. CASE Close
  BY <1>15, CloseDoes, StepsDiffer, FreeMeans, PassType, RemovalCleans,
     HealthyIsNotClean
<1>16. CASE Crash
  BY <1>16, CrashDoes, StepsDiffer, FreeMeans, PassType, RemovalCleans,
     HealthyIsNotClean
<1> HIDE DEF CleanupOwed, CleanedIsClean, RouterAtStep, NewWhenDown, ToRemove
<1>17. QED
  <2>1. \/ UNCHANGED <<tracked, cleaned, todo>>
        \/ Enable
        \/ Disable
        \/ Cleanup
        \/ RepairFirewall
        \/ RequestReconciles
        \/ MonitorTick
        \/ EnsureStep
        \/ RepairStep
        \/ StartStep
        \/ SendStep
        \/ StopStep
        \/ RemoveStep
        \/ UnlinkStep
        \/ Close
        \/ Crash
    BY DEF Next, HolderStep, vars, managerVars, firewallVars, processVars,
           holderVars, budgetVars, restVars, Nothing, ReplaceRules, Asked,
           NoFault, RenewLease, MonitorExits, Restore, RouterDies, Unasked,
           ProxyChanges, FirewallEdited, FirewallCheckAges, LeaseExpires,
           StrayDies
  <2>2. QED
    BY <2>1, <1>1, <1>2, <1>3, <1>4, <1>5, <1>6, <1>7, <1>8, <1>9, <1>10,
       <1>11, <1>12, <1>13, <1>14, <1>15, <1>16

\* Rules made after a removal are seen by the next one.
LEMMA CleanedIsCleanStep ==
  ASSUME CleanedIsClean, FirewallType, HolderType, FlagType, "partial" \notin
         Rare, [Next]_vars
  PROVE  CleanedIsClean'
<1> USE RouterAssumption DEF CleanedIsClean, FirewallType
<1>1. CASE UNCHANGED <<cleaned, fw>>
  BY <1>1
<1>2. CASE Enable
  BY <1>2, FreeMeans, StepsDiffer DEF Enable, Asked, Persist, processVars
<1>3. CASE EnsureStep
  BY <1>3, EnsureDoes, StepsDiffer, FreeMeans, PassType, RemovalCleans,
     HealthyIsNotClean
     DEF Idle, PassSucceeds, PassFails, firewallVars, Counted
<1>4. CASE RepairStep
  BY <1>4, RepairDoes, StepsDiffer, FreeMeans, PassType, RemovalCleans,
     HealthyIsNotClean
     DEF Idle, PassSucceeds, PassFails, firewallVars, Counted
<1>5. CASE RemoveStep
  BY <1>5, RemoveDoes, StepsDiffer, FreeMeans, PassType, RemovalCleans,
     HealthyIsNotClean
     DEF Idle, Goes, NextRemove, ToRemove, Counted
<1>6. CASE Crash
  BY <1>6, CrashDoes, StepsDiffer, FreeMeans, PassType, RemovalCleans,
     HealthyIsNotClean
<1>7. CASE FirewallEdited
  BY <1>7, EditMakesNone DEF FirewallEdited, Unasked
<1> HIDE DEF CleanedIsClean, FirewallType
<1>8. QED
  <2>1. \/ UNCHANGED <<cleaned, fw>>
        \/ Enable
        \/ EnsureStep
        \/ RepairStep
        \/ RemoveStep
        \/ Crash
        \/ FirewallEdited
    BY DEF Next, HolderStep, vars, managerVars, firewallVars, processVars,
           holderVars, budgetVars, restVars, Nothing, ReplaceRules, Asked,
           NoFault, Disable, Cleanup, RepairFirewall, RenewLease,
           RequestReconciles, Reconcile, KeepRouting, StopRouting,
           MonitorTick, MonitorExits, StartStep, Idle, SendStep, StopStep,
           UnlinkStep, Restore, Close, RouterDies, Unasked, ProxyChanges,
           FirewallCheckAges, LeaseExpires, StrayDies
  <2>2. QED
    BY <2>1, <1>1, <1>2, <1>3, <1>4, <1>5, <1>6, <1>7

\* Each step of a stop that does not fail achieves its part.
LEMMA StopDoneStep ==
  ASSUME StopDone, HolderType, NewWhenDown, FlagType, CountType, [Next]_vars
  PROVE  StopDone'
<1> USE RouterAssumption DEF StopDone, HolderType, NewWhenDown, NotEnabled
<1>1. CASE UNCHANGED <<desired, file, op, failed>>
  BY <1>1
<1>2. ASSUME NEW r \in Ruleset, ReplaceRules(r)
       PROVE  StopDone'
  BY <1>2, FreeMeans, StepsDiffer
     DEF ReplaceRules, Asked, Persist, firewallVars, holderVars, processVars
<1>3. CASE Enable
  BY <1>3, FreeMeans, StepsDiffer DEF Enable, Asked, Persist, processVars
<1>4. CASE Disable
  <2>1. faults' # faults + 1 \/ faults' # faults
    BY DEF CountType
  <2>2. ~failed' => file' = [enabled |-> FALSE, rules |-> rules]
    BY <1>4, <2>1, DisableDoes
  <2>3. ~failed' => ~file'.enabled
    BY <2>2
  <2>4. QED
    BY <1>4, <2>3, DisableDoes
<1>5. CASE Cleanup
  BY <1>5, CleanupDoes, StepsDiffer, FreeMeans DEF Asked
<1>6. CASE RepairFirewall
  BY <1>6, RepairFirewallDoes, StepsDiffer, FreeMeans DEF Asked, Counted
<1>7. CASE RequestReconciles
  BY <1>7, ReconcileDoes, StepsDiffer, FreeMeans
     DEF RequestReconciles, ReconcileFrame, Counted
<1>8. CASE MonitorTick
  BY <1>8, ReconcileDoes, StepsDiffer, FreeMeans
     DEF MonitorTick, ReconcileFrame, Counted
<1>9. CASE EnsureStep
  BY <1>9, EnsureDoes, StepsDiffer, FreeMeans
     DEF Idle, PassSucceeds, PassFails, firewallVars, Counted
<1>10. CASE RepairStep
  BY <1>10, RepairDoes, StepsDiffer, FreeMeans
     DEF Idle, PassSucceeds, PassFails, firewallVars, Counted
<1>11. CASE StartStep
  BY <1>11, StartDoes, StepsDiffer, FreeMeans DEF Idle, Counted
<1>12. CASE SendStep
  BY <1>12, SendDoes, StepsDiffer, FreeMeans DEF Idle, Health, Available, Counted
<1>13. CASE StopStep
  <2>1. UNCHANGED <<desired, file>>
    BY <1>13, StopDoes DEF Idle
  <2>2. op' = "none" \/ (op' = op /\ (~failed' => ~failed))
    BY <1>13, StopDoes DEF Goes
  <2>3. QED
    BY <2>1, <2>2
<1>14. CASE RemoveStep
  <2>1. UNCHANGED <<desired, file>>
    BY <1>14, RemoveDoes DEF Idle
  <2>2. op' = "none" \/ (op' = op /\ (~failed' => ~failed))
    BY <1>14, RemoveDoes DEF Goes
  <2>3. QED
    BY <2>1, <2>2
<1>15. CASE UnlinkStep
  BY <1>15, UnlinkDoes, StepsDiffer, FreeMeans DEF Idle, Goes, Counted
<1>16. CASE Restore
  BY <1>16, FreeMeans, StepsDiffer
     DEF Restore, firewallVars, holderVars, processVars
<1>17. CASE Close
  BY <1>17, CloseDoes, StepsDiffer, FreeMeans
<1>18. CASE Crash
  BY <1>18, CrashDoes, StepsDiffer, FreeMeans
<1> HIDE DEF StopDone, HolderType, NewWhenDown, NotEnabled
<1>19. QED
  <2>1. \/ UNCHANGED <<desired, file, op, failed>>
        \/ \E r \in Ruleset : ReplaceRules(r)
        \/ Enable
        \/ Disable
        \/ Cleanup
        \/ RepairFirewall
        \/ RequestReconciles
        \/ MonitorTick
        \/ EnsureStep
        \/ RepairStep
        \/ StartStep
        \/ SendStep
        \/ StopStep
        \/ RemoveStep
        \/ UnlinkStep
        \/ Restore
        \/ Close
        \/ Crash
    BY DEF Next, HolderStep, vars, managerVars, firewallVars, processVars,
           holderVars, budgetVars, restVars, Nothing, RenewLease, Asked,
           MonitorExits, RouterDies, Unasked, ProxyChanges, FirewallEdited,
           FirewallCheckAges, LeaseExpires, StrayDies
  <2>2. QED
    BY <2>1, <1>1, <1>2, <1>3, <1>4, <1>5, <1>6, <1>7, <1>8, <1>9, <1>10,
       <1>11, <1>12, <1>13, <1>14, <1>15, <1>16, <1>17, <1>18

\* Rules that a stop has removed stay away.
LEMMA CleanDoneStep ==
  ASSUME CleanDone, CleanedIsClean, HolderType, FirewallType, FlagType,
         [Next]_vars
  PROVE  CleanDone'
<1> USE RouterAssumption DEF CleanDone, CleanedIsClean, HolderType,
        FirewallType
<1>1. CASE UNCHANGED <<fw, todo, failed>>
  BY <1>1
<1>2. CASE Disable
  BY <1>2, DisableDoes, StepsDiffer, FreeMeans, PassType, RemovalCleans,
     HealthyIsNotClean
     DEF Asked, Counted
<1>3. CASE Cleanup
  BY <1>3, CleanupDoes, StepsDiffer, FreeMeans, PassType, RemovalCleans,
     HealthyIsNotClean
     DEF Asked
<1>4. CASE RepairFirewall
  BY <1>4, RepairFirewallDoes, StepsDiffer, FreeMeans, PassType, RemovalCleans,
     HealthyIsNotClean
     DEF Asked, Counted
<1>5. CASE RequestReconciles
  BY <1>5, ReconcileDoes, StepsDiffer, FreeMeans, PassType, RemovalCleans,
     HealthyIsNotClean
     DEF RequestReconciles, ReconcileFrame, Counted
<1>6. CASE MonitorTick
  BY <1>6, ReconcileDoes, StepsDiffer, FreeMeans, PassType, RemovalCleans,
     HealthyIsNotClean
     DEF MonitorTick, ReconcileFrame, Counted
<1>7. CASE EnsureStep
  BY <1>7, EnsureDoes, StepsDiffer, FreeMeans, PassType, RemovalCleans,
     HealthyIsNotClean
     DEF Idle, PassSucceeds, PassFails, firewallVars, Counted
<1>8. CASE RepairStep
  BY <1>8, RepairDoes, StepsDiffer, FreeMeans, PassType, RemovalCleans,
     HealthyIsNotClean
     DEF Idle, PassSucceeds, PassFails, firewallVars, Counted
<1>9. CASE StartStep
  BY <1>9, StartDoes, StepsDiffer, FreeMeans, PassType, RemovalCleans,
     HealthyIsNotClean
     DEF Idle, Counted
<1>10. CASE SendStep
  BY <1>10, SendDoes, StepsDiffer, FreeMeans, PassType, RemovalCleans,
     HealthyIsNotClean
     DEF Idle, Health, Available, Counted
<1>11. CASE StopStep
  BY <1>11, StopDoes, StepsDiffer, FreeMeans, PassType, RemovalCleans,
     HealthyIsNotClean
     DEF Idle, Goes, NextStop, ToStop, Counted
<1>12. CASE RemoveStep
  BY <1>12, RemoveDoes, StepsDiffer, FreeMeans, PassType, RemovalCleans,
     HealthyIsNotClean
     DEF Idle, Goes, NextRemove, ToRemove, Counted
<1>13. CASE UnlinkStep
  BY <1>13, UnlinkDoes, StepsDiffer, FreeMeans, PassType, RemovalCleans,
     HealthyIsNotClean
     DEF Idle, Goes, Counted
<1>14. CASE Close
  BY <1>14, CloseDoes, StepsDiffer, FreeMeans, PassType, RemovalCleans,
     HealthyIsNotClean
<1>15. CASE Crash
  BY <1>15, CrashDoes, StepsDiffer, FreeMeans, PassType, RemovalCleans,
     HealthyIsNotClean
<1>16. CASE FirewallEdited
  BY <1>16, EditMakesNone DEF FirewallEdited, Unasked, holderVars
<1> HIDE DEF CleanDone, CleanedIsClean, HolderType, FirewallType
<1>17. QED
  <2>1. \/ UNCHANGED <<fw, todo, failed>>
        \/ Disable
        \/ Cleanup
        \/ RepairFirewall
        \/ RequestReconciles
        \/ MonitorTick
        \/ EnsureStep
        \/ RepairStep
        \/ StartStep
        \/ SendStep
        \/ StopStep
        \/ RemoveStep
        \/ UnlinkStep
        \/ Close
        \/ Crash
        \/ FirewallEdited
    BY DEF Next, HolderStep, vars, managerVars, firewallVars, processVars,
           holderVars, budgetVars, restVars, Nothing, ReplaceRules, Asked,
           NoFault, Enable, RenewLease, MonitorExits, Restore, RouterDies,
           Unasked, ProxyChanges, FirewallCheckAges, LeaseExpires, StrayDies
  <2>2. QED
    BY <2>1, <1>1, <1>2, <1>3, <1>4, <1>5, <1>6, <1>7, <1>8, <1>9, <1>10,
       <1>11, <1>12, <1>13, <1>14, <1>15, <1>16

\* Only a request ends the quiet.
LEMMA QuietHeldStep ==
  ASSUME QuietHeld, StopDone, HolderType, RouterAtStep, NewWhenDown, FlagType,
         [Next]_vars
  PROVE  QuietHeld'
<1> USE RouterAssumption DEF QuietHeld, StopDone, HolderType, RouterAtStep,
        NewWhenDown, NotEnabled, ToRemove
<1>1. CASE UNCHANGED <<desired, tracked, file, todo, quiet>>
  BY <1>1
<1>2. ASSUME NEW r \in Ruleset, ReplaceRules(r)
       PROVE  QuietHeld'
  BY <1>2, FreeMeans, StepsDiffer
     DEF ReplaceRules, Asked, Persist, firewallVars, holderVars, processVars
<1>3. CASE Enable
  BY <1>3, FreeMeans, StepsDiffer DEF Enable, Asked, Persist, processVars
<1>4. CASE Disable
  <2>1. file' = file \/ ~file'.enabled
    BY <1>4, DisableDoes
  <2>2. QED
    BY <1>4, <2>1, DisableDoes, StepsDiffer
<1>5. CASE Cleanup
  BY <1>5, CleanupDoes, StepsDiffer, FreeMeans DEF Asked
<1>6. CASE RepairFirewall
  BY <1>6, RepairFirewallDoes, StepsDiffer, FreeMeans DEF Asked, Counted
<1>7. CASE RequestReconciles
  BY <1>7, ReconcileDoes, StepsDiffer, FreeMeans
     DEF RequestReconciles, ReconcileFrame, Counted
<1>8. CASE MonitorTick
  BY <1>8, ReconcileDoes, StepsDiffer, FreeMeans
     DEF MonitorTick, ReconcileFrame, Counted
<1>9. CASE EnsureStep
  BY <1>9, EnsureDoes, StepsDiffer, FreeMeans
     DEF Idle, PassSucceeds, PassFails, firewallVars, Counted
<1>10. CASE RepairStep
  BY <1>10, RepairDoes, StepsDiffer, FreeMeans
     DEF Idle, PassSucceeds, PassFails, firewallVars, Counted
<1>11. CASE StartStep
  BY <1>11, StartDoes, StepsDiffer, FreeMeans DEF Idle, Counted
<1>12. CASE SendStep
  BY <1>12, SendDoes, StepsDiffer, FreeMeans DEF Idle, Health, Available, Counted
<1>13. CASE StopStep
  BY <1>13, StopDoes, StepsDiffer, FreeMeans
     DEF Idle, Goes, NextStop, ToStop, Counted
<1>14. CASE RemoveStep
  BY <1>14, RemoveDoes, StepsDiffer, FreeMeans DEF Idle, Goes, NextRemove, Counted
<1>15. CASE UnlinkStep
  BY <1>15, UnlinkDoes, StepsDiffer, FreeMeans DEF Idle, Goes, Counted
<1>16. CASE Restore
  BY <1>16, FreeMeans, StepsDiffer
     DEF Restore, firewallVars, holderVars, processVars
<1>17. CASE Close
  BY <1>17, CloseDoes, StepsDiffer, FreeMeans
<1>18. CASE Crash
  BY <1>18, CrashDoes, StepsDiffer, FreeMeans
<1> HIDE DEF QuietHeld, StopDone, HolderType, RouterAtStep, NewWhenDown,
         NotEnabled, ToRemove
<1>19. QED
  <2>1. \/ UNCHANGED <<desired, tracked, file, todo, quiet>>
        \/ \E r \in Ruleset : ReplaceRules(r)
        \/ Enable
        \/ Disable
        \/ Cleanup
        \/ RepairFirewall
        \/ RequestReconciles
        \/ MonitorTick
        \/ EnsureStep
        \/ RepairStep
        \/ StartStep
        \/ SendStep
        \/ StopStep
        \/ RemoveStep
        \/ UnlinkStep
        \/ Restore
        \/ Close
        \/ Crash
    BY DEF Next, HolderStep, vars, managerVars, firewallVars, processVars,
           holderVars, budgetVars, restVars, Nothing, RenewLease, Asked,
           MonitorExits, RouterDies, Unasked, ProxyChanges, FirewallEdited,
           FirewallCheckAges, LeaseExpires, StrayDies
  <2>2. QED
    BY <2>1, <1>1, <1>2, <1>3, <1>4, <1>5, <1>6, <1>7, <1>8, <1>9, <1>10,
       <1>11, <1>12, <1>13, <1>14, <1>15, <1>16, <1>17, <1>18

\* Nothing but a request makes rules.
LEMMA QuietCleanStep ==
  ASSUME QuietClean, QuietHeld, CleanDone, CleanedIsClean, HolderType,
         FirewallType, FlagType, [Next]_vars
  PROVE  QuietClean'
<1> USE RouterAssumption DEF QuietClean, QuietHeld, CleanDone, CleanedIsClean,
        HolderType, FirewallType, NotEnabled
<1>1. CASE UNCHANGED <<fw, quiet>>
  BY <1>1
<1>2. CASE Enable
  BY <1>2, FreeMeans, StepsDiffer DEF Enable, Asked, Persist, processVars
<1>3. CASE RepairFirewall
  BY <1>3, RepairFirewallDoes, StepsDiffer, FreeMeans, PassType, RemovalCleans,
     HealthyIsNotClean
     DEF Asked, Counted
<1>4. CASE EnsureStep
  BY <1>4, EnsureDoes, StepsDiffer, FreeMeans, PassType, RemovalCleans,
     HealthyIsNotClean
     DEF Idle, PassSucceeds, PassFails, firewallVars, Counted
<1>5. CASE RepairStep
  BY <1>5, RepairDoes, StepsDiffer, FreeMeans, PassType, RemovalCleans,
     HealthyIsNotClean
     DEF Idle, PassSucceeds, PassFails, firewallVars, Counted
<1>6. CASE StartStep
  BY <1>6, StartDoes, StepsDiffer, FreeMeans, PassType, RemovalCleans,
     HealthyIsNotClean
     DEF Idle, Counted
<1>7. CASE SendStep
  BY <1>7, SendDoes, StepsDiffer, FreeMeans, PassType, RemovalCleans,
     HealthyIsNotClean
     DEF Idle, Health, Available, Counted
<1>8. CASE StopStep
  BY <1>8, StopDoes, StepsDiffer, FreeMeans, PassType, RemovalCleans,
     HealthyIsNotClean
     DEF Idle, Goes, NextStop, ToStop, Counted
<1>9. CASE RemoveStep
  BY <1>9, RemoveDoes, StepsDiffer, FreeMeans, PassType, RemovalCleans,
     HealthyIsNotClean
     DEF Idle, Goes, NextRemove, ToRemove, Counted
<1>10. CASE UnlinkStep
  BY <1>10, UnlinkDoes, StepsDiffer, FreeMeans, PassType, RemovalCleans,
     HealthyIsNotClean
     DEF Idle, Goes, Counted
<1>11. CASE FirewallEdited
  BY <1>11, EditMakesNone DEF FirewallEdited, Unasked, holderVars
<1> HIDE DEF QuietClean, QuietHeld, CleanDone, CleanedIsClean, HolderType,
         FirewallType, NotEnabled
<1>12. QED
  <2>1. \/ UNCHANGED <<fw, quiet>>
        \/ Enable
        \/ RepairFirewall
        \/ EnsureStep
        \/ RepairStep
        \/ StartStep
        \/ SendStep
        \/ StopStep
        \/ RemoveStep
        \/ UnlinkStep
        \/ FirewallEdited
    BY DEF Next, HolderStep, vars, managerVars, firewallVars, processVars,
           holderVars, budgetVars, restVars, Nothing, ReplaceRules, Asked,
           NoFault, Disable, Cleanup, RenewLease, RequestReconciles,
           Reconcile, KeepRouting, StopRouting, MonitorTick, MonitorExits,
           Restore, Close, Crash, RouterDies, Unasked, ProxyChanges,
           FirewallCheckAges, LeaseExpires, StrayDies
  <2>2. QED
    BY <2>1, <1>1, <1>2, <1>3, <1>4, <1>5, <1>6, <1>7, <1>8, <1>9, <1>10,
       <1>11

-----------------------------------------------------------------------------
(***************************************************************************)
(* The theorems.                                                           *)
(***************************************************************************)
LEMMA RouterInit == Init => RouterInv
<1> SUFFICES ASSUME Init PROVE RouterInv
  OBVIOUS
<1> USE RouterAssumption
<1>1. FlagType
  BY Zenon DEF Init, FlagType
<1>2. CountType /\ PolicyType /\ StateType
  BY DEF Init, CountType, PolicyType, StateType
<1>3. RulesType
  BY DEF Init, RulesType, StoredFile
<1>4. FirewallType
  BY DEF Init, FirewallType, RuleState
<1>5. todo = Nothing /\ HolderType
  BY DEF Init, HolderType, Nothing
<1>6. NewWhenDown /\ RouterAtStep /\ PolicyHeld
  BY <1>5, StepsDiffer DEF Init, NewWhenDown, RouterAtStep, PolicyHeld, ToRemove
<1>7. RouterBacked /\ StatusHeld /\ BlockedHeld /\ CleanupOwed
  BY <1>5, StepsDiffer DEF Init, RouterBacked, StatusHeld, BlockedHeld, CleanupOwed
<1>8. CleanedIsClean /\ StopDone /\ CleanDone /\ QuietHeld /\ QuietClean
  BY <1>5, StepsDiffer
     DEF Init, CleanedIsClean, StopDone, CleanDone, QuietHeld, QuietClean
<1>9. QED
  BY <1>1, <1>2, <1>3, <1>4, <1>5, <1>6, <1>7, <1>8 DEF RouterInv, Types

LEMMA RouterInvStep ==
  ASSUME "partial" \notin Rare, RouterInv, [Next]_vars
  PROVE  RouterInv'
<1> USE DEF RouterInv, Types
<1>1. FlagType' /\ CountType' /\ RulesType' /\ PolicyType'
  BY FlagTypeStep, CountTypeStep, RulesTypeStep, PolicyTypeStep
<1>2. StateType' /\ FirewallType' /\ HolderType' /\ NewWhenDown'
  BY StateTypeStep, FirewallTypeStep, HolderTypeStep, NewWhenDownStep
<1>3. RouterAtStep' /\ PolicyHeld' /\ RouterBacked' /\ StatusHeld' /\ BlockedHeld'
  BY RouterAtStepStep, PolicyHeldStep, RouterBackedStep, StatusHeldStep, BlockedHeldStep
<1>4. CleanupOwed' /\ CleanedIsClean' /\ StopDone' /\ CleanDone'
  BY CleanupOwedStep, CleanedIsCleanStep, StopDoneStep, CleanDoneStep
<1>5. QuietHeld' /\ QuietClean'
  BY QuietHeldStep, QuietCleanStep
<1>6. QED
  BY <1>1, <1>2, <1>3, <1>4, <1>5

\* The type invariant follows from the parts.
LEMMA TypesImply ==
  ASSUME Types, NewWhenDown, PolicyHeld
  PROVE  TypeOK
<1> USE RouterAssumption DEF Types
<1>1. /\ desired \in BOOLEAN /\ leased \in BOOLEAN /\ tracked \in BOOLEAN
      /\ cleaned \in BOOLEAN /\ ready \in BOOLEAN /\ fresh \in BOOLEAN
      /\ alive \in BOOLEAN /\ stray \in BOOLEAN /\ proxyUp \in BOOLEAN
      /\ monitor \in BOOLEAN /\ failed \in BOOLEAN /\ quiet \in BOOLEAN
  BY Zenon DEF FlagType
<1>2. gen \in Gen /\ pending \in 0..(MaxRequests + 1)
  BY DEF CountType, Gen
<1>3. policy \in Policy \cup {None}
  BY <1>2 DEF PolicyType, PolicyHeld, Policy
<1>4. todo \in Todo /\ op \in Op /\ service \in {"down", "up", "closing"}
  BY DEF HolderType, Todo, Op, Nothing, EnsureStart, StartSend, EnsureSend, SendOnly,
         StopOnly, StopRemove, StopAll, RemoveUnlink, RemoveOnly, UnlinkOnly, RepairOnly
<1>5. /\ requests \in 0..MaxRequests /\ faults \in 0..MaxFaults
      /\ events \in 0..MaxEvents /\ crashes \in 0..MaxCrashes
  BY DEF CountType
<1>6. /\ rules \in Ruleset /\ file \in [enabled: BOOLEAN, rules: Ruleset] \cup {None}
      /\ loaded \in Command \cup {None}
  BY DEF RulesType, StoredFile
<1>7. QED
  BY <1>1, <1>2, <1>3, <1>4, <1>5, <1>6, Zenon DEF StateType, FirewallType, TypeOK

\* Whatever fails, dies or is edited from outside, and however requests, the
\* monitor, shutdown and crashes interleave: when Manager.mu is free, a recorded
\* policy is what the router does, a router is wanted and has its firewall
\* rules, the status tells the truth about it, and a firewall that was cleaned
\* has no rule of the group (Reconcile, ensureFirewallLocked, sendPolicyLocked,
\* stopProcessLocked).  Assumed: no Ensure fails half-way after a removal.
THEOREM RouterAlwaysSound ==
  ASSUME "partial" \notin Rare
  PROVE  Spec => []RouterSound
<1>1. ASSUME RouterInv
      PROVE  RouterSound
  <2> USE <1>1 DEF RouterInv
  <2>1. TypeOK
    BY TypesImply
  <2>2. PolicyInForce
    BY StepsDiffer DEF PolicyInForce, PolicyHeld, Nothing, ToStop
  <2>3. RouterNeedsFirewall
    <3> SUFFICES ASSUME todo = Nothing, tracked PROVE desired /\ ready /\ ~cleaned
      BY DEF RouterNeedsFirewall, Nothing
    <3>1. QED
      BY StepsDiffer DEF RouterBacked, ToStop, CleanupOwed
  <2>4. StatusMatchesRouter
    <3>1. todo = <<>> => todo \in {Nothing, RepairOnly}
      BY DEF Nothing
    <3>2. QED
      BY <3>1 DEF StatusMatchesRouter, StatusHeld, BlockedHeld
  <2>5. QED
    BY <2>1, <2>2, <2>3, <2>4 DEF RouterSound
<1>2. RouterInv /\ [Next]_vars => RouterInv'
  BY RouterInvStep
<1>3. QED
  BY <1>1, <1>2, RouterInit, PTL DEF Spec

\* Only a Stop that times out leaves a router behind, in a start that fails or
\* in a stop that fails for it.
LEMMA StraySteps ==
  ASSUME RouterInv, Next, ~stray, stray'
  PROVE  ~quiet' /\ (op' \in {"disable", "cleanup"} => failed')
<1> USE DEF RouterInv
<1>1. \/ StartStep /\ Continue(<<"remove">>, TRUE)
      \/ StopStep /\ tracked /\ Continue(Tail(todo), TRUE)
  <2>1. CASE StartStep
    BY <2>1 DEF StartStep
  <2>2. CASE StopStep
    BY <2>2 DEF StopStep, processVars
  <2>3. ~(EnsureStep \/ RepairStep \/ SendStep \/ RemoveStep \/ UnlinkStep)
    BY DEF EnsureStep, RepairStep, SendStep, RemoveStep, UnlinkStep, processVars
  <2>4. ~\E r \in Ruleset : ReplaceRules(r)
    BY DEF ReplaceRules, processVars
  <2>5. ~(Enable \/ Disable \/ Cleanup \/ RepairFirewall \/ RenewLease)
    BY DEF Enable, Disable, Cleanup, RepairFirewall, RenewLease, processVars
  <2>6. ~(RequestReconciles \/ MonitorTick \/ MonitorExits)
    BY DEF RequestReconciles, MonitorTick, MonitorExits, Reconcile, processVars
  <2>7. ~(Restore \/ Close \/ Crash)
    BY DEF Restore, Close, Crash, processVars
  <2>8. ~(RouterDies \/ ProxyChanges \/ FirewallEdited \/ FirewallCheckAges)
    BY DEF RouterDies, ProxyChanges, FirewallEdited, FirewallCheckAges, processVars
  <2>9. ~(LeaseExpires \/ StrayDies)
    BY DEF LeaseExpires, StrayDies, processVars
  <2>10. QED
    BY <2>1, <2>2, <2>3, <2>4, <2>5, <2>6, <2>7, <2>8, <2>9 DEF Next, HolderStep
<1>2. ~quiet
  <2>1. CASE StartStep
    <3>1. todo = StartSend
      BY <2>1, FirstSteps DEF StartStep, Types
    <3>2. QED
      BY <3>1 DEF QuietHeld
  <2>2. CASE tracked
    BY <2>2 DEF QuietHeld
  <2>3. QED
    BY <1>1, <2>1, <2>2
<1>3. \E rest : Continue(rest, TRUE)
  BY <1>1
<1>4. PICK rest : Continue(rest, TRUE)
  BY <1>3
<1>5. ~quiet'
  BY <1>2, <1>4 DEF Continue
<1>6. CASE rest = <<>>
  BY <1>4, <1>5, <1>6 DEF Continue
<1>7. CASE rest # <<>>
  BY <1>4, <1>5, <1>7 DEF Continue
<1>8. QED
  BY <1>6, <1>7

\* After a Disable or a Cleanup that reported success, and until routing is
\* asked for again, the manager's router has ended, there is no rule of the
\* group and no wish to route in config.json, although Reconcile calls made
\* before may still be waiting for the mutex and the service may crash and
\* restore itself from the file (Disable, Cleanup, Restore).  What may still run
\* is a router whose own Stop timed out in an operation before that one: a stop
\* whose own router does not end fails.  Assumed as above.
THEOREM StopAlwaysLeavesNothing ==
  ASSUME "partial" \notin Rare
  PROVE  Spec => StopLeavesNothing
<1>1. RouterInv /\ [Next]_vars => RouterInv'
  BY RouterInvStep
<1>2. RouterInv' => StopLeaves'
  BY DEF RouterInv, QuietHeld, QuietClean, RouterAtStep, NotEnabled, StopLeaves
<1>3. ASSUME RouterInv, [Next]_vars
      PROVE  [/\ StopLeaves'
              /\ ~stray /\ stray' =>
                   ~quiet' /\ (op' \in {"disable", "cleanup"} => failed')]_vars
  BY <1>1, <1>2, <1>3, StraySteps
<1>4. QED
  BY <1>1, <1>3, RouterInit, PTL DEF Spec, StopLeavesNothing
=============================================================================
