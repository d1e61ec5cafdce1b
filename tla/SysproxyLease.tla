--------------------------- MODULE SysproxyLease ---------------------------
(***************************************************************************)
(* The system proxy lease, its guard and its recovery record               *)
(* (route/sysproxyapi).                                                    *)
(*                                                                         *)
(* A request sets the system proxy and leases it: a timer ends the lease   *)
(* unless the client renews it, a guard may defend the setting against     *)
(* changes, and a record on disk lets the next process of the service undo *)
(* it.  Everything that changes the setting runs under sysproxyMutationMu; *)
(* pc says where its holder is, and each system call of the holder is a    *)
(* step that can fail, with or without its effect.  The user, the network  *)
(* and the clock do not wait for the mutex.                                *)
(*                                                                         *)
(* A setting (mode, servers or PAC URL, bypass list) is one value: two     *)
(* settings are equal when sysproxyGuardMatches says that they are.        *)
(***************************************************************************)
EXTENDS Integers, FiniteSets

CONSTANTS
  Target,         \* settings that requests ask for
  Foreign,        \* a setting of the user's own
  Disabled,       \* no proxy
  Nothing,        \* no record, no setting
  Guard,          \* slots for guard goroutines
  NoGuard,
  Darwin,         \* TRUE: reconcile the lease when the network changes
  LeaseTime,      \* sysproxyLeaseDuration, in ticks
  RetryTime,      \* sysproxyLeaseRetry, in ticks
  Rare,           \* failures included: "sync" (after the rename of the
                  \* record), "dir" (preparing its directory at startup)
  Ops,            \* the requests of the instance
  MaxRequests, MaxGen, MaxEdits, MaxSwitches, MaxFaults, MaxCrashes

Setting == Target \cup {Foreign, Disabled}
Network == {0, 1}
NoNetwork == -1
Gen == 1..MaxGen

ASSUME SysproxyAssumption ==
  /\ {Foreign, Disabled, Nothing} \cap Target = {}
  /\ Cardinality({Foreign, Disabled, Nothing}) = 3
  /\ NoGuard \notin Guard
  /\ LeaseTime \in Nat \ {0} /\ RetryTime \in 1..LeaseTime
  /\ Darwin \in BOOLEAN /\ Rare \subseteq {"sync", "dir"}
  /\ Ops \subseteq {"set", "disable", "renew", "prepare", "adopt", "shutdown"}
  /\ {MaxRequests, MaxGen, MaxEdits, MaxSwitches, MaxFaults, MaxCrashes}
       \subseteq Nat

VARIABLES
  os,          \* the system proxy setting
  put,         \* history: what the service last wrote or adopted, until it
               \* disables it or hands it to the native client
  disk,        \* managed.json: the setting the lease expects
  lease,       \* activeSysproxyLease
  left,        \* ticks until lease.deadline
  generation,  \* sysproxyLeaseGeneration
  timer,       \* lease.timer: ticks until it fires, 0 when not armed
  orphans,     \* armed expiry timers that lease.timer no longer names
  waiting,     \* expiry callbacks waiting for the mutex, by generation
  recon,       \* lease.reconcileTimer is armed
  reconWait,   \* reconcile callbacks waiting for the mutex, by generation
  recovery,    \* managedProxyRecoveryTimer is armed
  recWait,     \* recovery callbacks waiting, current or of an old generation
  active,      \* the guard whose generation is current
  guard,       \* the guard goroutines
  pc, op,      \* the holder of sysproxyMutationMu and its local variables
  stopping,    \* route.Stop has begun
  net,         \* the active network
  requests, edits, switches, faults, crashes

leaseVars == <<lease, left, generation, timer, recon>>
fireVars  == <<orphans, waiting, reconWait>>
recVars   == <<recovery, recWait>>
guardVars == <<active, guard>>
worldVars == <<net, edits, switches>>
runVars   == <<stopping, requests, crashes>>
vars == <<os, put, disk, leaseVars, fireVars, recVars, guardVars, pc, op,
          runVars, worldVars, faults>>

NoLease == [on |-> FALSE, gen |-> 0, target |-> Nothing, expected |-> Nothing,
            sig |-> NoNetwork]
NoOp == [kind |-> "none", target |-> Nothing, guard |-> NoGuard,
         guarded |-> FALSE, seen |-> Nothing, sig |-> NoNetwork]
GuardOff == [pc |-> "off", want |-> Nothing, expected |-> Nothing,
             changed |-> FALSE]

Init ==
  /\ os \in {Disabled, Foreign} /\ put = Nothing
  /\ disk = Nothing
  /\ lease = NoLease /\ left = 0 /\ generation = 0 /\ timer = 0
  /\ orphans = {} /\ waiting = {} /\ recon = FALSE /\ reconWait = {}
  /\ recovery = FALSE /\ recWait = {}
  /\ active = NoGuard /\ guard = [g \in Guard |-> GuardOff]
  /\ pc = "free" /\ op = NoOp /\ stopping = FALSE /\ net = 0
  /\ requests = 0 /\ edits = 0 /\ switches = 0 /\ faults = 0 /\ crashes = 0

Free == pc = "free"

(***************************************************************************)
(* The system calls.                                                       *)
(***************************************************************************)
Ok == UNCHANGED faults
Fails == faults < MaxFaults /\ faults' = faults + 1

\* Every watch that has begun sees a write of the setting.
Notified(f) ==
  [g \in Guard |-> IF f[g].pc = "off" THEN f[g]
                   ELSE [f[g] EXCEPT !.changed = TRUE]]

\* Apply and Disable: a call that fails may have had its effect.
Written(v) ==
  /\ Ok /\ os' = v
Miswritten(v) ==
  /\ Fails /\ os' \in {os, v}

\* Mutant: the record is not written.
PersistedNever(v) == Ok /\ v \in Setting /\ UNCHANGED disk

\* writeManagedProxyRecord: the rename replaces the record; the directory
\* sync after it can still fail.
Persisted(v) == Ok /\ disk' = v
NotPersisted(v) ==
  /\ Fails
  /\ disk' \in {disk} \cup (IF "sync" \in Rare THEN {v} ELSE {})

(***************************************************************************)
(* Changes of the service's own state.                                     *)
(***************************************************************************)
\* Mutant: the generation is not moved on.
StopGuardIdle == UNCHANGED active

StopGuard == active' = NoGuard

ClearLease ==
  /\ lease' = NoLease /\ left' = 0 /\ timer' = 0 /\ recon' = FALSE
  /\ UNCHANGED generation

StopRecovery ==
  /\ recovery' = FALSE
  /\ recWait' = {"stale" : k \in recWait}

\* replaceSysproxyLease: the new lease has its timers and no network yet.
ReplaceLease(t, expected) ==
  /\ StopRecovery
  /\ generation' = generation + 1
  /\ lease' = [on |-> TRUE, gen |-> generation + 1, target |-> t,
               expected |-> expected, sig |-> NoNetwork]
  /\ left' = LeaseTime /\ timer' = LeaseTime /\ recon' = Darwin

Unlock == pc' = "free" /\ op' = NoOp
Goto(p) == pc' = p /\ UNCHANGED op

(***************************************************************************)
(* POST /sysproxy/proxy and /pac.                                          *)
(***************************************************************************)
Request(kind) ==
  /\ Free /\ kind \in Ops /\ requests < MaxRequests
  /\ requests' = requests + 1
  /\ UNCHANGED <<stopping, crashes>>

\* A set or an adoption; the instance has a generation and, if the request
\* asks for a guard, a slot for it.
BeginLease(kind, t, guarded) ==
  /\ Request(kind) /\ generation < MaxGen
  /\ guarded => \E g \in Guard : guard[g].pc = "off"
  /\ op' = [NoOp EXCEPT !.kind = kind, !.target = t, !.guarded = guarded]
  /\ pc' = IF kind = "set" THEN "setApply" ELSE "adoptQuery"
  /\ UNCHANGED <<os, put, disk, leaseVars, fireVars, recVars, guardVars,
                 worldVars, faults>>

SetApply ==
  /\ pc = "setApply"
  /\ \/ Written(op.target) /\ Goto("setCapture")
     \/ Miswritten(op.target) /\ Unlock
  /\ put' = IF os' = op.target THEN op.target ELSE put
  /\ guard' = Notified(guard)
  /\ UNCHANGED <<disk, leaseVars, fireVars, recVars, active, runVars,
                 worldVars>>

\* beginManagedProxy on an error: stop the guard, drop the lease, disable.
SetFails ==
  /\ Goto("setUndo") /\ StopGuard /\ ClearLease
  /\ UNCHANGED recVars

\* captureSysproxyLease: whatever is set now becomes the expected setting.
SetCapture ==
  /\ pc = "setCapture"
  /\ \/ /\ Ok /\ pc' = "setPersist" /\ op' = [op EXCEPT !.seen = os]
        /\ UNCHANGED <<leaseVars, recVars, active>>
     \/ Fails /\ SetFails
  /\ UNCHANGED <<os, put, disk, fireVars, guard, runVars, worldVars>>

SetPersist ==
  /\ pc = "setPersist"
  /\ \/ /\ Persisted(op.seen) /\ ReplaceLease(op.target, op.seen) /\ StopGuard
        /\ IF op.guarded THEN Goto("guardQuery") ELSE Unlock
     \/ NotPersisted(op.seen) /\ SetFails
  /\ UNCHANGED <<os, put, fireVars, guard, runVars, worldVars>>

SetUndo ==
  /\ pc = "setUndo"
  /\ \/ Written(Disabled) /\ Goto("remove")
     \/ Miswritten(Disabled) /\ Unlock
  /\ put' = IF os' = Disabled THEN Nothing ELSE put
  /\ guard' = Notified(guard)
  /\ UNCHANGED <<disk, leaseVars, fireVars, recVars, active, runVars,
                 worldVars>>

\* removeManagedProxyRecord at the end of a call: an error is only logged.
Remove ==
  /\ pc = "remove"
  /\ (Ok /\ disk' = Nothing) \/ (Fails /\ UNCHANGED disk)
  /\ Unlock
  /\ UNCHANGED <<os, put, leaseVars, fireVars, recVars, guardVars,
                 runVars, worldVars>>

\* configureSysproxyGuard: read what to defend, then start the goroutine.  If
\* the query fails, a guard that runs goes on.
StartGuard ==
  /\ pc = "guardQuery"
  /\ \/ /\ Ok
        /\ \E g \in Guard :
             /\ guard[g].pc = "off"
             /\ active' = g
             /\ guard' = [guard EXCEPT ![g] =
                  [pc |-> "query", expected |-> os, changed |-> FALSE,
                   want |-> IF os = Disabled THEN op.target ELSE os]]
     \/ Fails /\ UNCHANGED guardVars
  /\ Unlock
  /\ UNCHANGED <<os, put, disk, leaseVars, fireVars, recVars, runVars,
                 worldVars>>

(***************************************************************************)
(* POST /sysproxy/disable, /renew, /native/prepare, /native/adopt.         *)
(***************************************************************************)
BeginDisable ==
  /\ Request("disable")
  /\ pc' = "disable" /\ op' = [NoOp EXCEPT !.kind = "disable"]
  /\ UNCHANGED <<os, put, disk, leaseVars, fireVars, recVars, guardVars,
                 worldVars, faults>>

Disable ==
  /\ pc = "disable"
  /\ \/ Written(Disabled) /\ Goto("remove") /\ StopGuard /\ ClearLease
     \/ Miswritten(Disabled) /\ Unlock /\ UNCHANGED <<leaseVars, active>>
  /\ put' = IF os' = Disabled THEN Nothing ELSE put
  /\ guard' = Notified(guard)
  /\ UNCHANGED <<disk, fireVars, recVars, runVars, worldVars>>

Renew ==
  /\ Request("renew") /\ lease.on
  /\ left' = LeaseTime /\ timer' = LeaseTime
  /\ UNCHANGED <<os, put, disk, lease, generation, recon, fireVars,
                 recVars, guardVars, pc, op, worldVars, faults>>

Prepare ==
  /\ Request("prepare")
  /\ StopRecovery /\ StopGuard /\ ClearLease
  /\ put' = Nothing
  /\ pc' = "remove" /\ op' = [NoOp EXCEPT !.kind = "prepare"]
  /\ UNCHANGED <<os, disk, fireVars, guard, worldVars, faults>>

\* captureNativeProxyLease: only what the request names is adopted.
AdoptQuery ==
  /\ pc = "adoptQuery"
  /\ \/ /\ Ok /\ os = op.target
        /\ pc' = "adoptPersist" /\ op' = [op EXCEPT !.seen = os]
     \/ Ok /\ os # op.target /\ Unlock
     \/ Fails /\ Unlock
  /\ UNCHANGED <<os, put, disk, leaseVars, fireVars, recVars, guardVars,
                 runVars, worldVars>>

AdoptPersist ==
  /\ pc = "adoptPersist"
  /\ \/ /\ Persisted(op.seen) /\ ReplaceLease(op.target, op.seen)
        /\ put' = op.seen
        /\ IF op.guarded THEN Goto("guardQuery") /\ UNCHANGED active
                         ELSE Unlock /\ StopGuard
     \/ /\ NotPersisted(op.seen) /\ Unlock
        /\ UNCHANGED <<put, leaseVars, recVars, active>>
  /\ UNCHANGED <<os, fireVars, guard, runVars, worldVars>>

(***************************************************************************)
(* Expiry and shutdown.                                                    *)
(***************************************************************************)
\* Mutant: a timer that has fired counts as armed.
RearmKeepsFired(ticks) ==
  /\ timer' = ticks
  /\ orphans' = orphans \cup {<<lease.gen, timer>>}

\* The lease's timer field is given to a new timer; the old one, if it is
\* armed, is not stopped.
Rearm(ticks) ==
  /\ timer' = ticks
  /\ orphans' = IF timer = 0 THEN orphans
                ELSE orphans \cup {<<lease.gen, timer>>}

\* Mutant: the deadline is not compared again.
OverdueAlways == TRUE

\* Mutant: the comparison is the wrong way round at the deadline.
OverdueNever == FALSE

\* The deadline has passed.
Overdue == left = 0

\* expireSysproxyLease: a lease that was renewed in the meantime gets a new
\* timer; otherwise it is released.
Expire(n) ==
  /\ Free /\ n \in waiting
  /\ waiting' = waiting \ {n}
  /\ \/ /\ ~lease.on \/ lease.gen # n
        /\ UNCHANGED <<timer, orphans, active, pc, op>>
     \/ /\ lease.on /\ lease.gen = n /\ ~Overdue
        /\ Rearm(left)
        /\ UNCHANGED <<active, pc, op>>
     \/ /\ lease.on /\ lease.gen = n /\ Overdue
        /\ StopGuard
        /\ pc' = "release" /\ op' = [NoOp EXCEPT !.kind = "expire"]
        /\ UNCHANGED <<timer, orphans>>
  /\ UNCHANGED <<os, put, disk, lease, left, generation, recon,
                 reconWait, recVars, guard, runVars, worldVars, faults>>

\* StopManagedProxy, called by route.Stop while requests are still served.
BeginShutdown ==
  /\ Free /\ "shutdown" \in Ops /\ ~stopping /\ stopping' = TRUE
  /\ StopRecovery /\ StopGuard
  /\ IF lease.on
     THEN pc' = "release" /\ op' = [NoOp EXCEPT !.kind = "shutdown"]
     ELSE UNCHANGED <<pc, op>>
  /\ UNCHANGED <<os, put, disk, leaseVars, fireVars, guard, requests,
                 crashes, worldVars, faults>>

\* Mutant: a release that failed is not tried again.
ReleaseFailsForGood ==
  /\ Unlock
  /\ \/ op.kind = "expire" /\ UNCHANGED <<leaseVars, orphans>>
     \/ op.kind = "shutdown" /\ ClearLease /\ UNCHANGED orphans

\* A release that failed: expiry tries again later, shutdown only forgets.
ReleaseFails ==
  /\ Unlock
  /\ \/ /\ op.kind = "expire" /\ Rearm(RetryTime)
        /\ UNCHANGED <<lease, left, generation, recon>>
     \/ /\ op.kind = "shutdown" /\ ClearLease
        /\ UNCHANGED orphans

\* releaseSysproxyLease: a setting that differs is left alone.
ReleaseQuery ==
  /\ pc = "release"
  /\ \/ Ok /\ os # lease.expected /\ Goto("remove") /\ ClearLease
           /\ UNCHANGED orphans
     \/ Ok /\ os = lease.expected /\ Goto("releaseDisable")
           /\ UNCHANGED <<leaseVars, orphans>>
     \/ Fails /\ ReleaseFails
  /\ UNCHANGED <<os, put, disk, waiting, reconWait, recVars, guardVars,
                 runVars, worldVars>>

ReleaseDisable ==
  /\ pc = "releaseDisable"
  /\ \/ Written(Disabled) /\ Goto("remove") /\ ClearLease /\ UNCHANGED orphans
     \/ Miswritten(Disabled) /\ ReleaseFails
  /\ put' = IF os' = Disabled THEN Nothing ELSE put
  /\ guard' = Notified(guard)
  /\ UNCHANGED <<disk, waiting, reconWait, recVars, active, runVars,
                 worldVars>>

(***************************************************************************)
(* Recovery of the record of an earlier process.                           *)
(***************************************************************************)
\* ConfigureManagedProxyRecovery runs before requests are served.
ServiceStart ==
  /\ pc = "down" /\ pc' = "recover"
  /\ op' = [NoOp EXCEPT !.kind = "startup"]
  /\ UNCHANGED <<os, put, disk, leaseVars, fireVars, recVars, guardVars,
                 runVars, worldVars, faults>>

\* Mutant: recovery is not scheduled again.
RecoverFailsForGood == Unlock /\ UNCHANGED recVars

\* scheduleManagedProxyRecovery.
RecoverFails ==
  /\ Unlock
  /\ recovery' = TRUE
  /\ recWait' = {"stale" : k \in recWait}

RecoverRead ==
  /\ pc = "recover"
  /\ \/ Ok /\ disk = Nothing /\ Unlock /\ UNCHANGED recVars
     \/ Ok /\ disk # Nothing /\ Goto("recQuery") /\ UNCHANGED recVars
     \/ Fails /\ RecoverFails
     \/ /\ op.kind = "startup" /\ "dir" \in Rare
        /\ Fails /\ Unlock /\ UNCHANGED recVars
  /\ UNCHANGED <<os, put, disk, leaseVars, fireVars, guardVars, runVars,
                 worldVars>>

RecoverQuery ==
  /\ pc = "recQuery"
  /\ \/ Ok /\ Goto(IF os = disk THEN "recDisable" ELSE "recRemove")
           /\ UNCHANGED recVars
     \/ Fails /\ RecoverFails
  /\ UNCHANGED <<os, put, disk, leaseVars, fireVars, guardVars, runVars,
                 worldVars>>

RecoverDisable ==
  /\ pc = "recDisable"
  /\ \/ Written(Disabled) /\ Goto("recRemove") /\ UNCHANGED recVars
     \/ Miswritten(Disabled) /\ RecoverFails
  /\ put' = IF os' = Disabled THEN Nothing ELSE put
  /\ guard' = Notified(guard)
  /\ UNCHANGED <<disk, leaseVars, fireVars, active, runVars, worldVars>>

RecoverRemove ==
  /\ pc = "recRemove"
  /\ \/ Ok /\ disk' = Nothing /\ Unlock /\ UNCHANGED recVars
     \/ Fails /\ UNCHANGED disk /\ RecoverFails
  /\ UNCHANGED <<os, put, leaseVars, fireVars, guardVars, runVars,
                 worldVars>>

RecoveryFires ==
  /\ pc # "down" /\ recovery
  /\ recovery' = FALSE /\ recWait' = recWait \cup {"current"}
  /\ UNCHANGED <<os, put, disk, leaseVars, fireVars, guardVars, pc, op,
                 runVars, worldVars, faults>>

\* The timer's callback; one of an earlier generation returns at once.
RecoveryRetry(k) ==
  /\ Free /\ k \in recWait
  /\ recWait' = recWait \ {k}
  /\ IF k = "current" /\ ~lease.on
     THEN pc' = "recover" /\ op' = [NoOp EXCEPT !.kind = "retry"]
     ELSE UNCHANGED <<pc, op>>
  /\ UNCHANGED <<os, put, disk, leaseVars, fireVars, recovery, guardVars,
                 runVars, worldVars, faults>>

(***************************************************************************)
(* Reconciliation with the active network (macOS).                         *)
(***************************************************************************)
ReconcileFires ==
  /\ pc # "down" /\ recon /\ recon' = FALSE
  /\ reconWait' = reconWait \cup {lease.gen}
  /\ UNCHANGED <<os, put, disk, lease, left, generation, timer, orphans,
                 waiting, recVars, guardVars, pc, op, runVars, worldVars,
                 faults>>

\* The callback: a lease of its generation whose deadline is ahead is
\* scheduled again, any other is not.
Reconcile(n) ==
  /\ Free /\ n \in reconWait
  /\ reconWait' = reconWait \ {n}
  /\ LET live == lease.on /\ lease.gen = n /\ left > 0
         same == lease.sig \in {NoNetwork, net} IN
     \/ ~live /\ Ok /\ UNCHANGED <<lease, recon, pc, op>>
     \/ live /\ Fails /\ recon' = TRUE /\ UNCHANGED <<lease, pc, op>>
     \/ /\ live /\ same /\ Ok /\ recon' = TRUE
        /\ lease' = [lease EXCEPT !.sig = net]
        /\ UNCHANGED <<pc, op>>
     \/ /\ live /\ ~same /\ Ok
        /\ pc' = "netApply"
        /\ op' = [NoOp EXCEPT !.kind = "reconcile", !.sig = net]
        /\ UNCHANGED <<lease, recon>>
  /\ UNCHANGED <<os, put, disk, left, generation, timer, orphans,
                 waiting, recVars, guardVars, runVars, worldVars>>

ReconcileApply ==
  /\ pc = "netApply"
  /\ \/ Written(lease.target) /\ Goto("netVerify") /\ UNCHANGED recon
     \/ Miswritten(lease.target) /\ Unlock /\ recon' = TRUE
  /\ put' = IF os' = lease.target THEN lease.target ELSE put
  /\ guard' = Notified(guard)
  /\ UNCHANGED <<disk, lease, left, generation, timer, fireVars,
                 recVars, active, runVars, worldVars>>

ReconcileVerify ==
  /\ pc = "netVerify"
  /\ \/ /\ Ok
        /\ lease' = IF os = lease.expected
                    THEN [lease EXCEPT !.sig = op.sig] ELSE lease
     \/ Fails /\ UNCHANGED lease
  /\ Unlock /\ recon' = TRUE
  /\ UNCHANGED <<os, put, disk, left, generation, timer, fireVars,
                 recVars, guardVars, runVars, worldVars>>

(***************************************************************************)
(* The guard goroutine.                                                    *)
(***************************************************************************)
GuardGoto(g, p) == guard' = [guard EXCEPT ![g].pc = p]

\* The watch has begun; read the setting without the mutex.
GuardCheck(g) ==
  /\ guard[g].pc = "query"
  /\ \/ Ok /\ GuardGoto(g, IF os = guard[g].expected THEN "wait" ELSE "lock")
     \/ Fails /\ GuardGoto(g, "wait")
  /\ UNCHANGED <<os, put, disk, leaseVars, fireVars, recVars, active, pc,
                 op, runVars, worldVars>>

\* Mutant: the generation is not looked at.
CurrentAlways(g) == g \in Guard

\* sysproxyGuardState.active.
Current(g) == active = g

\* Under the mutex, only the guard of the current generation restores.
GuardLock(g) ==
  /\ guard[g].pc = "lock" /\ Free
  /\ IF Current(g)
     THEN /\ pc' = "guardApply"
          /\ op' = [NoOp EXCEPT !.kind = "guard", !.guard = g]
          /\ GuardGoto(g, "mutating")
     ELSE GuardGoto(g, "wait") /\ UNCHANGED <<pc, op>>
  /\ UNCHANGED <<os, put, disk, leaseVars, fireVars, recVars, active,
                 runVars, worldVars, faults>>

GuardApply ==
  LET g == op.guard IN
  /\ pc = "guardApply"
  /\ \/ Written(guard[g].want) /\ Goto("guardVerify")
        /\ guard' = Notified(guard)
     \/ Miswritten(guard[g].want) /\ Unlock
        /\ guard' = Notified([guard EXCEPT ![g].pc = "wait"])
  /\ put' = IF os' = guard[g].want THEN guard[g].want ELSE put
  /\ UNCHANGED <<disk, leaseVars, fireVars, recVars, active, runVars,
                 worldVars>>

\* Whether the verification fails or not, the guard waits for a change.
GuardVerify ==
  /\ pc = "guardVerify"
  /\ GuardGoto(op.guard, "wait") /\ Unlock
  /\ Ok \/ Fails
  /\ UNCHANGED <<os, put, disk, leaseVars, fireVars, recVars, active,
                 runVars, worldVars>>

\* The watch reports a change or an error, and a new one begins.
GuardWakes(g) ==
  /\ guard[g].pc = "wait" /\ active = g
  /\ (guard[g].changed /\ Ok) \/ Fails
  /\ guard' = [guard EXCEPT ![g].pc = "query", ![g].changed = FALSE]
  /\ UNCHANGED <<os, put, disk, leaseVars, fireVars, recVars, active, pc,
                 op, runVars, worldVars>>

\* The context of a stopped guard is cancelled.
GuardEnds(g) ==
  /\ guard[g].pc \in {"query", "wait"} /\ active # g
  /\ guard' = [guard EXCEPT ![g] = GuardOff]
  /\ UNCHANGED <<os, put, disk, leaseVars, fireVars, recVars, active, pc,
                 op, runVars, worldVars, faults>>

(***************************************************************************)
(* The clock, the process and the world outside.                           *)
(***************************************************************************)
Down(n) == IF n = 0 THEN 0 ELSE n - 1

Tick ==
  /\ pc # "down" /\ (left > 0 \/ timer > 0 \/ orphans # {})
  /\ left' = Down(left) /\ timer' = Down(timer)
  /\ orphans' = {<<o[1], o[2] - 1>> : o \in {p \in orphans : p[2] > 1}}
  /\ waiting' = waiting \cup {o[1] : o \in {p \in orphans : p[2] = 1}}
                        \cup (IF timer = 1 THEN {lease.gen} ELSE {})
  /\ UNCHANGED <<os, put, disk, lease, generation, recon, reconWait,
                 recVars, guardVars, pc, op, runVars, worldVars, faults>>

ProcessEnds ==
  /\ pc' = "down" /\ op' = NoOp /\ stopping' = FALSE
  /\ lease' = NoLease /\ left' = 0 /\ timer' = 0 /\ recon' = FALSE
  /\ orphans' = {} /\ waiting' = {} /\ reconWait' = {}
  /\ recovery' = FALSE /\ recWait' = {}
  /\ active' = NoGuard /\ guard' = [g \in Guard |-> GuardOff]
  /\ UNCHANGED <<os, put, disk, generation, requests, worldVars, faults>>

Exit == Free /\ stopping /\ ProcessEnds /\ UNCHANGED crashes

Crash ==
  /\ pc # "down" /\ crashes < MaxCrashes /\ crashes' = crashes + 1
  /\ ProcessEnds

\* The user, or the native client between prepare and adopt.
UserEdit ==
  /\ edits < MaxEdits /\ edits' = edits + 1
  /\ os' \in Setting \ {os}
  /\ guard' = Notified(guard)
  /\ UNCHANGED <<put, disk, leaseVars, fireVars, recVars, active, pc, op,
                 runVars, net, switches, faults>>

\* Another network service becomes active, with settings of its own.
NetworkSwitch ==
  /\ Darwin /\ switches < MaxSwitches /\ switches' = switches + 1
  /\ net' = 1 - net
  /\ os' \in {os, Disabled}
  /\ guard' = Notified(guard)
  /\ UNCHANGED <<put, disk, leaseVars, fireVars, recVars, active, pc, op,
                 runVars, edits, faults>>

HolderStep ==
  \/ SetApply \/ SetCapture \/ SetPersist \/ SetUndo \/ Remove \/ StartGuard
  \/ Disable \/ AdoptQuery \/ AdoptPersist \/ ReleaseQuery \/ ReleaseDisable
  \/ RecoverRead \/ RecoverQuery \/ RecoverDisable \/ RecoverRemove
  \/ ReconcileApply \/ ReconcileVerify \/ GuardApply \/ GuardVerify

GuardStep(g) == GuardCheck(g) \/ GuardLock(g) \/ GuardWakes(g) \/ GuardEnds(g)

Next ==
  \/ \E t \in Target, b \in BOOLEAN, k \in {"set", "adopt"} : BeginLease(k, t, b)
  \/ BeginDisable \/ Renew \/ Prepare \/ BeginShutdown
  \/ HolderStep
  \/ \E n \in Gen : Expire(n) \/ Reconcile(n)
  \/ \E g \in Guard : GuardStep(g)
  \/ RecoveryFires \/ (\E k \in {"current", "stale"} : RecoveryRetry(k))
  \/ ReconcileFires
  \/ Tick \/ ServiceStart \/ Exit \/ Crash \/ UserEdit \/ NetworkSwitch

Spec == Init /\ [][Next]_vars

\* The holder of the mutex goes on, sync.Mutex starves no waiter, timers
\* fire, and the service manager starts a process that ended.
Fairness ==
  /\ WF_vars(HolderStep) /\ WF_vars(Tick)
  /\ \A n \in Gen : SF_vars(Expire(n))
  /\ WF_vars(RecoveryFires)
  /\ \A k \in {"current", "stale"} : SF_vars(RecoveryRetry(k))
  /\ WF_vars(ServiceStart) /\ WF_vars(Exit)

FairSpec == Spec /\ Fairness

(***************************************************************************)
(* Properties.                                                             *)
(***************************************************************************)
HolderPc == {"setApply", "setCapture", "setPersist", "setUndo", "remove",
             "guardQuery", "disable", "adoptQuery", "adoptPersist", "release",
             "releaseDisable", "recover", "recQuery", "recDisable",
             "recRemove", "netApply", "netVerify", "guardApply", "guardVerify"}

\* Every variable has its type; an armed timer has time to run, and an armed
\* orphan is one of a lease.
TypeOK ==
  /\ os \in Setting /\ put \in Setting \cup {Nothing}
  /\ disk \in Setting \cup {Nothing}
  /\ lease.on \in BOOLEAN /\ lease.gen \in 0..MaxGen
  /\ lease.expected \in Setting \cup {Nothing}
  /\ left \in 0..LeaseTime /\ generation \in 0..MaxGen
  /\ timer \in 0..LeaseTime /\ orphans \subseteq Gen \X (1..LeaseTime)
  /\ waiting \subseteq Gen /\ reconWait \subseteq Gen
  /\ recon \in BOOLEAN /\ recovery \in BOOLEAN
  /\ recWait \subseteq {"current", "stale"}
  /\ active \in Guard \cup {NoGuard}
  /\ \A g \in Guard :
       guard[g].pc \in {"off", "query", "lock", "mutating", "wait"}
  /\ pc \in {"free", "down"} \cup HolderPc

\* While nobody holds the mutex, a lease has a timer that will end it, or its
\* callback is waiting: renewals, stale callbacks that arm the timer again and
\* failed releases never leave a lease that nothing ends.
LeaseHasTimer ==
  Free /\ lease.on => timer > 0 \/ lease.gen \in waiting

\* Whoever changes or ends the lease also deals with the guard: while nobody
\* holds the mutex, a guard of the current generation has a lease.
GuardOnlyWithLease == Free /\ active # NoGuard => lease.on

\* While nobody holds the mutex, the record names what the lease expects, so
\* that a crash at such a moment can be undone by the next process.
RecordMatchesLease == Free /\ lease.on => disk = lease.expected

\* Expiry never touches a lease whose deadline a renewal has moved.
NotReleasedEarly ==
  op.kind = "expire" /\ pc \in {"release", "releaseDisable"} => left = 0

\* The service writes a proxy setting only for a request or for a lease that
\* it holds: a guard or a reconciliation that was stopped, even while it
\* waited for the mutex, never brings a setting back.
OnlyLeasedSettingsWritten ==
  [][os' # os /\ os' # Disabled /\ edits' = edits
       => lease.on \/ pc = "setApply"]_vars

\* A lease that is no longer renewed ends, whatever fails on the way.
LeaseEnds == lease.on ~> ~lease.on

\* A recorded setting that an ended process of the service left behind is
\* undone, unless the user or a new lease takes its place.
RecordedProxyRecovered ==
  (pc = "down" /\ disk = os /\ put = os) ~> (put # os \/ lease.on)

\* A lease is whole whenever the mutex is free: it has a timer that will end it,
\* a record that a later process can undo, and no guard outlives it; an expiry
\* that comes too late leaves it alone.
LeaseIntact ==
  /\ TypeOK
  /\ LeaseHasTimer
  /\ GuardOnlyWithLease
  /\ RecordMatchesLease
  /\ NotReleasedEarly
=============================================================================
