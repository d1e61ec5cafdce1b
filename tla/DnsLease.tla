------------------------------ MODULE DnsLease ------------------------------
(***************************************************************************)
(* The DNS lease of route/dnsapi: while a lease is held, the active        *)
(* network service uses the leased DNS servers; when it is released,       *)
(* expires or the service crashes, every service gets back the servers it  *)
(* had.                                                                    *)
(*                                                                         *)
(* All operations run under manager.mu, but each call to the operating     *)
(* system and each write of lease.json is a step of its own: the user may  *)
(* change DNS settings, the network may switch and the service may crash   *)
(* between any two of them, and each may fail.                             *)
(*                                                                         *)
(* All entries of a lease share their Desired servers (set makes one entry,*)
(* reconcile copies Entries[0].Desired), so it is kept once, in want.  A   *)
(* lease always has an entry, so entries = {} stands for a nil lease, and  *)
(* diskEntries = {} for an absent lease.json.  Time is counted down: left  *)
(* is what remains until Deadline.                                         *)
(***************************************************************************)
EXTENDS Naturals, FiniteSets

CONSTANTS
  Service,       \* network services
  Value,         \* DNS server lists a service can have
  Server,        \* the lists clients lease
  NoValue,       \* not a DNS server list
  Off,           \* a timer that is not armed
  LeaseTime,     \* leaseDuration, in clock ticks
  RetryTime,     \* retryInterval, in clock ticks
  MaxEntries,    \* services awaiting restoration (8 in the code)
  ReadMayFail,   \* whether reading lease.json may fail at startup
  MaxFired,      \* bound: expire callbacks waiting for the mutex
  MaxRequests,   \* bound: client requests and calls of Stop
  MaxFaults,     \* bound: failing calls and writes
  MaxEdits,      \* bound: changes made by others, and network switches
  MaxCrashes     \* bound: crashes of the service

ASSUME LeaseAssumption ==
  /\ Server \subseteq Value /\ NoValue \notin Value
  /\ Service # {}
  /\ LeaseTime \in Nat \ {0} /\ RetryTime \in 0..LeaseTime /\ Off \notin Nat
  /\ MaxEntries \in Nat \ {0} /\ MaxFired \in Nat
  /\ ReadMayFail \in BOOLEAN
  /\ MaxRequests \in Nat /\ MaxFaults \in Nat /\ MaxEdits \in Nat
  /\ MaxCrashes \in Nat

Entry == [svc: Service, orig: Value, applied: BOOLEAN]

VARIABLES
  active, dns,              \* the operating system's network settings
  want, entries,            \* manager.lease: Desired and Entries
  diskWant, diskEntries,    \* lease.json
  left,                     \* time until lease.Deadline
  timer, orphans, fired,    \* manager.timer, timers no longer referenced by
                            \* it, and expire callbacks waiting for the mutex
  watch, ticked,            \* the watch ticker, and a tick waiting
  stopping,                 \* Stop has run and the process is about to exit
  pc,                       \* where the holder of manager.mu is; "free", or
                            \* "down" when the service is not running
  cont, svc, todo, kept, busy, changed,   \* its local variables
  requests, faults, edits, crashes,       \* budgets used
  owned, prior              \* history, see below

(***************************************************************************)
(* History: owned[s] - the service's DNS is what the lease put there, and  *)
(* nobody has changed it since; prior[s] - the servers the lease read when *)
(* it took s over.                                                         *)
(***************************************************************************)
osVars     == <<active, dns, owned, prior>>
leaseVars  == <<want, entries, left>>
diskVars   == <<diskWant, diskEntries>>
timerVars  == <<timer, orphans, fired, watch, ticked, stopping>>
localVars  == <<cont, svc, todo, kept, busy, changed>>
budgetVars == <<requests, faults, edits, crashes>>
vars == <<osVars, leaseVars, diskVars, timerVars, pc, localVars, budgetVars>>

Pc == {"down", "free", "setRead", "setPersist", "setApply", "setSave",
       "renewSave", "recActive", "recPersist", "recCheck", "recApply",
       "recSave", "restore", "restoreSet", "releaseSave", "releaseRemove"}
Cont == {"none", "set", "drop", "expire", "recover", "reconcile"}

Countdown == 0..LeaseTime

OsTypeOK ==
  /\ active \in Service /\ dns \in [Service -> Value]
  /\ owned \in [Service -> BOOLEAN] /\ prior \in [Service -> Value]

LeaseTypeOK ==
  /\ want \in Value \cup {NoValue} /\ entries \subseteq Entry
  /\ diskWant \in Value \cup {NoValue} /\ diskEntries \subseteq Entry
  /\ left \in Countdown

TimerTypeOK ==
  /\ timer \in Countdown \cup {Off} /\ orphans \subseteq Countdown
  /\ fired \in 0..MaxFired

LocalTypeOK ==
  /\ pc \in Pc /\ cont \in Cont /\ svc \in Service
  /\ todo \subseteq Entry /\ kept \subseteq Entry /\ busy \subseteq Entry

FlagTypeOK ==
  /\ watch \in BOOLEAN /\ ticked \in BOOLEAN /\ stopping \in BOOLEAN
  /\ changed \in BOOLEAN

BudgetTypeOK ==
  /\ requests \in 0..MaxRequests /\ faults \in 0..MaxFaults
  /\ edits \in 0..MaxEdits /\ crashes \in 0..MaxCrashes

\* Every variable has its type; in particular the restore loop works on
\* entries, and every entry holds servers that were read, never none.
TypeOK ==
  /\ OsTypeOK /\ LeaseTypeOK /\ TimerTypeOK /\ LocalTypeOK
  /\ FlagTypeOK /\ BudgetTypeOK

Init ==
  /\ active \in Service /\ dns \in [Service -> Value]
  /\ want = NoValue /\ entries = {} /\ diskWant = NoValue /\ diskEntries = {}
  /\ left = 0 /\ timer = Off /\ orphans = {} /\ fired = 0
  /\ watch = FALSE /\ ticked = FALSE /\ stopping = FALSE
  /\ pc = "free" /\ cont = "none" /\ svc = active
  /\ todo = {} /\ kept = {} /\ busy = {} /\ changed = FALSE
  /\ requests = 0 /\ faults = 0 /\ edits = 0 /\ crashes = 0
  /\ owned = [s \in Service |-> FALSE] /\ prior = dns

(***************************************************************************)
(* Building blocks.                                                        *)
(***************************************************************************)
OK    == UNCHANGED faults
Fault == faults < MaxFaults /\ faults' = faults + 1

\* persist: an atomic rename.  A failure may come before it or after it
\* (when the directory cannot be synced).
Save(ok) ==
  LET saved == diskWant' = want /\ diskEntries' = entries
  IN IF ok THEN OK /\ saved ELSE Fault /\ (saved \/ UNCHANGED diskVars)

\* SetDns by the lease: success, or a failure before or after the settings
\* changed (the DNS cache is flushed last).
Apply(s, e, ok) ==
  LET changes == /\ dns' = [dns EXCEPT ![s] = want]
                 /\ owned' = [owned EXCEPT ![s] = e.orig # want]
                 /\ prior' = IF owned[s] THEN prior
                             ELSE [prior EXCEPT ![s] = e.orig]
  IN IF ok THEN OK /\ changes
     ELSE Fault /\ (changes \/ UNCHANGED <<dns, owned, prior>>)

\* Mutant: every service gets the first entry's servers.
PutBackFirst(s, e, ok) ==
  LET changes == /\ dns' = [dns EXCEPT ![s] = (CHOOSE f \in entries : TRUE).orig]
                 /\ owned' = [owned EXCEPT ![s] = FALSE]
  IN IF ok THEN OK /\ changes ELSE Fault /\ (changes \/ UNCHANGED <<dns, owned>>)

\* SetDns by restore.
PutBack(s, e, ok) ==
  LET changes == /\ dns' = [dns EXCEPT ![s] = e.orig]
                 /\ owned' = [owned EXCEPT ![s] = FALSE]
  IN IF ok THEN OK /\ changes ELSE Fault /\ (changes \/ UNCHANGED <<dns, owned>>)

\* schedule: the previous timer is stopped, the watcher started if needed.
Schedule ==
  /\ timer' = left
  /\ watch' = TRUE
  /\ UNCHANGED <<orphans, fired, ticked, stopping>>

\* The timer assignments in expire and recover do not stop the old timer.
Rearm(after) ==
  /\ orphans' = orphans \cup ({timer} \ {Off})
  /\ timer' = after

\* Unlock, forgetting the operation's locals.
Finish ==
  /\ pc' = "free" /\ cont' = "none"
  /\ todo' = {} /\ kept' = {} /\ busy' = {} /\ changed' = FALSE
  /\ UNCHANGED svc

\* Enter the loop that restores a set of entries.
StartRestore(items, why) ==
  /\ pc' = "restore" /\ cont' = why
  /\ todo' = items /\ kept' = {} /\ busy' = {}

EntryOf(s) == CHOOSE e \in entries : e.svc = s

\* Mutant: the servers are not read.
NewEntryUnread == [svc |-> active, orig |-> NoValue, applied |-> FALSE]

\* The entry of a service that the lease is about to take over.
NewEntry == [svc |-> active, orig |-> dns[active], applied |-> FALSE]

MarkApplied(e) == [e EXCEPT !.applied = TRUE]

(***************************************************************************)
(* POST /network/dns/lease and /network/dns/renew                          *)
(***************************************************************************)
RequestBudget == requests < MaxRequests /\ requests' = requests + 1

\* set: renew the lease if it already wants these servers, release it first
\* if it wants others.
Set(v) ==
  /\ pc = "free" /\ RequestBudget
  /\ \/ /\ entries # {} /\ want = v
        /\ left' = LeaseTime
        /\ pc' = "renewSave"
        /\ UNCHANGED <<want, localVars>>
     \/ /\ entries # {} /\ want # v
        /\ StartRestore(entries, "set")
        /\ changed' = FALSE
        /\ UNCHANGED <<want, left, svc>>
     \/ /\ entries = {}
        /\ want' = v /\ pc' = "setRead"
        /\ UNCHANGED <<left, localVars>>
  /\ UNCHANGED <<osVars, entries, diskVars, timerVars, faults, edits, crashes>>

\* The release inside set succeeded: go on with the servers asked for, which
\* have played no part until now and so are chosen only here.
ContinueSet == \E v \in Server : want' = v /\ v # want /\ pc' = "setRead"

\* ActiveDNSService and GetDns: the lease begins in memory.  (A network
\* switch between the two calls is a switch after them.)
SetRead ==
  /\ pc = "setRead"
  /\ \/ Fault /\ Finish /\ UNCHANGED leaseVars
     \/ /\ OK /\ pc' = "setPersist" /\ svc' = active
        /\ entries' = {NewEntry}
        /\ left' = LeaseTime
        /\ UNCHANGED <<want, cont, todo, kept, busy, changed>>
  /\ UNCHANGED <<osVars, diskVars, timerVars, requests, edits, crashes>>

\* Mutant: the lease is not persisted before SetDns.
SetPersistSkipped ==
  /\ pc = "setPersist"
  /\ \/ OK /\ UNCHANGED diskVars /\ pc' = "setApply" /\ UNCHANGED <<entries, localVars>>
     \/ Save(FALSE) /\ entries' = {} /\ Finish
  /\ UNCHANGED <<osVars, want, left, timerVars, requests, edits,
                 crashes>>

\* persist before mutation; without a record there is no lease.
SetPersist ==
  /\ pc = "setPersist"
  /\ \/ Save(TRUE) /\ pc' = "setApply" /\ UNCHANGED <<entries, localVars>>
     \/ Save(FALSE) /\ entries' = {} /\ Finish
  /\ UNCHANGED <<osVars, want, left, timerVars, requests, edits,
                 crashes>>

\* SetDns; if it fails the lease is released again, otherwise it is marked
\* applied and its timer is armed.
SetApply ==
  /\ pc = "setApply"
  /\ \/ /\ Apply(svc, EntryOf(svc), TRUE)
        /\ entries' = {MarkApplied(e) : e \in entries}
        /\ Schedule
        /\ pc' = "setSave" /\ UNCHANGED localVars
     \/ /\ Apply(svc, EntryOf(svc), FALSE)
        /\ StartRestore(entries, "drop")
        /\ UNCHANGED <<entries, timerVars, svc, changed>>
  /\ UNCHANGED <<active, want, left, diskVars, requests, edits, crashes>>

\* The final persist of set, and of a reconcile that changed something:
\* whether it succeeds only decides what is returned or logged.
FinalSave ==
  /\ pc \in {"setSave", "recSave"}
  /\ \E ok \in BOOLEAN : Save(ok)
  /\ Finish
  /\ UNCHANGED <<osVars, leaseVars, timerVars, requests, edits, crashes>>

\* renew: the deadline moves, then the lease is persisted, then the timer is
\* armed again.
Renew ==
  /\ pc = "free" /\ RequestBudget /\ entries # {}
  /\ left' = LeaseTime
  /\ pc' = "renewSave"
  /\ UNCHANGED <<osVars, want, entries, diskVars, timerVars, localVars, faults,
                 edits, crashes>>

RenewSave ==
  /\ pc = "renewSave"
  /\ \/ Save(TRUE) /\ Schedule
     \/ Save(FALSE) /\ UNCHANGED timerVars
  /\ Finish
  /\ UNCHANGED <<osVars, leaseVars, requests, edits, crashes>>

(***************************************************************************)
(* DELETE /network/dns/lease, Stop, expire and recovery all release.       *)
(***************************************************************************)
Delete ==
  /\ pc = "free" /\ RequestBudget /\ entries # {}
  /\ StartRestore(entries, "drop")
  /\ UNCHANGED <<osVars, leaseVars, diskVars, timerVars, svc, changed, faults,
                 edits, crashes>>

\* stopTimers: a callback or a tick already under way is not recalled.
StopTimers ==
  /\ timer' = Off /\ watch' = FALSE
  /\ UNCHANGED <<orphans, fired, ticked>>

\* Stop, when the service is shut down; the server still answers requests
\* until its listeners are closed, and the process exits in the end.
Stop ==
  /\ pc = "free" /\ ~stopping /\ RequestBudget
  /\ StopTimers /\ stopping' = TRUE
  /\ IF entries = {} THEN UNCHANGED <<pc, localVars>>
     ELSE StartRestore(entries, "drop") /\ UNCHANGED <<svc, changed>>
  /\ UNCHANGED <<osVars, leaseVars, diskVars, faults, edits, crashes>>

\* A timer that is due runs expire in its own goroutine.
TimerFires ==
  /\ fired < MaxFired /\ fired' = fired + 1
  /\ \/ timer = 0 /\ timer' = Off /\ UNCHANGED orphans
     \/ 0 \in orphans /\ orphans' = orphans \ {0} /\ UNCHANGED timer
  /\ pc # "down"
  /\ UNCHANGED <<osVars, leaseVars, diskVars, watch, ticked, stopping, pc, localVars,
                 budgetVars>>

\* Mutant: the deadline is not compared again.
ExpireUnchecked ==
  /\ pc = "free" /\ fired > 0 /\ fired' = fired - 1
  /\ \/ entries = {} /\ UNCHANGED <<timer, orphans, pc, localVars>>
     \/ /\ entries # {} /\ left > 0
        /\ Rearm(left)
        /\ UNCHANGED <<pc, localVars>>
     \/ /\ entries # {}
        /\ StartRestore(entries, "expire")
        /\ UNCHANGED <<timer, orphans, svc, changed>>
  /\ UNCHANGED <<osVars, want, entries, left, diskVars, watch, ticked, stopping,
                 budgetVars>>

\* Mutant: a renewed lease does not get a new timer.
ExpireNoRearm ==
  /\ pc = "free" /\ fired > 0 /\ fired' = fired - 1
  /\ \/ entries = {} /\ UNCHANGED <<timer, orphans, pc, localVars>>
     \/ /\ entries # {} /\ left > 0
        /\ UNCHANGED <<timer, orphans, pc, localVars>>
     \/ /\ entries # {} /\ left = 0
        /\ StartRestore(entries, "expire")
        /\ UNCHANGED <<timer, orphans, svc, changed>>
  /\ UNCHANGED <<osVars, want, entries, left, diskVars, watch, ticked, stopping,
                 budgetVars>>

\* expire: nothing without a lease; a lease that was renewed in the meantime
\* gets a new timer; otherwise it is released.
Expire ==
  /\ pc = "free" /\ fired > 0 /\ fired' = fired - 1
  /\ \/ entries = {} /\ UNCHANGED <<timer, orphans, pc, localVars>>
     \/ /\ entries # {} /\ left > 0
        /\ Rearm(left)
        /\ UNCHANGED <<pc, localVars>>
     \/ /\ entries # {} /\ left = 0
        /\ StartRestore(entries, "expire")
        /\ UNCHANGED <<timer, orphans, svc, changed>>
  /\ UNCHANGED <<osVars, want, entries, left, diskVars, watch, ticked, stopping,
                 budgetVars>>

\* restore, its GetDns: an entry whose service no longer has the leased
\* servers, or had them all along, needs nothing.
RestoreRead ==
  /\ pc = "restore"
  /\ \E e \in todo :
       /\ todo' = todo \ {e}
       /\ \/ Fault /\ kept' = kept \cup {e} /\ UNCHANGED <<pc, busy, changed>>
          \/ /\ OK /\ (dns[e.svc] # want \/ dns[e.svc] = e.orig)
             /\ changed' = TRUE
             /\ UNCHANGED <<pc, busy, kept>>
          \/ /\ OK /\ dns[e.svc] = want /\ dns[e.svc] # e.orig
             /\ pc' = "restoreSet" /\ busy' = {e}
             /\ UNCHANGED <<kept, changed>>
  /\ UNCHANGED <<osVars, leaseVars, diskVars, timerVars, cont, svc, requests,
                 edits, crashes>>

\* restore, its SetDns.
RestoreSet ==
  /\ pc = "restoreSet" /\ pc' = "restore"
  /\ \E e \in busy :
       \/ PutBack(e.svc, e, TRUE) /\ changed' = TRUE /\ UNCHANGED kept
       \/ PutBack(e.svc, e, FALSE) /\ kept' = kept \cup {e} /\ UNCHANGED changed
  /\ busy' = {}
  /\ UNCHANGED <<active, prior, leaseVars, diskVars, timerVars, cont, svc, todo,
                 requests, edits, crashes>>

\* The end of release's loop: what could not be restored stays a lease;
\* otherwise the lease is gone and its timers with it.
ReleaseLoopDone ==
  /\ pc = "restore" /\ todo = {} /\ cont # "reconcile"
  /\ entries' = kept
  /\ IF kept # {}
     THEN pc' = "releaseSave" /\ UNCHANGED timerVars
     ELSE /\ pc' = "releaseRemove"
          /\ StopTimers /\ UNCHANGED stopping
  /\ UNCHANGED <<osVars, want, left, diskVars, localVars, budgetVars>>

\* Mutant: recover does not try again.
ReleaseSaveNoRetry ==
  /\ pc = "releaseSave"
  /\ \E ok \in BOOLEAN : Save(ok)
  /\ Finish
  /\ IF cont = "expire" THEN Rearm(RetryTime)
     ELSE UNCHANGED <<timer, orphans>>
  /\ UNCHANGED <<osVars, leaseVars, fired, watch, ticked, stopping, requests,
                 edits, crashes>>

\* Release failed: the remaining entries are persisted (an error of that is
\* dropped), and expire and recover try again later.
ReleaseSave ==
  /\ pc = "releaseSave"
  /\ \E ok \in BOOLEAN : Save(ok)
  /\ Finish
  /\ IF cont \in {"expire", "recover"} THEN Rearm(RetryTime)
     ELSE UNCHANGED <<timer, orphans>>
  /\ UNCHANGED <<osVars, leaseVars, fired, watch, ticked, stopping, requests,
                 edits, crashes>>

\* Release succeeded: removeRecord.  Its error makes release fail, so that
\* expire and recover arm a retry that will find no lease.
ReleaseRemove ==
  /\ pc = "releaseRemove"
  /\ \/ /\ OK /\ diskWant' = NoValue /\ diskEntries' = {}
        /\ IF cont = "set"
           THEN /\ ContinueSet /\ cont' = "none" /\ changed' = FALSE
                /\ UNCHANGED <<svc, todo, kept, busy>>
           ELSE Finish /\ UNCHANGED want
        /\ UNCHANGED <<timer, orphans>>
     \/ /\ Fault
        /\ \/ UNCHANGED diskVars
           \/ diskWant' = NoValue /\ diskEntries' = {}
        /\ Finish
        /\ IF cont \in {"expire", "recover"} THEN Rearm(RetryTime)
           ELSE UNCHANGED <<timer, orphans>>
        /\ UNCHANGED want
  /\ UNCHANGED <<osVars, entries, left, fired, watch, ticked, stopping,
                 requests, edits, crashes>>

(***************************************************************************)
(* watchNetwork and reconcile: follow the active network service.          *)
(***************************************************************************)
WatchTick ==
  /\ watch /\ ~ticked /\ ticked' = TRUE
  /\ UNCHANGED <<osVars, leaseVars, diskVars, timer, orphans, fired, watch,
                 stopping, pc, localVars, budgetVars>>

\* The tick has the mutex.  ActiveDNSService may fail; a service without an
\* entry gets one, with the servers it has now, unless there are too many.
ReconcileActive ==
  /\ pc = "free" /\ ticked /\ ticked' = FALSE
  /\ \/ /\ (entries = {} /\ OK) \/ (entries # {} /\ Fault)
        /\ UNCHANGED <<entries, pc, localVars>>
     \/ /\ entries # {} /\ OK /\ svc' = active /\ changed' = FALSE
        /\ IF \E e \in entries : e.svc = active
           THEN pc' = "recCheck" /\ UNCHANGED entries
           ELSE IF Cardinality(entries) >= MaxEntries
           THEN pc' = pc /\ UNCHANGED entries
           ELSE /\ pc' = "recPersist"
                /\ entries' = entries \cup {NewEntry}
        /\ UNCHANGED <<cont, todo, kept, busy>>
  /\ UNCHANGED <<osVars, want, left, diskVars, timer, orphans, fired,
                 watch, stopping, requests, edits, crashes>>

\* The new entry is persisted before its service is touched.
ReconcilePersist ==
  /\ pc = "recPersist"
  /\ \/ /\ Save(TRUE) /\ pc' = "recCheck" /\ changed' = TRUE
        /\ UNCHANGED <<entries, cont, svc, todo, kept, busy>>
     \/ Save(FALSE) /\ entries' = entries \ {EntryOf(svc)} /\ Finish
  /\ UNCHANGED <<osVars, want, left, timerVars, requests, edits,
                 crashes>>

Others == {e \in entries : e.svc # svc}

\* Apply the lease to the active service only if that was not done yet and
\* it still has its original servers; then restore the other services.
ReconcileCheck ==
  LET e == EntryOf(svc)
      apply == ~e.applied /\ dns[svc] = e.orig /\ dns[svc] # want
  IN
  /\ pc = "recCheck"
  /\ \/ Fault /\ Finish
     \/ OK /\ apply /\ pc' = "recApply" /\ UNCHANGED localVars
     \/ OK /\ ~apply /\ StartRestore(Others, "reconcile")
           /\ UNCHANGED <<svc, changed>>
  /\ UNCHANGED <<osVars, leaseVars, diskVars, timerVars, requests, edits,
                 crashes>>

ReconcileApply ==
  LET e == EntryOf(svc) IN
  /\ pc = "recApply"
  /\ \/ /\ Apply(svc, e, TRUE)
        /\ entries' = (entries \ {e}) \cup {MarkApplied(e)}
        /\ StartRestore(Others, "reconcile")
        /\ changed' = TRUE /\ UNCHANGED svc
     \/ Apply(svc, e, FALSE) /\ Finish /\ UNCHANGED entries
  /\ UNCHANGED <<active, want, left, diskVars, timerVars, requests,
                 edits, crashes>>

\* The end of reconcile's loop: restored services leave the lease.
ReconcileLoopDone ==
  /\ pc = "restore" /\ todo = {} /\ cont = "reconcile"
  /\ entries' = {e \in entries : e.svc = svc} \cup kept
  /\ IF changed THEN pc' = "recSave" /\ UNCHANGED localVars ELSE Finish
  /\ UNCHANGED <<osVars, want, left, diskVars, timerVars, budgetVars>>

(***************************************************************************)
(* Crash and recovery.                                                     *)
(***************************************************************************)
\* The process is gone, and everything it had in memory.
Exit ==
  /\ pc' = "down" /\ cont' = "none"
  /\ todo' = {} /\ kept' = {} /\ busy' = {} /\ changed' = FALSE
  /\ want' = NoValue /\ entries' = {}
  /\ timer' = Off /\ orphans' = {} /\ fired' = 0
  /\ watch' = FALSE /\ ticked' = FALSE /\ stopping' = FALSE
  /\ UNCHANGED <<osVars, left, diskVars, svc, requests, faults, edits>>

Crash ==
  /\ pc # "down" /\ crashes < MaxCrashes /\ crashes' = crashes + 1
  /\ Exit

\* The end of a shutdown.
Shutdown == stopping /\ pc # "down" /\ Exit /\ UNCHANGED crashes

\* Configure and recover in a new service process: the recorded lease, if
\* any, is released.  Its deadline is at most the one last given.  A record
\* that cannot be read is only reported; the service starts without it.
Recover ==
  /\ pc = "down"
  /\ \/ /\ diskEntries # {} /\ OK
        /\ want' = diskWant /\ entries' = diskEntries
        /\ left' \in 0..left
        /\ StartRestore(diskEntries, "recover")
        /\ UNCHANGED <<svc, changed>>
     \/ /\ diskEntries = {} \/ ReadMayFail
        /\ IF diskEntries = {} THEN OK ELSE Fault
        /\ pc' = "free"
        /\ UNCHANGED <<want, entries, left, localVars>>
  /\ UNCHANGED <<osVars, diskVars, timerVars, requests, edits, crashes>>

(***************************************************************************)
(* The environment.                                                        *)
(***************************************************************************)
\* The user, or POST /sys/dns/set, changes a service's DNS servers.
UserEdit(s, v) ==
  /\ edits < MaxEdits /\ edits' = edits + 1
  /\ dns' = [dns EXCEPT ![s] = v]
  /\ owned' = [owned EXCEPT ![s] = FALSE]
  /\ UNCHANGED <<active, prior, leaseVars, diskVars, timerVars, pc, localVars,
                 requests, faults, crashes>>

NetworkSwitch(s) ==
  /\ s # active /\ edits < MaxEdits /\ edits' = edits + 1
  /\ active' = s
  /\ UNCHANGED <<dns, owned, prior, leaseVars, diskVars, timerVars, pc,
                 localVars, requests, faults, crashes>>

Less(n) == IF n = 0 THEN 0 ELSE n - 1

\* A clock tick.
Tick ==
  /\ left > 0 \/ timer \notin {0, Off} \/ \E n \in orphans : n > 0
  /\ left' = Less(left)
  /\ timer' = IF timer = Off THEN Off ELSE Less(timer)
  /\ orphans' = {Less(n) : n \in orphans}
  /\ UNCHANGED <<osVars, want, entries, diskVars, fired, watch, ticked,
                 stopping, pc, localVars, budgetVars>>

Environment ==
  \/ \E s \in Service, v \in Value : UserEdit(s, v)
  \/ \E s \in Service : NetworkSwitch(s)
  \/ Tick \/ Crash

\* Steps of the operation that holds the mutex.
Working ==
  \/ SetRead \/ SetPersist \/ SetApply \/ FinalSave \/ RenewSave
  \/ RestoreRead \/ RestoreSet \/ ReleaseLoopDone \/ ReleaseSave \/ ReleaseRemove
  \/ ReconcilePersist \/ ReconcileCheck \/ ReconcileApply \/ ReconcileLoopDone

Requests == (\E v \in Server : Set(v)) \/ Renew \/ Delete \/ Stop

Next ==
  \/ Requests \/ Working
  \/ TimerFires \/ Expire \/ WatchTick \/ ReconcileActive
  \/ Shutdown \/ Recover \/ Environment

Spec == Init /\ [][Next]_vars

\* An operation under way goes on, time passes, due timers fire, their
\* callbacks get the mutex, a shutdown ends, and a service that exited is
\* started again.
Fairness ==
  /\ WF_vars(Working) /\ WF_vars(Tick) /\ WF_vars(TimerFires)
  /\ SF_vars(Expire) /\ WF_vars(Shutdown) /\ WF_vars(Recover)

FairSpec == Spec /\ Fairness

(***************************************************************************)
(* Properties.                                                             *)
(***************************************************************************)
\* A crash at any point can restore the original (the comment in set): every
\* service that still has the servers the lease gave it is in lease.json,
\* with those servers as Desired and with the servers it had before as
\* Original, whatever failed, crashed or changed in between.
RecordCoversOwned ==
  \A s \in Service : owned[s] =>
    /\ dns[s] = diskWant
    /\ \E e \in diskEntries : e.svc = s /\ e.orig = prior[s]

\* Neither a timer nor the network watcher takes the leased servers away
\* from the active service while the lease has time left: a callback that
\* was already waiting when the lease was renewed must not release it.
TakenOnlyWhenDue ==
  \A s \in Service :
    (owned[s] /\ ~owned'[s] /\ pc = "restoreSet" /\ pc' = "restore") =>
      \/ cont \in {"set", "drop", "recover"}
      \/ cont = "expire" /\ left = 0
      \/ cont = "reconcile" /\ s # svc

NotTakenEarly == [][TakenOnlyWhenDue]_vars

\* A service that is restored gets the servers it had before the lease took
\* it over, however many crashes, network switches, changes of lease and
\* failed attempts lie in between.
PutBackOriginal ==
  \A s \in Service :
    (owned[s] /\ ~owned'[s] /\ pc = "restoreSet" /\ pc' = "restore") =>
      dns'[s] = prior[s]

RestoresOriginal == [][PutBackOriginal]_vars

\* An armed lease ends: from any moment at which the timer is running, a
\* service with leased servers gets its own back, whatever fails, crashes or
\* races with expire on the way (requests, so renewals too, are bounded).
ArmedLeaseExpires ==
  \A s \in Service : (owned[s] /\ timer # Off) ~> ~owned[s]

\* After a crash or a shutdown the services get their own servers back, even
\* those of a lease that had no timer.
CrashRestores ==
  \A s \in Service : (pc = "down" /\ owned[s]) ~> ~owned[s]

\* The lease implements BorrowedSetting: through every crash, switch and failed
\* attempt it writes a service's DNS only to take it over or to give it back
\* the servers it had, or too late, after somebody else has changed it.
Contract == INSTANCE BorrowedSetting WITH
  Place <- Service, setting <- dns, held <- owned, before <- prior, others <- edits

LeaseIsBorrowing == Contract!Borrowing

(***************************************************************************)
(* Why RecordCoversOwned holds: what the lease in memory says is true of   *)
(* every service it owns, and what it says is in the record before any     *)
(* service is touched.                                                     *)
(***************************************************************************)
InLoop == pc \in {"restore", "restoreSet"}

\* The entries that will still be in the lease when the operation under way
\* is done, if nothing more is restored.
Live ==
  IF InLoop
  THEN todo \cup busy \cup kept \cup
       {e \in entries : cont = "reconcile" /\ e.svc = svc}
  ELSE entries

OneEach(es) == \A e, f \in es : e.svc = f.svc => e = f

\* The servers to lease are known whenever they are needed.
WantKnown ==
  /\ entries # {} \/ pc = "setRead" => want \in Value
  /\ diskEntries # {} => diskWant \in Value

\* The loop works on entries of the lease, one at a time.
LoopOnLease ==
  InLoop => /\ todo \cup busy \cup kept \subseteq entries
            /\ pc = "restore" => busy = {}
            /\ \A e, f \in busy : e = f

\* A service about to be touched has an entry.
EntryAtHand ==
  pc \in {"setPersist", "setApply", "recPersist", "recCheck", "recApply"} =>
    \E e \in entries : e.svc = svc

\* The lease has one entry for each service, and so has its record.
OneEntryEach == OneEach(entries) /\ OneEach(diskEntries)

\* No lease: after a crash, and once everything has been released.
NoLease == pc \in {"down", "setRead", "releaseRemove"} => entries = {}

\* Restoring an owned service changes it, and its entry knows how.
MemoryCoversOwned ==
  /\ \A s \in Service : owned[s] => prior[s] # dns[s]
  /\ pc # "down" =>
       \A s \in Service : owned[s] =>
         dns[s] = want /\ \E e \in Live : e.svc = s /\ e.orig = prior[s]

\* Every entry of the lease is in the record, but for one being added,
\* whose service is not owned yet.
EntriesRecorded ==
  /\ \A e \in entries :
       \/ pc \in {"setPersist", "recPersist"} /\ e.svc = svc
       \/ /\ diskWant = want
          /\ \E d \in diskEntries : d.svc = e.svc /\ d.orig = e.orig
  /\ pc = "setPersist" => \A e \in entries : e.svc = svc
  /\ pc \in {"setPersist", "recPersist"} => ~owned[svc]

\* The inductive invariants, of the types and of the record.
TypeInv == TypeOK /\ WantKnown /\ LoopOnLease /\ EntryAtHand

LeaseInv ==
  /\ OneEntryEach /\ NoLease
  /\ MemoryCoversOwned /\ EntriesRecorded /\ RecordCoversOwned

\* Why NotTakenEarly holds: what the loop is for, and what it leaves alone.
LoopHasReason ==
  InLoop => /\ cont # "none"
            /\ cont = "expire" => left = 0
            /\ cont = "reconcile" => \A e \in todo \cup busy : e.svc # svc
=============================================================================
