# Verification of KokoroBox Service

TLA+ modules, TLC runs and TLAPS proofs for KokoroBox Service, the privileged
companion of KokoroBox Desktop. `PROJECT.json` maps every definition to the lines
it models and lists the runs, mutants, findings, hazards and theorems.

## The system

| Component | State | Operations | What is hard |
| --- | --- | --- | --- |
| Core manager (`core/manager.go`, `process_control_*.go`) | mutex; atomics `isRunning`, `monitoring`, `pid`; `cmd`, `controller`, `launch`, `stopChan` | start, stop, restart; goroutines `monitorProcess`, `monitorPID`, `monitorStartupNotifications` | handlers drop the mutex between reading a session and acting on it |
| Output of the core (`core/manager.go`) | unfinished line of each watcher, startup channels | watch for a fatal line, publish log events, wait for startup | two goroutines write chunks cut anywhere; stop races a write |
| Core log writer (`core/log_writer.go`) | file, limit, closed flag | write, update, close | a trim that fails half-way; writers of two launches |
| Startup hook (`core/launch.go`, `startup_notify*.go`) | first-ready channel, notification buffer of 8 | deliver, drop when full | late notifications of an old session |
| Events (`core/events.go`, `core_events.go`, `sysproxy_events.go`) | subscribers, sequence number, last event | subscribe, publish, stream over a WebSocket | last event sent after unlocking, full channels, clients that stall |
| Desired core state (`route/coreapi/desired.go`, `core.go`) | mutex, `running`, `desired_state.json`, watch goroutine | set, reconcile, start, stop, restart handlers | two critical sections per start; crash and restart |
| DNS lease (`route/dnsapi`) | mutex, lease, timer, ticker, `lease.json` | set, renew, release, expire, reconcile, recover | every system call can fail, crash between any two, timers racing renewals |
| System proxy lease and guard (`route/sysproxyapi`) | lease with generation, timers, record, guard goroutine | set, disable, renew, expire, guard, handoff | guard against user changes, generation checks, recovery |
| Process router on Windows (`processrouter/manager.go`, `internal/winfirewall`) | wish and rules, lease, policy, router process, firewall flags, `config.json` | enable, disable, replace, cleanup, status, reconcile, close | the monitor against requests; firewall passes that fail half-way |
| Process router on Linux (`process_linux.go`, `linux_plan.go`) | targets, assigned and original control groups, chains, monitor | send, scan, rebuild, stop | processes fork, end and execute between any two steps |
| Routing rules (`processrouter/types.go`) | none | normalize, match, compile | order, uniqueness, wildcards |
| Keys (`route/auth/auth.go`, `route/bootstrap`, `cmd_service.go`) | key ring, principal, their files | load, set, bootstrap, `service init` | two processes share files that are not written atomically |
| Requests (`route/auth/middleware.go`) | nonce store | verify, remember, evict | a clock that is read before the body |
| Named pipe (`listen/namedpipe`) | overlapped operations, deadline, accept loop | read, deadline, close; accept, close | cancellation against operations about to be issued |
| Service start and stop (`route/server.go`) | listeners | recover, serve, clean up | clean-up before the listeners close |
| Others | | launch profile, sandbox, command line, logging, i18n | see "Not modelled" |

Interaction: requests come through the listener and the authentication to the
HTTP handlers. These call the desired-state layer, which calls the core manager, or
one of the lease managers; the manager's goroutines call back into its exit handling
and publish events. `server.go` recovers the leases and the desired state at startup
and releases them on shutdown.

What makes each correct: one coherent session whose resources never leak, and a
stop that really stops; a wanted core that is kept running and an unwanted one
that is not started; a borrowed setting that is always recoverable, never taken
early and always given back; routing that never outlives its firewall rules and puts
processes back; keys and nonces that survive crashes and order; streams and
connections that always end.

## Modules

* `CoreLifecycle` models the core manager. A start attempt is a numbered session;
  its number stands for the command, the controller, the launch and the stop
  channel it creates. Calls hold the mutex over several steps; the exit and
  notification handlers have one step per critical section and one per unlocked
  probe. `JobController` selects the Windows job object, which kills its members
  when it is closed, or the Unix process group. The core is external: it may exit
  or restart itself at any time. A start and a termination may fail. PIDs are not
  reused and monitorPID's existence query does not fail.
* `CoreOutput` models what a launch does with the core's output: the two goroutines
  that copy it, `startupLogWatcher`, `coreLogEventWatcher` with its `Stop`, and
  `waitForStartup`. Text is a sequence of pieces that is cut anywhere; a marker is
  two pieces next to one another, so that a cut can fall inside it. The event
  watcher's `Write` and `Stop` try one rule on one line in each step; an event says
  which rule matched and where in the text its line ends. The grace timer may have
  fired before `waitForStartup` reaches its second select (`graceOver`), which then
  chooses among all that is ready. `startHeard`, `eventHeard`, `clipped`, `dealt` and
  `knewFatal` are history.
* `LogWriter` models `boundedLogWriter`: every method is an action, and what the
  file system refuses is a choice of the action. Bytes are numbered, so that what a
  trim keeps can be compared with what was written.
* `EventHub` models both event hubs, the handler and the reader of each stream, and
  clients that stall, send frames or leave.
* `DesiredCore` extends `CoreLifecycle` with the desired state. A goroutine (client
  handler, watcher, initial reconcile, shutdown) has a small task record; a call into
  the manager is a call of `CoreLifecycle`. A write may fail before or after the
  rename. A crash forgets everything but the file, and the core dies with the
  service if `DiesWithService` (Linux: `Pdeathsig`; Windows: job object).
* `BorrowedSetting` is the abstract specification of a lease on settings of the
  system: a place is taken over, and a place that the service holds is written again
  only to give it back, with the value remembered when it was taken. `DnsLease`
  implements it (`LeaseIsBorrowing`): the settings are the servers of each network
  service, held are the owned services.
* `DnsLease` models the DNS lease manager. `pc` says where the holder of the mutex
  is; each system call and each write of the record is a step that may fail, with
  or without effect. All entries share their leased servers, so these are kept
  once; time is counted down in ticks. `owned` and `prior` are history: which
  services still have what the lease gave them, and what they had before.
* `SysproxyLease` models the system proxy lease with its guard. As in `DnsLease`,
  `pc` says where the holder of `sysproxyMutationMu` is, each system call and each
  write of `managed.json` may fail, and the process may crash in between. A setting
  is one value; `sysproxyGuardMatches` is equality. Timers carry the generation of
  their lease; a timer that `lease.timer` no longer names stays armed (`orphans`).
  The guard goroutine reads without the mutex and writes with it; a watch that has
  begun sees every later change. `Darwin` adds the reconciliation with the network.
  `put` is history.
* `WinFirewall` holds the decisions of one pass over the rules of an application's
  group, and what a pass that fails half-way leaves. `ProcessRouter` extends it with
  the manager: `todo` are the steps that the holder of the mutex still has to take,
  each of which may fail, and the router process, the proxy, other programs and a
  crash come in between. A router that outlives its `Stop` is forgotten by the manager
  and stays as `stray` until it ends, if it does.
* `RouterRules` has validation, normalization, the command and the matching as
  operators. `LinuxRouter` extends it with the router on Linux: a scan visits one
  process in each step, on a snapshot of `/proc` that may be old. `RuleStore` follows
  the rules of a request through `ReplaceRules`, `config.json`, clean-ups, failed
  writes and restarts (`asked` and `askedConfig` are history). `WildcardScan` is the
  loop of `wildcardMatches`, one comparison in each step, over the protected names.
* `KeyStore` models the key managers of the service and of `service init` and the
  files that they share; a write of init truncates first, so that a process that dies
  leaves a torn file. A bootstrap may come before inits and after ones that ended,
  failed or died; its ring stays behind if removing it fails. `pending` is history: an
  init changed a file and ended before it restarted the service. `RequestAuth` models the authentication of requests: a goroutine reads
  the clock, waits for the body, verifies and consults the nonce store.
* `PipeFile` models a connection of the named pipe (operations, completion port,
  deadline and its timer, close), `PipeListener` the accept loop.
* The proofs: `DnsLeaseProofs` and `SysproxyLeaseProofs` about the leases, `CoreProofs`
  about `CoreLifecycle` and `DesiredCore`, `OutputProofs` about `CoreOutput`,
  `LogWriter` and `EventHub`, `RouterProofs` about `ProcessRouter` with `WinFirewall`,
  `LinuxRouterProofs` about `LinuxRouter`, `RuleStore`, `WildcardScan` and
  `RouterRules`, `AccessProofs` about
  `KeyStore` and `RequestAuth`, `PipeProofs` about `PipeFile` and `PipeListener`.
* `MCCoreLifecycle`, `MCDesiredCore`, `MCDnsLease`, `MCSysproxyLease`,
  `MCProcessRouter` and `MCLinuxRouter` instantiate these for TLC. `MCCore`,
  `MCCoreEvents` and `MCAccess` put modules that share no state into one run: which
  of them moves is chosen at first (`part`), the others stay as they are, and nothing
  fair is enabled in those. `MCLinuxRouter` does so with the router, the store of rules
  and the scan of a pattern.

The operators marked "Mutant" are bugs of the code that could have been: putting
one in place of the definition that follows it makes the property named in
`PROJECT.json`, or another part of the same conjunction, fail.

## Runs

A property such as `LeaseIntact` is the conjunction of named parts, which are defined
and explained before it.

| Run | Shows |
| --- | --- |
| `core_job` | Windows. Whenever the mutex is free, the manager is empty or runs one session with all its parts, and takeovers respect sessions (`ManagerSound`); nothing leaks or is orphaned (`NothingLeftBehind`); a successful stop leaves no core (`StopStopsCore`). However the output is cut, a fatal line is reported as soon as it can be seen, and every line is published once for each rule that it matches, in order (`OutputHeard`), a start that knew of a fatal line when it decided fails unless its grace timer had fired as well (`StartedMeansNoFatal`), a stopped launch is silent (`NoEventAfterStop`). The log file keeps the end of the output within its limit (`LogFileKept`) |
| `core_unix` | Unix, under fairness. Calls return, a dead core is noticed, goroutines end. Streams offer each event once and in order (`EventsDelivered`), publishing never waits (`PublishersGoOn`), a reading client learns the latest state (`LearnsState`), and the stream of a client that left ends (`StreamsEnd`) |
| `core_unix_stop` | violation: on Unix a late exit handler forgets a running core |
| `desired_safe` | through crashes, shutdowns and failed writes the manager stays coherent and leaks nothing (`DesiredSound`), and reconciliation never launches an unwanted core (`ReconcileWantsCore`) |
| `desired_live` | a wanted core is eventually running, through a crash, a failed launch and an exit |
| `desired_race` | violation: a stop that overtakes a start leaves the core running |
| `dns` | the record covers every owned service, nothing is taken early, originals are restored, an armed lease ends, a crash is repaired, and the lease implements `BorrowedSetting` |
| `sysproxy_safe` | a lease has a timer and a record, no guard without a lease, expiry respects renewals (`LeaseIntact`); only a request or a lease writes (`OnlyLeasedSettingsWritten`) |
| `sysproxy_live` | a lease that is not renewed ends; what an ended process left recorded is undone |
| `router` | the recorded policy is what the router does, no router without firewall rules, the status is true, a cleaned firewall is clean (`RouterSound`); after a stop that succeeded no rule and no wish is left and no router but one that an earlier operation had failed to stop, and a stop whose own router outlives it fails (`StopLeavesNothing`); the manager settles (`Settles`) |
| `linux_router` | processes are moved only under installed chains, and a stop brings them home (`RoutingSound`); every process that a rule names ends up in its group (`ProcessesRouted`); through normalization, storage, restarts and the command a process falls under the rule that the request gives it, stored rules are accepted again, and a pattern is refused exactly if it matches one of the protected names that it is compared with (`RulesCorrect`) |
| `access` | a service started since the last init that changed a file accepts what it would accept after a restart, and an init that succeeds has taken effect (`KeysSound`); bootstrap replaces nothing in memory or on disk, whatever inits have left (`BootstrapOnlyOnce`); a request is accepted once in its window but for its two ends, and nothing else is refused as replayed (`NoncesSound`), a closed pipe is not used and a cleared deadline has no effect (`FileSound`), close and deadlines end operations (`FileOpsEnd`), the listener can be closed and loses no pipe (`ListenerSound`) |

Where the code and its documents disagree without a run of their own: a DNS lease
whose `SetDns` and release both fail has no timer (`docs/API.md:77` gives a lease 60
seconds; `ArmedLeaseExpires` is claimed for leases with a timer); expiry of the proxy
lease disables the proxy and does not restore what was set before (`docs/API.md:65`);
a proxy lease renewed after its reconcile callback gave up is not reconciled with
the network any more (`sysproxy_lease_test.go:177` names the failure). The models have
these cases too, and the properties state them as exceptions:

* A start succeeds although a fatal line was reported, if the goroutine is held up for
  the 250 ms of the grace timer: the second select of `waitForStartup` then finds
  both ready and may take the timer (`manager.go:864`).
* The drift check includes both ends of the window and a nonce expires exactly one
  window after it was accepted, so that a request accepted at the first instant is
  accepted again at the last; and one that arrives in the window may end its body after
  it, when its nonce is gone (`middleware.go:69`; `docs/API.md:14-15` describe the
  protection against replay). Nonces are forgotten when the service restarts.
* A router whose `Stop` timed out may still run when a later request to stop routing,
  which does not know of it, succeeds (`process_windows.go:140`, `docs/API.md:90`).
* An init that changes a file and is interrupted before it restarts the service leaves
  the service with the old keys, and the next init finds nothing to change
  (`cmd_service.go:300`).
* The names that a pattern is compared with have one version of the installer
  (`types.go:377`), where `isProtectedProcess`, which nothing calls, has every version.

Bounds. Two callers, two sessions, two exits, one failed start and one
stop call (`core_*`) are enough for an exit handler of one session to meet
the next session in every state. Bounds count calls when they begin, so that
no bound blocks a call in flight; each cap is a named constant. One takeover probe
is enough because each probe reads the session afresh; a buffer of one makes
notifications overflow. Output of a few pieces on two streams with a limit of two
pieces per line lets a marker be cut, interleaved and clipped, and a line match two
rules; two launches, two paths
and limits and eight bytes in lines of three let a log be trimmed repeatedly. One
stream with a channel of two and three events lets the copy overtake, the channel
overflow and the client stall. In `dns` two services, one leased list and one other
value, two requests, one edit or switch, two failing calls and one crash let a
renewal, a network switch and a crash meet; the theorems cover the larger instances.
In `sysproxy_*` one target, two requests (so a lease is renewed, replaced, disabled or
handed over), one edit, one failing call and one crash are enough for the guard and
each timer to meet every other operation at every step; a lease lasts two ticks and
a retry takes one. In `router` and `linux_router` two requests, one failing call, one
or two events of the outside world and one crash can fall between any two steps; the
store gets every request of up to two rules from a sample of valid and invalid ones,
with one restart and one save or clean-up before or after it, and the scan every
pattern and name of up to four letters (`MaxReplaces`, `MaxSaves`, `MaxRestarts`). In `access` two inits and a bootstrap with two faults,
two handlers with three requests over four instants and a restart, two operations
with two deadlines, and two Accepts against two Closes meet in every order. The
violation runs use smaller instances. In `desired_live` no write of the desired state
fails (`MaxSetFailures = 0`), so that a set that fails after its rename
(`desired.go:125`) is covered by `desired_safe` only.

Cases that the models have and the runs exclude, because a property then fails; the
hazard at the line says which:

* `ReadMayFail` (`DnsLease`): the record cannot be read at startup;
* `Rare` (`SysproxyLease`): a directory sync that fails after the rename, and a
  directory that cannot be prepared;
* `Rare` (`ProcessRouter`): `Ensure` fails half-way after a removal;
* `Rare` (`LinuxRouter`): a tracked PID is reused, or deleting the chains fails
  silently;
* `Rare` (`KeyStore`): a `service init` overlaps a bootstrap;
* `Lost` (`PipeListener`): a connect fails at the moment at which Close interrupts it;
* `Bursts` (`EventHub`): a channel fills before the first copy is sent;
* `DiesWithService = FALSE` (`DesiredCore`): on macOS the core outlives a crash.

Deadlock is not checked: with every budget used, the system rests. Symmetry is
used for interchangeable callers and clients, in safety runs only.

Fairness. Goroutines that can run do run, and `sync.Mutex` hands itself over to a
waiter that starves (hence strong fairness for `Expire`, `RecoveryRetry`, the
monitors of the routers and a waiting reconcile); a `select` whose case is ready again
and again takes it; timers fire, tickers tick, closing a pipe ends its connect, and
the service manager starts a service that exited. Nothing is assumed about clients,
the user, the network, the routed processes or the core. On Windows
`DeadCoreNoticed` is not claimed: a poller that stays unscheduled during a whole
restart keeps `pidPolling` set and the next takeover starts none.

## Proofs

Every safety property of the passing runs is proved for all values of the constants. A
theorem rests on the assumption named in the
module of its constants (`LeaseAssumption`, `ConstantsAssumption` and so on: the
bounds are numbers, special values are no ordinary ones, there are finitely many
callers), which TLC evaluates in the runs, and on what the fourth column says; these
are the cases that the runs exclude too. Hardly a property is inductive as it stands:
calls hold a mutex over several steps, so that between two steps of the holder the
property is broken in a known way. Each inductive invariant therefore says, besides
the types, what holds at every step of a holder, and what the others who wait with an
old view of the state may still rely on. Each was an invariant of TLC runs before it
was proved.

| Theorem | Property | Invariant and why it is needed | Assumed |
| --- | --- | --- | --- |
| `TypeCorrect` | `TypeOK` of `DnsLease` | `TypeInv`: what the restore loop works on are entries of the lease | |
| `NeverTakenEarly` | `NotTakenEarly` | `LoopHasReason`: for what the restore loop runs | |
| `RecordAlwaysCovers`, `AlwaysRestoresOriginal` | `RecordCoversOwned`, `RestoresOriginal` | `LeaseInv`: memory covers every owned service through the loop, and every entry is recorded except one being added, whose service is not owned yet. The record alone does not determine what the next write puts into it | the record can be read at startup (`ReadMayFail = FALSE`) |
| `LeaseRefinesBorrowing` | `LeaseIsBorrowing` | the same: initial states map to initial states of `BorrowedSetting`, every step to a take, a release, a change by others or a stutter | the same |
| `LeaseAlwaysTimed` | all of `LeaseIntact` but the record | `ProxyInv`: what the holder knows at each step; a lease has a timer or one that fired and waits for the mutex; a guard has a target | |
| `LeaseAlwaysIntact` | `LeaseIntact` | with `RecordKept`: the record names what the lease expects at every step | no directory sync fails after the rename (`"sync"`) |
| `OnlyLeasedWrites` | `OnlyLeasedSettingsWritten` | `ProxyInv`, for each step that writes | |
| `ManagerAlwaysSound` | `ManagerSound` | `ManagerInv`: who is inside the mutex, what a session that is over has given up, and what the exit and notification handlers, which read a session before they lock, may still adopt | |
| `NothingEverLeftBehind`, `StopAlwaysStopsCore` | `NothingLeftBehind`, `StopStopsCore` | with `AllInJob`: what runs is in the job of the manager's controller | a job object (`JobController`; on Unix `core_unix_stop` refutes the second) |
| `DesiredAlwaysSound`, `ReconcileOnlyWanted` | `DesiredSound`, `ReconcileWantsCore` | `DesiredInv`: `ManagerInv` with where each goroutine is; a reconcile between its check and its call still finds the core wanted; none survives a crash | |
| `StartAlwaysKnowsFatal` | `StartedMeansNoFatal` | `GraceKnows`: while `waitForStartup` waits a moment longer nothing was reported, and a start that succeeded in spite of a report found its grace timer fired | |
| `OutputAlwaysHeard` | `OutputHeard` | `HeardInv`: what a watcher keeps is the end of what it heard, and all of the unfinished line unless it was clipped; what `Write` and `Stop` have still to publish lies between what was dealt with and that end; an event is there exactly if its rule was tried on its line and holds. Lemmas say what splitting and clipping keep of any text, and that a line holds a marker if and only if the text does at its place | |
| `NeverEventAfterStop` | `NoEventAfterStop` | `WatcherQuiet`: one goroutine publishes, none after `Stop` took the line | |
| `LogFileAlwaysKept` | `LogFileKept` | `LogInv`: launches come in order, so that one writer is live; each file holds an unbroken end of the output. Lemmas say what `readLogTail`, a trim and a failed trim keep of any file | |
| `EventsAlwaysDelivered` | `EventsDelivered` | `HubInv`: for each client where its handler and its reader are, that channel, copy and missed events together are exactly what was published since it subscribed, and that they are sorted. Holds for `Bursts` too | |
| `RouterAlwaysSound`, `StopAlwaysLeavesNothing` | `RouterSound`, `StopLeavesNothing` | `RouterInv`: what each list of steps that the holder still has to take stands for, and what holds before each; who owes a clean-up. For the action property, which steps let go of a router that still runs | no `Ensure` fails half-way after a removal (`"partial"`) |
| `RoutingAlwaysSound` | `RoutingSound` | `LinuxInv`: where a process may be depending on what is remembered of it and of its parent, and what each phase of a stop has achieved although processes fork behind it | no remembered PID is reused, chains are not left silently (`"reuse"`, `"silent"`) |
| `RulesAlwaysCorrect` | `RulesCorrect` | `StoreInv`: rules in memory and in the file are the normal form of the request that they came from, and normalizing that again changes nothing; lemmas say that a sorted permutation keeps the first rule that matches. `ScanInv`: what was consumed is aligned, and if the name matches at all, it does with the last star at or behind where the scan placed it, so that starting again there loses nothing | |
| `KeysAlwaysSound`, `BootstrapReplacesNothing` | `KeysSound`, `BootstrapOnlyOnce` | `KeyInv`: what each stage of a bootstrap and of an init has read and written; a bootstrap that has passed its checks meets no ring of another, because a service that runs without one has what the legacy file says; and, unless an init changed a file since the start, memory is what the files would load, or has no principal and neither have they | no init during a bootstrap (`"overlap"`) |
| `NoncesAlwaysSound` | `NoncesSound` | `NonceInv`: the store is ordered by expiry, holds only what was accepted, and each of that until one window after the instant that was read when it was | |
| `FileAlwaysSound` | `FileSound` | `PipeInv`: what the kernel still serves, where the closer is, and that an operation started under a cleared deadline watches a channel that nobody closes | |
| `PipesAlwaysAccounted` | the safety part of `ListenerSound` | the property itself, with the state of the accept loop | |

Only model-checked:

* liveness (`CallsReturn` and the like, `DeadCoreNoticed`, `Settles`, `ProcessesRouted`,
  `StreamsEnd`, `FileOpsEnd`, the second part of `ListenerSound`): fairness is beyond
  the prover;
* the two violations.

The provers have no induction over data, so the loops over a text, a list of rules or a
pattern are steps of their module where the code's order matters, or sets where it does
not; what remains of an induction (the first end of a line, the first rule that differs)
is an argument about a least counterexample (`LeastExists`).

## Plan

1. Action properties of single modules that are implicit in the invariants so far
   (the generation of a proxy lease only grows while it is held; a log writer that
   was closed stays closed).
2. The order of the whole shutdown as one composition of the lease modules and the
   core; the system proxy lease as a second implementation of `BorrowedSetting` with
   "disabled" as what is given back.

## Not modelled

* Launch profile: `PatchLaunchProfile` loads, changes and saves one file without a
  lock, and nothing orders two such requests; what a change does to the running launch
  is in `LogWriter`. The validation of a profile runs an external process.
* The PAC server's lifetime and the platforms' commands that read and write the
  proxy and DNS settings: one setting stands for them.
* Startup hook: the socket or pipe and its token; only delivery is modelled.
* Sandbox, binary security, file permissions: sequences of system calls without
  state of the service's own. Signatures and hashes: a request is genuine or not.
* `Flush` of a pipe (`file.go:240`), which uses the handle without being counted among
  the operations that `Close` waits for.
* COM calls, the text of iptables commands, job objects of the router.
* Command line and calls into the operating system's service manager, apart from
  `service init`; logging, i18n, HTTP decoding and formatting.
* Reuse of PIDs (except `Rare` in `LinuxRouter`) and of handles.
