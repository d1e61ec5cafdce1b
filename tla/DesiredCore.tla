---------------------------- MODULE DesiredCore ----------------------------
(***************************************************************************)
(* The desired-state layer of route/coreapi (desired.go and the handlers   *)
(* of core.go) on top of the CoreManager of CoreLifecycle: HTTP handlers   *)
(* record the wanted state in desired_state.json, a watcher starts the     *)
(* core whenever it is wanted and not running, and a crashed service       *)
(* resumes from the file.                                                  *)
(***************************************************************************)
EXTENDS CoreLifecycle

CONSTANTS
  Client,             \* goroutines serving /core/start, /stop and /restart
  Watcher,            \* desiredCoreManager.watch
  Initial,            \* the reconcile goroutine of ConfigureDesiredCore
  Shutdown,           \* coreapi.Stop
  DiesWithService,    \* the core is killed with the service process
  MaxRequests,        \* bound: client requests
  MaxSetFailures,     \* bound: failing writes of desired_state.json
  MaxCrashes          \* bound: crashes of the service

ASSUME DesiredAssumption ==
  /\ Caller = Client \cup {Watcher, Initial, Shutdown}
  /\ Cardinality({Watcher, Initial, Shutdown}) = 3
  /\ Client \cap {Watcher, Initial, Shutdown} = {}
  /\ DiesWithService \in BOOLEAN
  /\ MaxRequests \in Nat /\ MaxSetFailures \in Nat /\ MaxCrashes \in Nat

VARIABLES
  mu,          \* desiredCoreManager.mu
  running,     \* desiredCoreManager.running
  saved,       \* the state in desired_state.json
  watching,    \* the watch goroutine's stop channel is open
  service,     \* "up", "stopping" once coreapi.Stop is called, "down"
  task,        \* what each goroutine is doing
  requests, setFailures, crashes             \* budgets used

desiredVars == <<mu, running, saved, watching, service, task, requests,
                 setFailures, crashes>>
allVars     == <<vars, desiredVars>>

Op == {"none", "start", "stop", "restart", "reconcile", "shutdown"}
TaskPc == {"idle", "set", "lock", "check", "stop", "core"}
NoTask == [op |-> "none", pc |-> "idle"]

DesiredInit ==
  /\ Init
  /\ mu = Nobody /\ running = FALSE /\ saved = FALSE
  /\ watching = TRUE /\ service = "up"
  /\ task = [t \in Caller |-> NoTask]
  /\ requests = 0 /\ setFailures = 0 /\ crashes = 0

Move(t, where) == task' = [task EXCEPT ![t].pc = where]
Done(t)        == task' = [task EXCEPT ![t] = NoTask]

\* A goroutine that may still start the core.
StartsInFlight ==
  Cardinality({t \in Caller : task[t].op \in {"start", "restart", "reconcile"}})

StopsInFlight ==
  Cardinality({t \in Caller : task[t].op \in {"stop", "shutdown"}
                               /\ task[t].pc # "core"})

\* Bounds: no task begins that a bound of the manager could block later.
MayStart == sessions + StartsInFlight < MaxSession
MayStop  == stops + StopsInFlight < MaxStopCalls

(***************************************************************************)
(* Goroutines begin.                                                       *)
(***************************************************************************)
Request(c, op) ==
  /\ service # "down" /\ task[c] = NoTask
  /\ requests < MaxRequests /\ requests' = requests + 1
  /\ IF op = "stop" THEN MayStop ELSE MayStart
  /\ task' = [task EXCEPT ![c] = [op |-> op, pc |-> "set"]]
  /\ UNCHANGED <<vars, mu, running, saved, watching, service, setFailures,
                 crashes>>

\* The ticker of the watch goroutine.
WatchTick ==
  /\ service # "down" /\ watching /\ task[Watcher] = NoTask /\ MayStart
  /\ task' = [task EXCEPT ![Watcher] = [op |-> "reconcile", pc |-> "lock"]]
  /\ UNCHANGED <<vars, mu, running, saved, watching, service, requests,
                 setFailures, crashes>>

\* coreapi.Stop.
BeginShutdown ==
  /\ service = "up" /\ service' = "stopping" /\ MayStop
  /\ task' = [task EXCEPT ![Shutdown] = [op |-> "shutdown", pc |-> "lock"]]
  /\ UNCHANGED <<vars, mu, running, saved, watching, requests, setFailures,
                 crashes>>

(***************************************************************************)
(* Steps of a goroutine.                                                   *)
(***************************************************************************)
\* desiredCoreManager.set: write, rename, sync the directory, then change
\* the state in memory.  A failure after the rename leaves the new state in
\* the file only.
SetDesired(t) ==
  LET wanted == task[t].op # "stop" IN
  /\ task[t].pc = "set" /\ mu = Nobody
  /\ \/ /\ saved' = wanted /\ running' = wanted
        /\ Move(t, IF task[t].op = "stop" THEN "stop" ELSE "lock")
        /\ UNCHANGED setFailures
     \/ /\ setFailures < MaxSetFailures /\ setFailures' = setFailures + 1
        /\ saved' \in {saved, wanted}
        /\ Done(t)
        /\ UNCHANGED running
  /\ UNCHANGED <<vars, mu, watching, service, requests, crashes>>

\* Mutant: the mutex is not held from the check to the launch.
LockDesiredReleases(t) ==
  /\ task[t].pc = "lock" /\ mu = Nobody
  /\ \/ /\ task[t].op = "reconcile" /\ ~running
        /\ Done(t)
        /\ UNCHANGED <<vars, mu>>
     \/ /\ task[t].op = "start" \/ (task[t].op = "reconcile" /\ running)
        /\ UNCHANGED mu /\ Move(t, "check")
        /\ UNCHANGED vars
     \/ /\ task[t].op = "restart"
        /\ mu' = t /\ Move(t, "core")
        /\ Begin(t, "restart")
  /\ UNCHANGED <<running, saved, watching, service, requests, setFailures,
                 crashes>>

\* Take desiredCore.mu.  reconcile gives up if the core is not wanted;
\* startDesiredCore does not look again at what set recorded before.
LockDesired(t) ==
  /\ task[t].pc = "lock" /\ mu = Nobody
  /\ \/ /\ task[t].op = "reconcile" /\ ~running
        /\ Done(t)
        /\ UNCHANGED <<vars, mu>>
     \/ /\ task[t].op = "start" \/ (task[t].op = "reconcile" /\ running)
        /\ mu' = t /\ Move(t, "check")
        /\ UNCHANGED vars
     \/ /\ task[t].op = "restart"
        /\ mu' = t /\ Move(t, "core")
        /\ Begin(t, "restart")
  /\ UNCHANGED <<running, saved, watching, service, requests, setFailures,
                 crashes>>

\* GetProcessInfo succeeds: the manager's process exists.
ProcessInfoOK == isRunning /\ pid # 0 /\ pid \in alive

\* Mutant: the early return does not unlock.
CheckCoreKeepsMu(t) ==
  /\ task[t].pc = "check" /\ mutex = Nobody
  /\ IF ProcessInfoOK
     THEN Done(t) /\ UNCHANGED <<mu, vars>>
     ELSE Move(t, "core") /\ Begin(t, "start") /\ UNCHANGED mu
  /\ UNCHANGED <<running, saved, watching, service, requests, setFailures,
                 crashes>>

\* startDesiredCore and reconcile: start the core unless it is running.
CheckCore(t) ==
  /\ task[t].pc = "check" /\ mutex = Nobody
  /\ IF ProcessInfoOK
     THEN Done(t) /\ mu' = Nobody /\ UNCHANGED vars
     ELSE Move(t, "core") /\ Begin(t, "start") /\ UNCHANGED mu
  /\ UNCHANGED <<running, saved, watching, service, requests, setFailures,
                 crashes>>

\* coreStop and coreapi.Stop call StopCore without desiredCore.mu.
StopCore(t) ==
  /\ task[t].pc = "stop"
  /\ Move(t, "core") /\ Begin(t, "stop")
  /\ UNCHANGED <<mu, running, saved, watching, service, requests, setFailures,
                 crashes>>

\* stopWatching.
StopWatching ==
  /\ task[Shutdown] = [op |-> "shutdown", pc |-> "lock"] /\ mu = Nobody
  /\ watching' = FALSE
  /\ Move(Shutdown, "stop")
  /\ UNCHANGED <<vars, mu, running, saved, service, requests, setFailures,
                 crashes>>

\* The call into the manager has returned: the deferred Unlock runs.
CoreReturned(t) ==
  /\ task[t].pc = "core" /\ call[t] = "idle"
  /\ Done(t)
  /\ mu' = IF mu = t THEN Nobody ELSE mu
  /\ UNCHANGED <<vars, running, saved, watching, service, requests,
                 setFailures, crashes>>

DesiredStep(t) ==
  \/ SetDesired(t) \/ LockDesired(t) \/ CheckCore(t) \/ StopCore(t)
  \/ CoreReturned(t)

(***************************************************************************)
(* The service process ends: its memory and goroutines are gone.           *)
(***************************************************************************)
ForgetManager ==
  /\ mutex' = Nobody /\ isRunning' = FALSE /\ monitoring' = FALSE
  /\ pid' = 0 /\ cmd' = Nil /\ controller' = Nil /\ launch' = Nil
  /\ stopChan' = Nil /\ pollChan' = Nil
  /\ closed' = 1..sessions /\ cleaned' = 1..sessions
  /\ agent' = [a \in Agent |-> At("off")]
  /\ notifier' = [s \in Session |-> NotifierAt("off")]
  /\ notify' = [s \in Session |-> 0]
  /\ call' = [t \in Caller |-> "idle"]
  /\ result' = [t \in Caller |-> "none"]
  /\ alive' = IF DiesWithService THEN {} ELSE alive
  /\ owes' = {}
  /\ mu' = Nobody /\ watching' = FALSE /\ running' = FALSE
  /\ task' = [t \in Caller |-> NoTask]
  /\ service' = "down"
  /\ UNCHANGED <<leader, born, job, stuck, boundVars, saved, requests,
                 setFailures>>

Crash ==
  /\ service # "down" /\ crashes < MaxCrashes
  /\ crashes' = crashes + 1
  /\ ForgetManager

\* coreapi.Stop has returned and the process exits.
ServiceExit ==
  /\ service = "stopping" /\ task[Shutdown] = NoTask
  /\ ForgetManager
  /\ UNCHANGED crashes

\* Mutant: the recorded state is not loaded.
ServiceStartForgets ==
  /\ service = "down" /\ service' = "up"
  /\ running' = FALSE /\ watching' = TRUE
  /\ MayStart
  /\ task' = IF running'
             THEN [task EXCEPT ![Initial] = [op |-> "reconcile", pc |-> "lock"]]
             ELSE task
  /\ UNCHANGED <<vars, mu, saved, requests, setFailures, crashes>>

\* ConfigureDesiredCore in a new service process.
ServiceStart ==
  /\ service = "down" /\ service' = "up"
  /\ running' = saved /\ watching' = TRUE
  /\ MayStart
  /\ task' = IF saved
             THEN [task EXCEPT ![Initial] = [op |-> "reconcile", pc |-> "lock"]]
             ELSE task
  /\ UNCHANGED <<vars, mu, saved, requests, setFailures, crashes>>

DesiredNext ==
  \/ \E c \in Client, op \in {"start", "stop", "restart"} : Request(c, op)
  \/ WatchTick \/ BeginShutdown \/ StopWatching
  \/ \E t \in Caller : DesiredStep(t)
  \/ ManagerStep /\ UNCHANGED desiredVars
  \/ Crash \/ ServiceExit \/ ServiceStart

DesiredSpec == DesiredInit /\ [][DesiredNext]_allVars

\* As in CoreLifecycle, plus: the watch ticker keeps ticking, handlers run
\* on, and a supervisor restarts the service process.
DesiredFairness ==
  /\ \A t \in Caller : /\ WF_allVars(DesiredStep(t))
                        /\ WF_allVars(CallStep(t) /\ UNCHANGED desiredVars)
  /\ \A a \in Agent : WF_allVars(ExitStep(a) /\ UNCHANGED desiredVars)
  /\ \A s \in Session :
       /\ WF_allVars(MonitorStep(s) /\ UNCHANGED desiredVars)
       /\ WF_allVars(NotifierStep(s) /\ UNCHANGED desiredVars)
  /\ WF_allVars(PollStep /\ UNCHANGED desiredVars)
  /\ WF_allVars(WatchTick) /\ WF_allVars(StopWatching)
  /\ WF_allVars(ServiceExit) /\ WF_allVars(ServiceStart)

DesiredFairSpec == DesiredSpec /\ DesiredFairness

(***************************************************************************)
(* Properties.                                                             *)
(***************************************************************************)
\* Every variable of the manager and of the desired state has its type, and
\* desiredCore.mu is held only by a goroutine inside a critical section: every
\* way out of startDesiredCore, reconcile and the restart handler unlocks it.
DesiredTypeOK ==
  /\ TypeOK
  /\ mu \in Caller \cup {Nobody}
  /\ mu # Nobody => task[mu].pc \in {"check", "core"}
  /\ running \in BOOLEAN /\ saved \in BOOLEAN /\ watching \in BOOLEAN
  /\ service \in {"up", "stopping", "down"}
  /\ task \in [Caller -> [op: Op, pc: TaskPc]]
  /\ requests \in 0..MaxRequests /\ setFailures \in 0..MaxSetFailures
  /\ crashes \in 0..MaxCrashes

\* The watcher and the initial reconcile never launch a core that is not
\* wanted: a stop request that clears the desired state either comes before
\* reconcile looks, or waits until its launch is over and then stops it.
ReconcileWantsCore ==
  \A t \in {Watcher, Initial} : call[t] # "idle" => running

\* At rest (no request, reconcile or call in flight) a core that is not
\* wanted is not running: what "/core/stop" promises.
RestingStopped ==
  (\A t \in Caller : task[t] = NoTask) /\ ~running => ~isRunning

\* A core that stays wanted is eventually running: failed launches, exits of
\* the core, restarts that race an exit handler and crashes of the service
\* only delay it.
DesiredIsMaintained ==
  (saved /\ service # "stopping") ~>
    (ProcessInfoOK \/ ~saved \/ service = "stopping")

\* Under the handlers, the watcher and restarts of the service the desired
\* state and the manager keep their shape, and no session of the manager leaks.
DesiredSound == DesiredTypeOK /\ SessionCoherent /\ NoLeakedSession
=============================================================================
