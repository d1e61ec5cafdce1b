--------------------------- MODULE CoreLifecycle ---------------------------
(***************************************************************************)
(* The CoreManager of core/manager.go: one managed Mihomo process, the     *)
(* callers that start, stop and restart it, and the goroutines that watch  *)
(* it.  Every start attempt is a session; its number stands for the        *)
(* *exec.Cmd, the process controller, the launch session and the stop      *)
(* channel that the attempt creates.                                       *)
(*                                                                         *)
(* Calls hold cm.mutex from their first step to their last, but the        *)
(* atomics (isRunning, monitoring, pid) are read without it, and the exit  *)
(* and notification handlers drop it between reading the session and       *)
(* acting on it: every such gap is a step boundary here.                   *)
(***************************************************************************)
EXTENDS Naturals, FiniteSets

CONSTANTS
  Caller,         \* goroutines that call StartCore, StopCore, RestartCore
  Nobody,         \* the owner of a free mutex
  JobController,  \* TRUE: Windows job object; FALSE: Unix process group
  MaxSession,     \* bound: start and restart calls
  MaxPid,         \* bound: processes ever created
  MaxExits,       \* bound: spontaneous exits and self-restarts of the core
  MaxStopCalls,   \* bound: stop calls
  MaxFailures,    \* bound: start attempts that fail
  TakeoverTries,  \* bound: probes that fit in takeoverGracePeriod
  NotifyBuffer    \* capacity of launch.readyNotify

ASSUME ConstantsAssumption ==
  /\ IsFiniteSet(Caller) /\ Nobody \notin Caller
  /\ JobController \in BOOLEAN
  /\ MaxSession \in Nat /\ MaxPid \in Nat /\ MaxExits \in Nat
  /\ MaxStopCalls \in Nat /\ MaxFailures \in Nat /\ TakeoverTries \in Nat \ {0}
  /\ NotifyBuffer \in Nat \ {0}
  /\ MaxPid >= MaxSession + MaxExits  \* so that no start runs out of PIDs

Nil     == 0
Session == 1..MaxSession
Pid     == 1..MaxPid
Poller  == 0                       \* the agent that runs monitorPID
Agent   == {Poller} \cup Session   \* the others run monitorProcess

VARIABLES
  mutex,       \* cm.mutex
  isRunning, monitoring, pid,                \* the atomics
  cmd, controller, launch, stopChan,         \* session numbers, or Nil
  closed,      \* stop channels that have been closed
  sessions,    \* sessions created so far
  leader,      \* the process each session's cmd started
  agent,       \* exit handling of monitorProcess and monitorPID
  pollChan,    \* the stop channel monitorPID selects on
  notifier,    \* monitorStartupNotifications, one per session
  notify,      \* notifications buffered for each session
  call,        \* where each caller is
  result,      \* what its last call returned
  alive,       \* live core processes
  born,        \* processes created so far
  job,         \* the session whose group or job a process belongs to
  owes,        \* live processes that will still run their post-up command
  exits, stops, failures,                    \* budgets used
  cleaned,     \* history: sessions whose launch.cleanupNow has run
  stuck        \* history: processes whose termination failed

managerVars == <<isRunning, monitoring, pid, cmd, controller, launch, stopChan,
                 closed, cleaned>>
agentVars   == <<agent, pollChan, notifier, notify>>
procVars    == <<alive, born, job, owes, leader, stuck>>
callVars    == <<call, result>>
boundVars   == <<sessions, exits, stops, failures>>
vars == <<mutex, managerVars, agentVars, procVars, callVars, boundVars>>

CallPc     == {"idle", "start", "stop", "restart", "stopping", "restopping",
               "relaunch", "launching", "starting"}
AgentPc    == {"off", "wait", "lock", "takeover", "probe", "adopt", "cleanup"}
NotifierPc == {"off", "wait", "lock", "probe", "adopt"}

\* The locals of an exit handler: the controller and PID it read under the
\* mutex, the process it found and the probes it has made.
AgentState    == [pc: AgentPc, ctl: 0..MaxSession, old: 0..MaxPid,
                  new: 0..MaxPid, tries: 0..TakeoverTries]
NotifierState == [pc: NotifierPc, ctl: 0..MaxSession, old: 0..MaxPid,
                  new: 0..MaxPid]

At(where)       == [pc |-> where, ctl |-> Nil, old |-> 0, new |-> 0, tries |-> 0]
NotifierAt(where) == [pc |-> where, ctl |-> Nil, old |-> 0, new |-> 0]

Init ==
  /\ mutex = Nobody
  /\ isRunning = FALSE /\ monitoring = FALSE /\ pid = 0
  /\ cmd = Nil /\ controller = Nil /\ launch = Nil /\ stopChan = Nil
  /\ closed = {} /\ cleaned = {} /\ sessions = 0
  /\ leader = [s \in Session |-> 0]
  /\ agent = [a \in Agent |-> At("off")]
  /\ pollChan = Nil
  /\ notifier = [s \in Session |-> NotifierAt("off")]
  /\ notify = [s \in Session |-> 0]
  /\ call = [t \in Caller |-> "idle"]
  /\ result = [t \in Caller |-> "none"]
  /\ alive = {} /\ born = 0 /\ owes = {} /\ stuck = {}
  /\ job = [p \in Pid |-> Nil]
  /\ exits = 0 /\ stops = 0 /\ failures = 0

(***************************************************************************)
(* Pieces shared by the calls and the handlers.                            *)
(***************************************************************************)
\* Nothing to stop: the early return of stopCoreLocked and handleProcessExit.
Empty == pid = 0 /\ controller = Nil /\ launch = Nil /\ ~isRunning

\* signalStopLocked: close the session's stop channel, once.
SignalStop ==
  /\ closed' = closed \cup ({stopChan} \ {Nil})
  /\ stopChan' = Nil

\* The processes that die with a controller: closing a job object kills its
\* members, closing the Unix controller does nothing.
CloseKills(c) ==
  {p \in alive \ stuck : JobController /\ c # Nil /\ job[p] = c}

\* The processes controller.Stop terminates: the job, or the process group
\* of the given process.
StopKills(c, p) ==
  IF JobController THEN CloseKills(c) ELSE {p} \cap alive

\* cleanupLocked: forget the session and release what it owns.
Cleanup ==
  /\ controller' = Nil /\ launch' = Nil /\ cmd' = Nil /\ pid' = 0
  /\ isRunning' = FALSE
  /\ cleaned' = cleaned \cup ({launch} \ {Nil})

\* controller.Stop: terminate the process.  Termination may fail on a live
\* process, which then stays; ok says which it was.
Terminate(c, p, ok) ==
  /\ ok \/ p \in alive
  /\ alive' = (alive \ StopKills(c, p)) \cup (IF ok THEN {} ELSE {p})
  /\ stuck' = IF ok THEN stuck ELSE stuck \cup {p}
  /\ owes' = owes \cap alive'

\* stopProcessLocked: terminate the current process, if there is one.
StopProcess(ok) ==
  IF pid = 0 \/ controller = Nil
  THEN ok /\ UNCHANGED <<alive, stuck, owes>>
  ELSE Terminate(controller, pid, ok)

\* findManagedCorePID: the other processes of the controller's job.  The Unix
\* controller reports none, nor does a job handle that Stop has closed.
Candidates(c, old) == CloseKills(c) \ {old}

Newest(S) == CHOOSE p \in S : \A q \in S : q <= p

\* startPIDPollingLocked: one monitorPID goroutine at a time, guarded by the
\* pidPolling flag (set exactly while the poller is not off).
StartPolling(agents) ==
  IF stopChan = Nil \/ agent[Poller].pc # "off"
  THEN agent' = agents /\ UNCHANGED pollChan
  ELSE /\ agent' = [agents EXCEPT ![Poller] = At("wait")]
       /\ pollChan' = stopChan

Return(t, r) ==
  /\ call' = [call EXCEPT ![t] = "idle"]
  /\ result' = [result EXCEPT ![t] = r]

Goto(t, where) ==
  /\ call' = [call EXCEPT ![t] = where]
  /\ UNCHANGED result

(***************************************************************************)
(* StartCoreWithProfile                                                    *)
(***************************************************************************)
\* startCoreLocked refuses a start while a session exists.
StartRefused(t) ==
  /\ call[t] = "start" /\ mutex = Nobody /\ isRunning
  /\ Return(t, "error")
  /\ UNCHANGED <<mutex, managerVars, agentVars, procVars, boundVars>>

\* startCoreLocked: take the running flag, make the stop channel.
StartLocked(t) ==
  /\ \/ call[t] = "start" /\ mutex = Nobody
     \/ call[t] = "relaunch" /\ mutex = t
  /\ ~isRunning
  /\ mutex' = t
  /\ isRunning' = TRUE
  /\ sessions' = sessions + 1
  /\ stopChan' = sessions + 1
  /\ Goto(t, "launching")
  /\ UNCHANGED <<monitoring, pid, cmd, controller, launch, closed, cleaned,
                 agentVars, procVars, exits, stops, failures>>

\* Mutant: a failed launch forgets signalStopLocked.
LaunchFailsKeepsChannel(t) ==
  /\ call[t] = "launching" /\ mutex = t
  /\ failures < MaxFailures /\ failures' = failures + 1
  /\ monitoring' = FALSE
  /\ isRunning' = FALSE
  /\ cleaned' = cleaned \cup {sessions}
  /\ mutex' = Nobody
  /\ Return(t, "error")
  /\ UNCHANGED <<stopChan, closed, pid, cmd, controller, launch, agentVars, procVars, sessions,
                 exits, stops>>

\* Mutant: a failed launch forgets launch.cleanupNow.
LaunchFailsLeaks(t) ==
  /\ call[t] = "launching" /\ mutex = t
  /\ failures < MaxFailures /\ failures' = failures + 1
  /\ monitoring' = FALSE
  /\ SignalStop
  /\ isRunning' = FALSE
  /\ mutex' = Nobody
  /\ Return(t, "error")
  /\ UNCHANGED <<cleaned, pid, cmd, controller, launch, agentVars, procVars, sessions,
                 exits, stops>>

\* startProcessLocked up to controller.Attach fails: the session never gets
\* a process (one that did start is killed on the spot).
LaunchFails(t) ==
  /\ call[t] = "launching" /\ mutex = t
  /\ failures < MaxFailures /\ failures' = failures + 1
  /\ monitoring' = FALSE
  /\ SignalStop
  /\ isRunning' = FALSE
  /\ cleaned' = cleaned \cup {sessions}
  /\ mutex' = Nobody
  /\ Return(t, "error")
  /\ UNCHANGED <<pid, cmd, controller, launch, agentVars, procVars, sessions,
                 exits, stops>>

\* The process is started and attached, and becomes the current session.
Launched(t) ==
  /\ call[t] = "launching" /\ mutex = t
  /\ born < MaxPid
  /\ born' = born + 1
  /\ alive' = alive \cup {born'}
  /\ job' = [job EXCEPT ![born'] = sessions]
  /\ leader' = [leader EXCEPT ![sessions] = born']
  /\ cmd' = sessions /\ controller' = sessions /\ launch' = sessions
  /\ pid' = born'
  /\ Goto(t, "starting")
  /\ UNCHANGED <<mutex, isRunning, monitoring, stopChan, closed, cleaned,
                 agentVars, owes, stuck, boundVars>>

\* waitForStartup or the endpoint hardening fails: the process is stopped
\* (the error of that stop is dropped) and the session cleaned up.
StartupFails(t) ==
  /\ call[t] = "starting" /\ mutex = t
  /\ failures < MaxFailures /\ failures' = failures + 1
  /\ \E ok \in BOOLEAN : StopProcess(ok)
  /\ monitoring' = FALSE
  /\ SignalStop
  /\ Cleanup
  /\ mutex' = Nobody
  /\ Return(t, "error")
  /\ UNCHANGED <<agentVars, born, job, leader, sessions, exits, stops>>

\* The core reported readiness: monitoring begins.  The process may already
\* have exited again; monitorProcess will find out.
Started(t) ==
  /\ call[t] = "starting" /\ mutex = t
  /\ monitoring' = TRUE
  /\ agent' = [agent EXCEPT ![launch] = At("wait")]
  /\ notifier' = [notifier EXCEPT ![launch] = NotifierAt("wait")]
  /\ mutex' = Nobody
  /\ Return(t, "ok")
  /\ UNCHANGED <<isRunning, pid, cmd, controller, launch, stopChan, closed,
                 cleaned, pollChan, notify, procVars, boundVars>>

(***************************************************************************)
(* StopCore and RestartCoreWithProfile                                     *)
(***************************************************************************)
\* A call that may begin: the bounds count calls, so that no call in flight
\* is ever blocked by a bound.
PendingStarts == Cardinality({t \in Caller :
                   call[t] \in {"start", "restart", "restopping", "relaunch"}})

Begin(t, op) ==
  /\ call[t] = "idle"
  /\ \/ op = "stop" /\ stops < MaxStopCalls /\ stops' = stops + 1
     \/ /\ op \in {"start", "restart"}
        /\ sessions + PendingStarts < MaxSession
        /\ stops' = stops
  /\ call' = [call EXCEPT ![t] = op]
  /\ result' = [result EXCEPT ![t] = "none"]
  /\ UNCHANGED <<mutex, managerVars, agentVars, procVars, sessions, exits,
                 failures>>

\* stopCoreLocked with nothing to stop; a restart goes on to its start.
StopNothing(t) ==
  /\ call[t] \in {"stop", "restart"} /\ mutex = Nobody /\ Empty
  /\ IF call[t] = "stop"
     THEN Return(t, "ok") /\ UNCHANGED mutex
     ELSE Goto(t, "relaunch") /\ mutex' = t
  /\ UNCHANGED <<managerVars, agentVars, procVars, boundVars>>

\* stopCoreLocked up to stopProcessLocked, which may take seconds.
StopLocked(t) ==
  /\ call[t] \in {"stop", "restart"} /\ mutex = Nobody /\ ~Empty
  /\ mutex' = t
  /\ monitoring' = FALSE
  /\ SignalStop
  /\ Goto(t, IF call[t] = "stop" THEN "stopping" ELSE "restopping")
  /\ UNCHANGED <<isRunning, pid, cmd, controller, launch, cleaned,
                 agentVars, procVars, boundVars>>

\* Mutant: StopCore drops the error of stopProcessLocked.
StoppedHidesError(t) ==
  /\ call[t] \in {"stopping", "restopping"} /\ mutex = t
  /\ \E ok \in BOOLEAN :
       /\ StopProcess(ok)
       /\ IF call[t] = "stopping"
          THEN Return(t, "ok") /\ mutex' = Nobody
          ELSE Goto(t, "relaunch") /\ UNCHANGED mutex
  /\ Cleanup
  /\ UNCHANGED <<monitoring, stopChan, closed, agentVars, born, job, leader,
                 boundVars>>

\* Mutant: StopCore returns without unlocking.
StoppedKeepsMutex(t) ==
  /\ call[t] \in {"stopping", "restopping"} /\ mutex = t
  /\ \E ok \in BOOLEAN :
       /\ StopProcess(ok)
       /\ IF call[t] = "stopping"
          THEN Return(t, IF ok THEN "ok" ELSE "error") /\ UNCHANGED mutex
          ELSE Goto(t, "relaunch") /\ UNCHANGED mutex
  /\ Cleanup
  /\ UNCHANGED <<monitoring, stopChan, closed, agentVars, born, job, leader,
                 boundVars>>

\* The rest of stopCoreLocked.  A restart logs the error of the stop and
\* starts all the same, still holding the mutex.
Stopped(t) ==
  /\ call[t] \in {"stopping", "restopping"} /\ mutex = t
  /\ \E ok \in BOOLEAN :
       /\ StopProcess(ok)
       /\ IF call[t] = "stopping"
          THEN Return(t, IF ok THEN "ok" ELSE "error") /\ mutex' = Nobody
          ELSE Goto(t, "relaunch") /\ UNCHANGED mutex
  /\ Cleanup
  /\ UNCHANGED <<monitoring, stopChan, closed, agentVars, born, job, leader,
                 boundVars>>

(***************************************************************************)
(* Exit handling: monitorProcess of a session, and monitorPID.             *)
(***************************************************************************)
\* monitorProcess: cmd.Wait has returned; without monitoring it gives up.
ProcessDone(s) ==
  /\ agent[s].pc = "wait" /\ leader[s] \notin alive
  /\ agent' = [agent EXCEPT ![s] = At(IF monitoring THEN "lock" ELSE "off")]
  /\ UNCHANGED <<mutex, managerVars, pollChan, notifier, notify, procVars,
                 callVars, boundVars>>

\* Mutant: monitorProcess ignores the current command.
CheckCmdInverted(s) ==
  /\ agent[s].pc = "lock" /\ mutex = Nobody
  /\ agent' = [agent EXCEPT ![s] = At(IF cmd # s THEN "takeover" ELSE "off")]
  /\ UNCHANGED <<mutex, managerVars, pollChan, notifier, notify, procVars,
                 callVars, boundVars>>

\* monitorProcess: only the current session's command is handled.
CheckCmd(s) ==
  /\ agent[s].pc = "lock" /\ mutex = Nobody
  /\ agent' = [agent EXCEPT ![s] = At(IF cmd = s THEN "takeover" ELSE "off")]
  /\ UNCHANGED <<mutex, managerVars, pollChan, notifier, notify, procVars,
                 callVars, boundVars>>

\* monitorPID: a tick reads monitoring and the PID ...
PollTick ==
  /\ agent[Poller].pc = "wait"
  /\ \/ ~monitoring /\ agent' = [agent EXCEPT ![Poller] = At("off")]
     \/ /\ monitoring /\ pid # 0
        /\ agent' = [agent EXCEPT ![Poller] = [At("lock") EXCEPT !.old = pid]]
  /\ UNCHANGED <<mutex, managerVars, pollChan, notifier, notify, procVars,
                 callVars, boundVars>>

\* ... and then checks that process and the running flag.
PollCheck ==
  /\ agent[Poller].pc = "lock"
  /\ LET gone == agent[Poller].old \notin alive /\ isRunning
     IN agent' = [agent EXCEPT ![Poller] = At(IF gone THEN "takeover" ELSE "wait")]
  /\ UNCHANGED <<mutex, managerVars, pollChan, notifier, notify, procVars,
                 callVars, boundVars>>

\* monitorPID: its session's stop channel is closed.
PollStop ==
  /\ agent[Poller].pc = "wait" /\ pollChan \in closed
  /\ agent' = [agent EXCEPT ![Poller] = At("off")]
  /\ UNCHANGED <<mutex, managerVars, pollChan, notifier, notify, procVars,
                 callVars, boundVars>>

\* When handleProcessExit returns, monitorPID goes on polling and
\* monitorProcess ends.
Resume(a) == At(IF a = Poller THEN "wait" ELSE "off")

\* takeoverRestartedProcess, top of the loop: read the session that is
\* current now, whichever it is.
TakeoverLook(a) ==
  /\ agent[a].pc = "takeover" /\ mutex = Nobody
  /\ agent' = [agent EXCEPT ![a] =
       IF monitoring /\ isRunning /\ controller # Nil /\ launch # Nil
       THEN [agent[a] EXCEPT !.pc = "probe", !.ctl = controller, !.old = pid,
                      !.tries = agent[a].tries + 1]
       ELSE At("cleanup")]
  /\ UNCHANGED <<mutex, managerVars, pollChan, notifier, notify, procVars,
                 callVars, boundVars>>

\* No restarted process yet: sleep and look again until the grace period
\* ends.
TakeoverMiss(a) ==
  /\ agent[a].pc = "probe" /\ Candidates(agent[a].ctl, agent[a].old) = {}
  /\ \/ /\ agent[a].tries < TakeoverTries
        /\ agent' = [agent EXCEPT ![a] =
                        [At("takeover") EXCEPT !.tries = agent[a].tries]]
     \/ agent' = [agent EXCEPT ![a] = At("cleanup")]
  /\ UNCHANGED <<mutex, managerVars, pollChan, notifier, notify, procVars,
                 callVars, boundVars>>

\* A restarted process is found and secured.
TakeoverFound(a) ==
  LET found == Candidates(agent[a].ctl, agent[a].old) IN
  /\ agent[a].pc = "probe" /\ found # {}
  /\ agent' = [agent EXCEPT ![a].pc = "adopt", ![a].new = Newest(found)]
  /\ UNCHANGED <<mutex, managerVars, pollChan, notifier, notify, procVars,
                 callVars, boundVars>>

\* A restarted process is found but cannot be secured: it is stopped (the
\* error of that stop is dropped).
TakeoverUnsecured(a) ==
  LET found == Candidates(agent[a].ctl, agent[a].old) IN
  /\ agent[a].pc = "probe" /\ found # {}
  /\ \E ok \in BOOLEAN : Terminate(agent[a].ctl, Newest(found), ok)
  /\ agent' = [agent EXCEPT ![a] = At("cleanup")]
  /\ UNCHANGED <<mutex, managerVars, pollChan, notifier, notify, born, job,
                 leader, callVars, boundVars>>

\* Mutant: the controller is not compared again.
TakeoverAdoptUnchecked(a) ==
  /\ agent[a].pc = "adopt" /\ mutex = Nobody
  /\ IF monitoring
     THEN /\ cmd' = Nil
          /\ pid' = agent[a].new
          /\ StartPolling([agent EXCEPT ![a] = Resume(a)])
     ELSE /\ agent' = [agent EXCEPT ![a] = At("cleanup")]
          /\ UNCHANGED <<cmd, pid, pollChan>>
  /\ UNCHANGED <<mutex, isRunning, monitoring, controller, launch, stopChan,
                 closed, cleaned, notifier, notify, procVars, callVars,
                 boundVars>>

\* The restarted process becomes the current one if its controller still is.
TakeoverAdopt(a) ==
  /\ agent[a].pc = "adopt" /\ mutex = Nobody
  /\ IF monitoring /\ controller = agent[a].ctl
     THEN /\ cmd' = Nil
          /\ pid' = agent[a].new
          /\ StartPolling([agent EXCEPT ![a] = Resume(a)])
     ELSE /\ agent' = [agent EXCEPT ![a] = At("cleanup")]
          /\ UNCHANGED <<cmd, pid, pollChan>>
  /\ UNCHANGED <<mutex, isRunning, monitoring, controller, launch, stopChan,
                 closed, cleaned, notifier, notify, procVars, callVars,
                 boundVars>>

\* Mutant: the job object is not closed.
ExitCleanupLeavesJob(a) ==
  /\ agent[a].pc = "cleanup" /\ mutex = Nobody
  /\ agent' = [agent EXCEPT ![a] = Resume(a)]
  /\ IF Empty
     THEN UNCHANGED <<managerVars, alive, owes>>
     ELSE /\ monitoring' = FALSE
          /\ SignalStop
          /\ Cleanup
          /\ UNCHANGED <<alive, owes>>
  /\ UNCHANGED <<mutex, pollChan, notifier, notify, born, job, leader, stuck,
                 callVars, boundVars>>

\* The end of handleProcessExit: whatever session is current is cleaned up.
ExitCleanup(a) ==
  /\ agent[a].pc = "cleanup" /\ mutex = Nobody
  /\ agent' = [agent EXCEPT ![a] = Resume(a)]
  /\ IF Empty
     THEN UNCHANGED <<managerVars, alive, owes>>
     ELSE /\ monitoring' = FALSE
          /\ SignalStop
          /\ Cleanup
          /\ alive' = alive \ CloseKills(controller)
          /\ owes' = owes \ CloseKills(controller)
  /\ UNCHANGED <<mutex, pollChan, notifier, notify, born, job, leader, stuck,
                 callVars, boundVars>>

(***************************************************************************)
(* monitorStartupNotifications of a session                                *)
(***************************************************************************)
NotifyReceive(s) ==
  /\ notifier[s].pc = "wait" /\ notify[s] > 0
  /\ notify' = [notify EXCEPT ![s] = @ - 1]
  /\ notifier' = [notifier EXCEPT ![s] = NotifierAt("lock")]
  /\ UNCHANGED <<mutex, managerVars, agent, pollChan, procVars, callVars,
                 boundVars>>

\* Mutant: the goroutine selects on cm.stopChan instead of its own channel.
NotifyStopReadsField(s) ==
  /\ notifier[s].pc = "wait" /\ stopChan \in closed
  /\ notifier' = [notifier EXCEPT ![s] = NotifierAt("off")]
  /\ UNCHANGED <<mutex, managerVars, agent, pollChan, notify, procVars,
                 callVars, boundVars>>

NotifyStop(s) ==
  /\ notifier[s].pc = "wait" /\ s \in closed
  /\ notifier' = [notifier EXCEPT ![s] = NotifierAt("off")]
  /\ UNCHANGED <<mutex, managerVars, agent, pollChan, notify, procVars,
                 callVars, boundVars>>

\* handleStartupNotification, first critical section: stale notifications
\* are dropped.
NotifyLook(s) ==
  /\ notifier[s].pc = "lock" /\ mutex = Nobody
  /\ notifier' = [notifier EXCEPT ![s] =
       IF monitoring /\ isRunning /\ launch = s
       THEN [NotifierAt("probe") EXCEPT !.ctl = controller, !.old = pid]
       ELSE NotifierAt("wait")]
  /\ UNCHANGED <<mutex, managerVars, agent, pollChan, notify, procVars,
                 callVars, boundVars>>

\* Without the mutex: which process of the session is the core now?
NotifyProbe(s) ==
  LET found == Candidates(notifier[s].ctl, notifier[s].old) IN
  /\ notifier[s].pc = "probe"
  /\ notifier' = [notifier EXCEPT
       ![s].pc = "adopt",
       ![s].new = IF found = {} THEN notifier[s].old ELSE Newest(found)]
  /\ UNCHANGED <<mutex, managerVars, agent, pollChan, notify, procVars,
                 callVars, boundVars>>

\* Second critical section: the session must still be the current one.
NotifyAdopt(s) ==
  LET n == notifier[s] IN
  /\ n.pc = "adopt" /\ mutex = Nobody
  /\ IF monitoring /\ launch = s /\ controller = n.ctl /\ n.new # n.old
     THEN cmd' = Nil /\ pid' = n.new /\ StartPolling(agent)
     ELSE UNCHANGED <<cmd, pid, agent, pollChan>>
  /\ notifier' = [notifier EXCEPT ![s] = NotifierAt("wait")]
  /\ UNCHANGED <<mutex, isRunning, monitoring, controller, launch, stopChan,
                 closed, cleaned, notify, procVars, callVars, boundVars>>

(***************************************************************************)
(* The core itself (external): it may exit, and it may restart itself.  On *)
(* Windows a restart is a new process in the same job, on Unix the same    *)
(* process executes the binary again; either way post-up runs once more.   *)
(***************************************************************************)
CoreExits(p) ==
  /\ p \in alive /\ exits < MaxExits
  /\ alive' = alive \ {p}
  /\ owes' = owes \ {p}
  /\ exits' = exits + 1
  /\ UNCHANGED <<mutex, managerVars, agentVars, born, job, leader, stuck,
                 callVars, sessions, stops, failures>>

CoreRestartsItself(p) ==
  /\ p \in alive \ stuck /\ exits < MaxExits
  /\ exits' = exits + 1
  /\ IF JobController
     THEN /\ born < MaxPid
          /\ born' = born + 1
          /\ alive' = (alive \ {p}) \cup {born'}
          /\ job' = [job EXCEPT ![born'] = job[p]]
          /\ owes' = (owes \ {p}) \cup {born'}
     ELSE owes' = owes \cup {p} /\ UNCHANGED <<born, alive, job>>
  /\ UNCHANGED <<mutex, managerVars, agentVars, leader, stuck, callVars,
                 sessions, stops, failures>>

\* Mutant: the send does not allow for a full buffer.
PostUpNeverDrops(p) ==
  LET s == job[p] IN
  /\ p \in owes
  /\ owes' = owes \ {p}
  /\ notify' = [notify EXCEPT ![s] = @ + 1]
  /\ UNCHANGED <<mutex, managerVars, agent, pollChan, notifier, alive, born,
                 job, leader, stuck, callVars, boundVars>>

\* The startup hook's send: a full readyNotify drops the notification.
PostUp(p) ==
  LET s == job[p] IN
  /\ p \in owes
  /\ owes' = owes \ {p}
  /\ notify' = [notify EXCEPT ![s] = IF @ < NotifyBuffer THEN @ + 1 ELSE @]
  /\ UNCHANGED <<mutex, managerVars, agent, pollChan, notifier, alive, born,
                 job, leader, stuck, callVars, boundVars>>

(***************************************************************************)
(* The specification.                                                      *)
(***************************************************************************)
CallStep(t) ==
  \/ StartRefused(t) \/ StartLocked(t) \/ LaunchFails(t) \/ Launched(t)
  \/ StartupFails(t) \/ Started(t)
  \/ StopNothing(t) \/ StopLocked(t) \/ Stopped(t)

ExitStep(a) ==
  \/ TakeoverLook(a) \/ TakeoverMiss(a) \/ TakeoverFound(a)
  \/ TakeoverUnsecured(a) \/ TakeoverAdopt(a) \/ ExitCleanup(a)

MonitorStep(s) == ProcessDone(s) \/ CheckCmd(s)

PollStep == PollTick \/ PollCheck \/ PollStop

NotifierStep(s) ==
  \/ NotifyReceive(s) \/ NotifyStop(s) \/ NotifyLook(s) \/ NotifyProbe(s)
  \/ NotifyAdopt(s)

CoreStep(p) == CoreExits(p) \/ CoreRestartsItself(p) \/ PostUp(p)

\* The goroutines and the core, without the calls.
ManagerStep ==
  \/ \E t \in Caller : CallStep(t)
  \/ \E a \in Agent : ExitStep(a)
  \/ \E s \in Session : MonitorStep(s) \/ NotifierStep(s)
  \/ PollStep
  \/ \E p \in Pid : CoreStep(p)

Next ==
  \/ \E t \in Caller, op \in {"start", "stop", "restart"} : Begin(t, op)
  \/ ManagerStep

Spec == Init /\ [][Next]_vars

\* Goroutines that can run do run: the Go scheduler and sync.Mutex are fair.
\* Nothing makes the core exit, restart itself or a client call.
Fairness ==
  /\ \A t \in Caller : WF_vars(CallStep(t))
  /\ \A a \in Agent : WF_vars(ExitStep(a))
  /\ \A s \in Session : WF_vars(MonitorStep(s)) /\ WF_vars(NotifierStep(s))
  /\ WF_vars(PollStep)

FairSpec == Spec /\ Fairness

(***************************************************************************)
(* Properties.                                                             *)
(***************************************************************************)
\* Every variable has its type.
TypeOK ==
  /\ mutex \in Caller \cup {Nobody}
  /\ isRunning \in BOOLEAN /\ monitoring \in BOOLEAN
  /\ pid \in 0..MaxPid /\ born \in 0..MaxPid
  /\ cmd \in 0..MaxSession /\ controller \in 0..MaxSession
  /\ launch \in 0..MaxSession /\ stopChan \in 0..MaxSession
  /\ closed \subseteq Session /\ cleaned \subseteq Session
  /\ sessions \in 0..MaxSession
  /\ leader \in [Session -> 0..MaxPid]
  /\ agent \in [Agent -> AgentState]
  /\ pollChan \in 0..MaxSession
  /\ notifier \in [Session -> NotifierState]
  /\ notify \in [Session -> 0..NotifyBuffer]
  /\ call \in [Caller -> CallPc]
  /\ result \in [Caller -> {"none", "ok", "error"}]
  /\ alive \subseteq Pid /\ owes \subseteq Pid /\ stuck \subseteq Pid
  /\ job \in [Pid -> 0..MaxSession]
  /\ exits \in 0..MaxExits /\ stops \in 0..MaxStopCalls
  /\ failures \in 0..MaxFailures

\* Whenever the mutex is free the manager is either empty, with no open stop
\* channel, or runs one monitored session whose command (unless its process
\* was taken over), controller, launch and stop channel are all its own.  A
\* start, a failed start, a stop, a restart, a takeover and an exit handler
\* of any session, however late, must all restore this.
SessionCoherent ==
  mutex = Nobody =>
    \/ Empty /\ ~monitoring /\ stopChan = Nil /\ cmd = Nil
    \/ /\ isRunning /\ monitoring
       /\ launch # Nil /\ controller = launch /\ stopChan = launch
       /\ cmd \in {Nil, launch}

\* The process the manager reports and would stop was started by, or
\* restarted itself within, the current session: a takeover that raced a
\* restart of the session never installs a process of the old one.
PidInSession == pid # 0 => job[pid] = controller

\* Every start attempt but the current one has had its stop channel closed
\* (its notification goroutine ends) and its launch resources released: no
\* path out of startProcessLocked, StopCore or the exit handlers leaks them.
NoLeakedSession ==
  mutex = Nobody =>
    \A s \in 1..sessions : s # launch => s \in closed /\ s \in cleaned

\* With a job object a live core always belongs to the current session
\* (unless terminating it failed), even though an exit handler that outlives
\* its session may clean up the next one: closing the job kills it.
NoOrphan == mutex = Nobody => \A p \in alive \ stuck : job[p] = controller

\* StopCore reporting success means that no core is left, except one whose
\* termination failed in an earlier call.
StopStopsCore ==
  [][\A t \in Caller :
       (call[t] \in {"stop", "stopping"} /\ call'[t] = "idle"
          /\ result'[t] = "ok") => alive' \subseteq stuck]_vars

\* Every call returns: no caller waits for the mutex for ever.
CallsReturn == \A t \in Caller : call[t] # "idle" ~> call[t] = "idle"

\* A session whose process has exited does not stay "running": it is taken
\* over, stopped or cleaned up.
DeadCoreNoticed ==
  (isRunning /\ pid # 0 /\ pid \notin alive) ~> (~isRunning \/ pid \in alive)

\* The goroutines of a finished session end: the notification goroutine
\* always, the monitor once the session's process is gone.
GoroutinesEnd ==
  \A s \in Session :
    /\ s \in closed ~> notifier[s].pc = "off"
    /\ (s \in closed /\ leader[s] \notin alive) ~> agent[s].pc = "off"

\* The fields of the manager agree with one another and with the sessions
\* whenever nobody holds the mutex, and a takeover adopts only a process of the
\* session that is current.
ManagerSound == TypeOK /\ SessionCoherent /\ PidInSession

\* No launch that ended keeps its resources or its goroutines' channel, and
\* no core runs that the manager's controller does not hold.
NothingLeftBehind == NoLeakedSession /\ NoOrphan
=============================================================================
