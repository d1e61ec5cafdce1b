---------------------------- MODULE CoreProofs ----------------------------
(***************************************************************************)
(* Proofs about CoreLifecycle and DesiredCore for any callers, sessions,   *)
(* processes and bounds: why the manager's fields agree whenever nobody    *)
(* holds its mutex, why no session leaks and, with a job object, no core   *)
(* is left behind, and why only a wanted core is launched by reconcile.    *)
(***************************************************************************)
EXTENDS DesiredCore, FiniteSetTheorems, TLAPS

(***************************************************************************)
(* The inductive invariant of the manager.                                 *)
(***************************************************************************)
\* Every variable has its type; sessions and processes are numbered in the
\* order in which they are created.
BoolType == isRunning \in BOOLEAN /\ monitoring \in BOOLEAN
CallType ==
  /\ mutex \in Caller \cup {Nobody} /\ call \in [Caller -> CallPc]
  /\ result \in [Caller -> {"none", "ok", "error"}]
FieldType ==
  /\ cmd \in 0..MaxSession /\ controller \in 0..MaxSession
  /\ launch \in 0..MaxSession /\ stopChan \in 0..MaxSession
  /\ pollChan \in 0..MaxSession
  /\ closed \subseteq Session /\ cleaned \subseteq Session
ProcType ==
  /\ born \in 0..MaxPid /\ pid \in 0..born
  /\ alive \subseteq 1..born /\ owes \subseteq 1..born /\ stuck \subseteq 1..born
JobType ==
  /\ job \in [Pid -> 0..MaxSession] /\ leader \in [Session -> 0..MaxPid]
  /\ \A p \in 1..born : job[p] # Nil
GoodAgent == {x \in AgentState : x.pc = "takeover" => x.tries < TakeoverTries}
AgentType == agent \in [Agent -> GoodAgent]
NotifierType ==
  /\ notifier \in [Session -> NotifierState]
  /\ notify \in [Session -> 0..NotifyBuffer]
BudgetType ==
  /\ exits \in 0..MaxExits /\ stops \in 0..MaxStopCalls /\ failures \in 0..MaxFailures

\* A call that was begun has a session set aside for it.
Reserved == sessions \in Nat /\ sessions + PendingStarts <= MaxSession
SessionCount == sessions \in 0..MaxSession

\* The callers that are inside a critical section are the holder of the mutex.
Holding == {"stopping", "restopping", "relaunch", "launching", "starting"}
HolderInside == \A t \in Caller : call[t] \in Holding <=> mutex = t

\* What the manager's fields say while a call holds the mutex.
Nothing == Empty /\ ~monitoring /\ stopChan = Nil /\ cmd = Nil
HolderKnows ==
  \A t \in Caller :
    /\ call[t] = "relaunch" => Nothing
    /\ call[t] = "launching" =>
         /\ isRunning /\ ~monitoring /\ sessions # 0 /\ stopChan = sessions
         /\ pid = 0 /\ controller = Nil /\ launch = Nil /\ cmd = Nil
    /\ call[t] = "starting" =>
         /\ isRunning /\ ~monitoring /\ sessions # 0 /\ stopChan = sessions
         /\ controller = sessions /\ launch = sessions /\ cmd = sessions
    /\ call[t] \in {"stopping", "restopping"} =>
         /\ ~monitoring /\ stopChan = Nil
         /\ controller = launch /\ cmd \in {Nil, launch}

\* The manager knows a process exactly if it has a controller.
PidWithController == pid = 0 <=> controller = Nil

\* A session is over for its goroutines unless it has the open stop channel,
\* and for its resources unless it is the current one or being launched.
SessionsOver ==
  \A s \in 1..sessions :
    /\ s = stopChan \/ s \in closed
    /\ \/ s = launch \/ s \in cleaned
       \/ s = sessions /\ \E t \in Caller : call[t] = "launching"

\* A process that a handler is about to adopt belongs to the session whose
\* controller the handler remembers.
AgentAdopts ==
  \A a \in Agent : agent[a].pc = "adopt" =>
    agent[a].new \in 1..born /\ job[agent[a].new] = agent[a].ctl
NotifierAdopts ==
  \A s \in Session : notifier[s].pc = "adopt" /\ notifier[s].new # notifier[s].old =>
    notifier[s].new \in 1..born /\ job[notifier[s].new] = notifier[s].ctl

Types == BoolType /\ CallType /\ FieldType /\ ProcType /\ JobType /\ AgentType
           /\ NotifierType /\ BudgetType /\ Reserved
ManagerInv == Types /\ HolderInside /\ HolderKnows /\ SessionCoherent
                /\ PidWithController /\ SessionsOver /\ AgentAdopts
                /\ NotifierAdopts /\ PidInSession

\* With a job object: whatever runs is in the job of the manager's controller.
AllInJob == \A p \in alive \ stuck : job[p] = controller

(***************************************************************************)
(* The inductive invariant of the desired state.                           *)
(***************************************************************************)
TaskType ==
  /\ mu \in Caller \cup {Nobody}
  /\ service \in {"up", "stopping", "down"}
  /\ task \in [Caller -> [op: Op, pc: TaskPc]]
  /\ requests \in 0..MaxRequests /\ setFailures \in 0..MaxSetFailures
  /\ crashes \in 0..MaxCrashes
FlagType == running \in BOOLEAN /\ saved \in BOOLEAN /\ watching \in BOOLEAN

\* A goroutine is in the manager only from the last step of its task, and the
\* holder of desiredCore.mu is the one that checks, starts or restarts.
Starting == {"start", "restart", "reconcile"}
TaskKnows ==
  \A t \in Caller :
    /\ call[t] # "idle" => task[t].pc = "core"
    /\ task[t].pc = "set" => task[t].op \in {"start", "stop", "restart"}
    /\ task[t].pc = "check" => task[t].op \in {"start", "reconcile"}
    /\ task[t].pc = "stop" => task[t].op \in {"stop", "shutdown"}
    /\ task[t].pc # "idle" => task[t].op # "none"
    /\ mu = t <=> task[t].op \in Starting /\ task[t].pc \in {"check", "core"}

\* Which tasks the three goroutines of the service itself can have.
OwnTasks ==
  /\ \A t \in {Watcher, Initial} : task[t].op \in {"none", "reconcile"}
  /\ task[Shutdown].op \in {"none", "shutdown"}
  /\ service = "up" => task[Shutdown].pc = "idle"

\* A reconcile that has looked holds desiredCore.mu, so nobody has changed the
\* desired state since.
StillWanted ==
  \A t \in Caller : task[t].op = "reconcile" /\ task[t].pc \in {"check", "core"} => running

\* Between two processes of the service there are no goroutines.
DownIdle ==
  service = "down" => \A t \in Caller : task[t].op = "none" /\ task[t].pc = "idle"

DesiredInv == ManagerInv /\ TaskType /\ FlagType /\ TaskKnows /\ OwnTasks
                /\ StillWanted /\ DownIdle

(***************************************************************************)
(* Facts about the building blocks.                                        *)
(***************************************************************************)
\* findManagedCorePID picks one of the processes it found.
LEMMA NewestIsIn ==
  ASSUME NEW S \in SUBSET Pid, S # {}
  PROVE  Newest(S) \in S
<1> DEFINE above(p) == {q \in S : q > p}
           F == {A \in SUBSET S : \E p \in S : A = above(p)}
<1>1. IsFiniteSet(S)
  <2>1. IsFiniteSet(1..MaxPid)
    BY FS_Interval, ConstantsAssumption
  <2>2. QED
    BY <2>1, FS_Subset DEF Pid
<1>2. \A A \in SUBSET S : IsFiniteSet(A)
  BY <1>1, FS_Subset
<1>3. F \subseteq FiniteSubsetsOf(S) /\ F # {}
  BY <1>2 DEF FiniteSubsetsOf
<1>4. PICK A \in F : \A B \in F : <<B, A>> \notin StrictSubsetOrdering(S)
  <2> HIDE DEF F
  <2>1. IsWellFoundedOn(StrictSubsetOrdering(S), FiniteSubsetsOf(S))
    BY FS_StrictSubsetOrderingWellFounded, Zenon
  <2>2. QED
    BY <1>3, <2>1, WFMin, Zenon
<1>5. PICK p \in S : A = above(p)
  OBVIOUS
<1>6. ASSUME NEW q \in S, ~(q <= p) PROVE FALSE
  <2>1. above(q) \in F /\ q \in A /\ q \notin above(q) /\ above(q) \subseteq A
    <3>1. q > p /\ \A r \in S : r > q => r > p
      BY <1>6 DEF Pid
    <3>2. above(q) \in F /\ q \notin above(q)
      BY DEF Pid
    <3>3. QED
      BY <1>5, <3>1, <3>2
  <2> HIDE DEF F, above
  <2>2. <<above(q), A>> \notin StrictSubsetOrdering(S)
    BY <1>4, <2>1
  <2>3. above(q) \subseteq S /\ A \subseteq S
    BY <1>4 DEF F, above
  <2>4. QED
    BY <2>1, <2>2, <2>3 DEF StrictSubsetOrdering
<1>7. QED
  BY <1>5, <1>6 DEF Newest

\* The states in which exit handlers and notification handlers are put.
LEMMA AgentAt ==
  ASSUME NEW w \in AgentPc
  PROVE  At(w) \in GoodAgent /\ At(w).pc = w
BY ConstantsAssumption DEF AgentPc, AgentState, GoodAgent, At, Nil

LEMMA AgentLocks ==
  ASSUME NEW q \in 0..MaxPid
  PROVE  /\ [At("lock") EXCEPT !.old = q] \in GoodAgent
         /\ [At("lock") EXCEPT !.old = q].pc = "lock"
BY ConstantsAssumption DEF AgentPc, AgentState, GoodAgent, At, Nil

LEMMA AgentRetries ==
  ASSUME NEW x \in GoodAgent, x.tries < TakeoverTries
  PROVE  /\ [At("takeover") EXCEPT !.tries = x.tries] \in GoodAgent
         /\ [At("takeover") EXCEPT !.tries = x.tries].pc = "takeover"
BY ConstantsAssumption DEF AgentPc, AgentState, GoodAgent, At, Nil

LEMMA AgentLooks ==
  ASSUME NEW x \in GoodAgent, x.pc = "takeover",
         NEW c \in 0..MaxSession, NEW q \in 0..MaxPid
  PROVE  LET y == [x EXCEPT !.pc = "probe", !.ctl = c, !.old = q, !.tries = x.tries + 1]
         IN y \in GoodAgent /\ y.pc = "probe"
<1> DEFINE y == [x EXCEPT !.pc = "probe", !.ctl = c, !.old = q, !.tries = x.tries + 1]
<1>1. x \in AgentState /\ x.tries < TakeoverTries
  BY DEF GoodAgent
<1>2. x.tries + 1 \in 0..TakeoverTries
  BY <1>1, ConstantsAssumption DEF AgentState
<1>3. y \in AgentState /\ y.pc = "probe"
  BY <1>1, <1>2 DEF AgentState, AgentPc
<1>4. QED
  BY <1>3 DEF GoodAgent

LEMMA AgentFinds ==
  ASSUME NEW x \in GoodAgent, NEW q \in 0..MaxPid
  PROVE  LET y == [x EXCEPT !.pc = "adopt", !.new = q]
         IN y \in GoodAgent /\ y.pc = "adopt" /\ y.new = q /\ y.ctl = x.ctl
BY DEF AgentPc, AgentState, GoodAgent

LEMMA NotifierIn ==
  ASSUME NEW w \in NotifierPc
  PROVE  NotifierAt(w) \in NotifierState /\ NotifierAt(w).pc = w
BY ConstantsAssumption DEF NotifierPc, NotifierState, NotifierAt, Nil

LEMMA NotifierLooks ==
  ASSUME NEW x \in NotifierState, NEW c \in 0..MaxSession, NEW q \in 0..MaxPid
  PROVE  /\ [x EXCEPT !.ctl = c, !.old = q] \in NotifierState
         /\ [x EXCEPT !.ctl = c, !.old = q].pc = x.pc
BY DEF NotifierPc, NotifierState

LEMMA NotifierFinds ==
  ASSUME NEW x \in NotifierState, NEW q \in 0..MaxPid
  PROVE  LET y == [x EXCEPT !.pc = "adopt", !.new = q]
         IN /\ y \in NotifierState /\ y.pc = "adopt" /\ y.new = q
            /\ y.ctl = x.ctl /\ y.old = x.old
BY DEF NotifierPc, NotifierState

\* Termination leaves processes that were created before.
LEMMA TerminateKeeps ==
  ASSUME ProcType, NEW c, NEW p \in 1..born, NEW ok \in BOOLEAN, Terminate(c, p, ok)
  PROVE  alive' \subseteq 1..born /\ owes' \subseteq 1..born /\ stuck' \subseteq 1..born
<1>1. alive' \subseteq alive \cup {p} /\ stuck' \subseteq stuck \cup {p}
  BY DEF Terminate
<1>2. owes' \subseteq owes
  BY DEF Terminate
<1>3. QED
  BY <1>1, <1>2 DEF ProcType

LEMMA StopProcessKeeps ==
  ASSUME ProcType, NEW ok \in BOOLEAN, StopProcess(ok)
  PROVE  alive' \subseteq 1..born /\ owes' \subseteq 1..born /\ stuck' \subseteq 1..born
<1>1. CASE pid = 0 \/ controller = Nil
  BY <1>1 DEF StopProcess, ProcType
<1>2. CASE ~(pid = 0 \/ controller = Nil)
  <2>1. pid \in 1..born /\ Terminate(controller, pid, ok)
    BY <1>2 DEF StopProcess, ProcType
  <2>2. QED
    BY <2>1, TerminateKeeps
<1>3. QED
  BY <1>1, <1>2

\* The end of handleProcessExit does nothing, or forgets the session.
LEMMA ExitCleanupCases ==
  ASSUME NEW a, ExitCleanup(a)
  PROVE  \/ UNCHANGED <<managerVars, alive, owes>>
         \/ /\ monitoring' = FALSE /\ SignalStop /\ Cleanup
            /\ alive' = alive \ CloseKills(controller)
            /\ owes' = owes \ CloseKills(controller)
BY Zenon DEF ExitCleanup

\* A process that is created changes nothing about those before it.
LEMMA JobsKept ==
  ASSUME ProcType, JobType,
         (\E t \in Caller : Launched(t)) \/ (\E p \in Pid : CoreRestartsItself(p))
  PROVE  1..born \subseteq 1..(born') /\ \A q \in 1..born : job'[q] = job[q]
<1>1. ASSUME NEW t \in Caller, Launched(t)
      PROVE  1..born \subseteq 1..(born') /\ \A q \in 1..born : job'[q] = job[q]
  BY <1>1, ConstantsAssumption DEF Launched, ProcType, JobType, Pid
<1>2. ASSUME NEW p \in Pid, CoreRestartsItself(p)
      PROVE  1..born \subseteq 1..(born') /\ \A q \in 1..born : job'[q] = job[q]
  BY <1>2, ConstantsAssumption DEF CoreRestartsItself, ProcType, JobType, Pid
<1>3. QED
  BY <1>1, <1>2

\* What a probe finds are processes of the controller's session.
LEMMA CandidatesFound ==
  ASSUME ProcType, NEW c, NEW q, Candidates(c, q) # {}
  PROVE  /\ Newest(Candidates(c, q)) \in alive \ stuck
         /\ Newest(Candidates(c, q)) \in 1..born
         /\ job[Newest(Candidates(c, q))] = c
<1>1. Candidates(c, q) \in SUBSET Pid
  <2>1. Candidates(c, q) \subseteq alive
    BY DEF Candidates, CloseKills
  <2>2. 1..born \subseteq 1..MaxPid
    BY ConstantsAssumption DEF ProcType
  <2>3. QED
    BY <2>1, <2>2 DEF ProcType, Pid
<1>2. Newest(Candidates(c, q)) \in Candidates(c, q)
  BY <1>1, NewestIsIn
<1>3. QED
  BY <1>2 DEF Candidates, CloseKills, ProcType

(***************************************************************************)
(* Steps of the manager.                                                   *)
(***************************************************************************)

\* The flags stay Booleans.
LEMMA BoolTypeStep ==
  ASSUME BoolType, [Next]_vars
  PROVE  BoolType'
<1> USE ConstantsAssumption DEF BoolType
<1>1. CASE UNCHANGED <<isRunning, monitoring>>
  BY <1>1
<1>2. ASSUME NEW t \in Caller, StartLocked(t)
       PROVE  BoolType'
  BY <1>2 DEF StartLocked, Goto, agentVars, procVars
<1>3. ASSUME NEW t \in Caller, LaunchFails(t)
       PROVE  BoolType'
  BY <1>3 DEF LaunchFails, Return, SignalStop, agentVars, procVars, Nil
<1>4. ASSUME NEW t \in Caller, StartupFails(t)
       PROVE  BoolType'
  BY <1>4
     DEF StartupFails, Cleanup, Return, SignalStop, StopProcess, agentVars,
         Nil, Terminate, StopKills, CloseKills
<1>5. ASSUME NEW t \in Caller, Started(t)
       PROVE  BoolType'
  BY <1>5 DEF Started, At, NotifierAt, Return, boundVars, procVars, Nil
<1>6. ASSUME NEW t \in Caller, StopLocked(t)
       PROVE  BoolType'
  BY <1>6
     DEF StopLocked, Empty, Goto, SignalStop, agentVars, boundVars, procVars,
         Nil
<1>7. ASSUME NEW t \in Caller, Stopped(t)
       PROVE  BoolType'
  BY <1>7
     DEF Stopped, Cleanup, Goto, Return, StopProcess, agentVars, boundVars,
         Nil, Terminate, StopKills, CloseKills
<1>8. ASSUME NEW a \in Agent, ExitCleanup(a)
       PROVE  BoolType'
  BY <1>8
     DEF ExitCleanup, Cleanup, CloseKills, Empty, Resume, SignalStop,
         boundVars, callVars, managerVars, Nil, At, Poller
<1> HIDE DEF BoolType
<1>9. QED
  <2>1. \/ UNCHANGED <<isRunning, monitoring>>
        \/ \E t \in Caller : StartLocked(t)
        \/ \E t \in Caller : LaunchFails(t)
        \/ \E t \in Caller : StartupFails(t)
        \/ \E t \in Caller : Started(t)
        \/ \E t \in Caller : StopLocked(t)
        \/ \E t \in Caller : Stopped(t)
        \/ \E a \in Agent : ExitCleanup(a)
    BY DEF Next, ManagerStep, CallStep, ExitStep, MonitorStep, PollStep,
           NotifierStep, CoreStep, vars, managerVars, agentVars, procVars,
           callVars, boundVars, Begin, StartRefused, Launched, Goto,
           StopNothing, TakeoverLook, TakeoverMiss, TakeoverFound,
           TakeoverUnsecured, TakeoverAdopt, StartPolling, ProcessDone,
           CheckCmd, NotifyReceive, NotifyStop, NotifyLook, NotifyProbe,
           NotifyAdopt, PollTick, PollCheck, PollStop, CoreExits,
           CoreRestartsItself, PostUp
  <2>2. QED
    BY <2>1, <1>1, <1>2, <1>3, <1>4, <1>5, <1>6, <1>7, <1>8

\* A call is at one of its steps.
LEMMA CallTypeStep ==
  ASSUME CallType, [Next]_vars
  PROVE  CallType'
<1> USE ConstantsAssumption DEF CallType, CallPc
<1>1. CASE UNCHANGED <<mutex, call, result>>
  BY <1>1
<1>2. ASSUME NEW t \in Caller, NEW op \in {"start", "stop", "restart"}, Begin(t, op)
       PROVE  CallType'
  BY <1>2 DEF Begin, PendingStarts, agentVars, managerVars, procVars
<1>3. ASSUME NEW t \in Caller, StartRefused(t)
       PROVE  CallType'
  BY <1>3
     DEF StartRefused, Return, agentVars, boundVars, managerVars, procVars
<1>4. ASSUME NEW t \in Caller, StartLocked(t)
       PROVE  CallType'
  BY <1>4 DEF StartLocked, Goto, agentVars, procVars
<1>5. ASSUME NEW t \in Caller, LaunchFails(t)
       PROVE  CallType'
  BY <1>5 DEF LaunchFails, Return, SignalStop, agentVars, procVars, Nil
<1>6. ASSUME NEW t \in Caller, Launched(t)
       PROVE  CallType'
  BY <1>6 DEF Launched, Goto, agentVars, boundVars
<1>7. ASSUME NEW t \in Caller, StartupFails(t)
       PROVE  CallType'
  BY <1>7
     DEF StartupFails, Cleanup, Return, SignalStop, StopProcess, agentVars,
         Nil, Terminate, StopKills, CloseKills
<1>8. ASSUME NEW t \in Caller, Started(t)
       PROVE  CallType'
  BY <1>8 DEF Started, At, NotifierAt, Return, boundVars, procVars, Nil
<1>9. ASSUME NEW t \in Caller, StopNothing(t)
       PROVE  CallType'
  BY <1>9
     DEF StopNothing, Empty, Goto, Return, agentVars, boundVars, managerVars,
         procVars, Nil
<1>10. ASSUME NEW t \in Caller, StopLocked(t)
        PROVE  CallType'
  BY <1>10
     DEF StopLocked, Empty, Goto, SignalStop, agentVars, boundVars, procVars,
         Nil
<1>11. ASSUME NEW t \in Caller, Stopped(t)
        PROVE  CallType'
  BY <1>11
     DEF Stopped, Cleanup, Goto, Return, StopProcess, agentVars, boundVars,
         Nil, Terminate, StopKills, CloseKills
<1> HIDE DEF CallType, CallPc
<1>12. QED
  <2>1. \/ UNCHANGED <<mutex, call, result>>
        \/ \E t \in Caller, op \in {"start", "stop", "restart"} : Begin(t, op)
        \/ \E t \in Caller : StartRefused(t)
        \/ \E t \in Caller : StartLocked(t)
        \/ \E t \in Caller : LaunchFails(t)
        \/ \E t \in Caller : Launched(t)
        \/ \E t \in Caller : StartupFails(t)
        \/ \E t \in Caller : Started(t)
        \/ \E t \in Caller : StopNothing(t)
        \/ \E t \in Caller : StopLocked(t)
        \/ \E t \in Caller : Stopped(t)
    BY ZenonT(60) DEF Next, ManagerStep, CallStep, ExitStep, MonitorStep, PollStep,
           NotifierStep, CoreStep, vars, managerVars, agentVars, procVars,
           callVars, boundVars, TakeoverLook, TakeoverMiss, TakeoverFound,
           TakeoverUnsecured, TakeoverAdopt, StartPolling, ExitCleanup,
           ProcessDone, CheckCmd, NotifyReceive, NotifyStop, NotifyLook,
           NotifyProbe, NotifyAdopt, PollTick, PollCheck, PollStop, CoreExits,
           CoreRestartsItself, PostUp
  <2>2. QED
    BY <2>1, <1>1, <1>2, <1>3, <1>4, <1>5, <1>6, <1>7, <1>8, <1>9, <1>10,
       <1>11

\* The manager's fields name sessions.
LEMMA FieldTypeStep ==
  ASSUME FieldType, SessionCount, HolderKnows, CallType, SessionCount',
         [Next]_vars
  PROVE  FieldType'
<1> USE ConstantsAssumption DEF FieldType, SessionCount, HolderKnows,
        CallType, Session, Nil, Nothing, CallPc, Empty
<1>1. CASE UNCHANGED <<cmd, controller, launch, stopChan, closed, cleaned,
                        pollChan>>
  BY <1>1
<1>2. ASSUME NEW t \in Caller, StartLocked(t)
       PROVE  FieldType'
  BY <1>2 DEF StartLocked, Goto, agentVars, procVars
<1>3. ASSUME NEW t \in Caller, LaunchFails(t)
       PROVE  FieldType'
  BY <1>3 DEF LaunchFails, Return, SignalStop, agentVars, procVars
<1>4. ASSUME NEW t \in Caller, Launched(t)
       PROVE  FieldType'
  BY <1>4 DEF Launched, Goto, agentVars, boundVars
<1>5. ASSUME NEW t \in Caller, StartupFails(t)
       PROVE  FieldType'
  BY <1>5
     DEF StartupFails, Cleanup, Return, SignalStop, StopProcess, agentVars,
         Terminate, StopKills, CloseKills
<1>6. ASSUME NEW t \in Caller, StopLocked(t)
       PROVE  FieldType'
  BY <1>6 DEF StopLocked, Goto, SignalStop, agentVars, boundVars, procVars
<1>7. ASSUME NEW t \in Caller, Stopped(t)
       PROVE  FieldType'
  BY <1>7
     DEF Stopped, Cleanup, Goto, Return, StopProcess, agentVars, boundVars,
         Terminate, StopKills, CloseKills
<1>8. ASSUME NEW a \in Agent, TakeoverAdopt(a)
       PROVE  FieldType'
  BY <1>8
     DEF TakeoverAdopt, At, Resume, StartPolling, boundVars, callVars,
         procVars, Poller
<1>9. ASSUME NEW a \in Agent, ExitCleanup(a)
       PROVE  FieldType'
  <2>1. CASE UNCHANGED <<managerVars, alive, owes>>
    BY <1>9, <2>1 DEF ExitCleanup, managerVars
  <2>2. CASE /\ SignalStop /\ Cleanup
             /\ alive' = alive \ CloseKills(controller)
             /\ owes' = owes \ CloseKills(controller)
    <3>1. UNCHANGED <<born, job, stuck, pollChan>>
      BY <1>9 DEF ExitCleanup
    <3>2. QED
      BY <2>2, <3>1 DEF Cleanup, SignalStop, Nil
  <2>3. QED
    BY <1>9, <2>1, <2>2, ExitCleanupCases
<1>10. ASSUME NEW s \in Session, NotifyAdopt(s)
        PROVE  FieldType'
  BY <1>10
     DEF NotifyAdopt, NotifierAt, StartPolling, boundVars, callVars, procVars,
         At, Poller
<1> HIDE DEF FieldType, SessionCount, HolderKnows, CallType, Session, Nil,
         Nothing, CallPc, Empty
<1>11. QED
  <2>1. \/ UNCHANGED <<cmd, controller, launch, stopChan, closed, cleaned,
                      pollChan>>
        \/ \E t \in Caller : StartLocked(t)
        \/ \E t \in Caller : LaunchFails(t)
        \/ \E t \in Caller : Launched(t)
        \/ \E t \in Caller : StartupFails(t)
        \/ \E t \in Caller : StopLocked(t)
        \/ \E t \in Caller : Stopped(t)
        \/ \E a \in Agent : TakeoverAdopt(a)
        \/ \E a \in Agent : ExitCleanup(a)
        \/ \E s \in Session : NotifyAdopt(s)
    BY ZenonT(60) DEF Next, ManagerStep, CallStep, ExitStep, MonitorStep, PollStep,
           NotifierStep, CoreStep, vars, managerVars, agentVars, procVars,
           callVars, boundVars, Begin, StartRefused, Started, StopNothing,
           Goto, TakeoverLook, TakeoverMiss, TakeoverFound, TakeoverUnsecured,
           ProcessDone, CheckCmd, NotifyReceive, NotifyStop, NotifyLook,
           NotifyProbe, PollTick, PollCheck, PollStop, CoreExits,
           CoreRestartsItself, PostUp
  <2>2. QED
    BY <2>1, <1>1, <1>2, <1>3, <1>4, <1>5, <1>6, <1>7, <1>8, <1>9, <1>10

\* Only processes that were created are known.
LEMMA ProcTypeStep ==
  ASSUME ProcType, AgentAdopts, NotifierAdopts, [Next]_vars
  PROVE  ProcType'
<1> USE ConstantsAssumption DEF ProcType, AgentAdopts, NotifierAdopts, Agent,
        Session, Poller
<1>1. CASE UNCHANGED <<pid, alive, born, owes, stuck>>
  BY <1>1
<1>2. ASSUME NEW t \in Caller, Launched(t)
       PROVE  ProcType'
  BY <1>2 DEF Launched, Goto, agentVars, boundVars
<1>3. ASSUME NEW t \in Caller, StartupFails(t)
       PROVE  ProcType'
  <2>1. alive' \subseteq 1..born /\ owes' \subseteq 1..born /\ stuck' \subseteq 1..born
    BY <1>3, StopProcessKeeps DEF StartupFails
  <2>2. QED
    BY <1>3, <2>1 DEF StartupFails, Cleanup
<1>4. ASSUME NEW t \in Caller, Stopped(t)
       PROVE  ProcType'
  <2>1. alive' \subseteq 1..born /\ owes' \subseteq 1..born /\ stuck' \subseteq 1..born
    BY <1>4, StopProcessKeeps DEF Stopped
  <2>2. QED
    BY <1>4, <2>1 DEF Stopped, Cleanup
<1>5. ASSUME NEW a \in Agent, TakeoverUnsecured(a)
       PROVE  ProcType'
  BY <1>5
     DEF TakeoverUnsecured, At, Candidates, Newest, Terminate, boundVars,
         callVars, managerVars, Nil, CloseKills, StopKills
<1>6. ASSUME NEW a \in Agent, TakeoverAdopt(a)
       PROVE  ProcType'
  BY <1>6
     DEF TakeoverAdopt, At, Nil, Resume, StartPolling, boundVars, callVars,
         procVars
<1>7. ASSUME NEW a \in Agent, ExitCleanup(a)
       PROVE  ProcType'
  <2>1. CASE UNCHANGED <<managerVars, alive, owes>>
    BY <1>7, <2>1 DEF ExitCleanup, managerVars
  <2>2. CASE /\ Cleanup
             /\ alive' = alive \ CloseKills(controller)
             /\ owes' = owes \ CloseKills(controller)
    <3>1. UNCHANGED <<born, stuck>> /\ pid' = 0
      BY <1>7, <2>2 DEF ExitCleanup, Cleanup
    <3>2. alive' \subseteq alive /\ owes' \subseteq owes
      BY <2>2
    <3>3. QED
      BY <3>1, <3>2
  <2>3. QED
    BY <1>7, <2>1, <2>2, ExitCleanupCases
<1>8. ASSUME NEW s \in Session, NotifyAdopt(s)
       PROVE  ProcType'
  BY <1>8
     DEF NotifyAdopt, Nil, NotifierAt, StartPolling, boundVars, callVars,
         procVars, At
<1>9. ASSUME NEW p \in Pid, CoreExits(p)
       PROVE  ProcType'
  BY <1>9 DEF CoreExits, agentVars, callVars, managerVars
<1>10. ASSUME NEW p \in Pid, CoreRestartsItself(p)
        PROVE  ProcType'
  BY <1>10 DEF CoreRestartsItself, agentVars, callVars, managerVars
<1>11. ASSUME NEW p \in Pid, PostUp(p)
        PROVE  ProcType'
  BY <1>11 DEF PostUp, boundVars, callVars, managerVars
<1> HIDE DEF ProcType, AgentAdopts, NotifierAdopts, Agent, Session, Poller
<1>12. QED
  <2>1. \/ UNCHANGED <<pid, alive, born, owes, stuck>>
        \/ \E t \in Caller : Launched(t)
        \/ \E t \in Caller : StartupFails(t)
        \/ \E t \in Caller : Stopped(t)
        \/ \E a \in Agent : TakeoverUnsecured(a)
        \/ \E a \in Agent : TakeoverAdopt(a)
        \/ \E a \in Agent : ExitCleanup(a)
        \/ \E s \in Session : NotifyAdopt(s)
        \/ \E p \in Pid : CoreExits(p)
        \/ \E p \in Pid : CoreRestartsItself(p)
        \/ \E p \in Pid : PostUp(p)
    BY ZenonT(60) DEF Next, ManagerStep, CallStep, ExitStep, MonitorStep, PollStep,
           NotifierStep, CoreStep, vars, managerVars, agentVars, procVars,
           callVars, boundVars, Begin, StartRefused, StartLocked, Goto,
           LaunchFails, Started, StopNothing, StopLocked, TakeoverLook,
           TakeoverMiss, TakeoverFound, ProcessDone, CheckCmd, NotifyReceive,
           NotifyStop, NotifyLook, NotifyProbe, PollTick, PollCheck, PollStop
  <2>2. QED
    BY <2>1, <1>1, <1>2, <1>3, <1>4, <1>5, <1>6, <1>7, <1>8, <1>9, <1>10,
       <1>11

\* Every process is in the job or group of a session.
LEMMA JobTypeStep ==
  ASSUME JobType, ProcType, SessionCount, HolderKnows, [Next]_vars
  PROVE  JobType'
<1> USE ConstantsAssumption DEF JobType, ProcType, SessionCount, HolderKnows,
        Nil, Pid, Session, Nothing, Empty
<1>1. CASE UNCHANGED <<born, job, leader>>
  BY <1>1
<1>2. ASSUME NEW t \in Caller, Launched(t)
       PROVE  JobType'
  BY <1>2 DEF Launched, Goto, agentVars, boundVars
<1>3. ASSUME NEW p \in Pid, CoreRestartsItself(p)
       PROVE  JobType'
  <2>1. p \in 1..born /\ job[p] \in 0..MaxSession /\ job[p] # Nil
    BY <1>3 DEF CoreRestartsItself
  <2>2. CASE born' = born + 1 /\ born < MaxPid /\ job' = [job EXCEPT ![born + 1] = job[p]]
    BY <1>3, <2>1, <2>2 DEF CoreRestartsItself
  <2>3. CASE UNCHANGED <<born, job>>
    BY <1>3, <2>3 DEF CoreRestartsItself
  <2>4. QED
    BY <1>3, <2>2, <2>3 DEF CoreRestartsItself
<1> HIDE DEF JobType, ProcType, SessionCount, HolderKnows, Nil, Pid, Session,
         Nothing, Empty
<1>4. QED
  <2>1. \/ UNCHANGED <<born, job, leader>>
        \/ \E t \in Caller : Launched(t)
        \/ \E p \in Pid : CoreRestartsItself(p)
    BY ZenonT(60) DEF Next, ManagerStep, CallStep, ExitStep, MonitorStep, PollStep,
           NotifierStep, CoreStep, vars, managerVars, agentVars, procVars,
           callVars, boundVars, Begin, StartRefused, StartLocked, Goto,
           LaunchFails, StartupFails, StopProcess, Started, StopNothing,
           StopLocked, Stopped, TakeoverLook, TakeoverMiss, TakeoverFound,
           TakeoverUnsecured, TakeoverAdopt, StartPolling, ExitCleanup,
           ProcessDone, CheckCmd, NotifyReceive, NotifyStop, NotifyLook,
           NotifyProbe, NotifyAdopt, PollTick, PollCheck, PollStop, CoreExits,
           PostUp
  <2>2. QED
    BY <2>1, <1>1, <1>2, <1>3

\* Exit handlers keep their fields, and give up after the grace period.
LEMMA AgentTypeStep ==
  ASSUME AgentType, ProcType, FieldType, JobType, [Next]_vars
  PROVE  AgentType'
<1> USE ConstantsAssumption DEF AgentType, ProcType, FieldType, JobType,
        Agent, Session, Nil, Pid, Poller
<1>1. CASE UNCHANGED agent
  BY <1>1
<1>2. ASSUME NEW t \in Caller, Started(t)
       PROVE  AgentType'
  <2>1. \E x \in GoodAgent : agent' = [agent EXCEPT ![launch] = x]
    BY <1>2, AgentAt DEF Started, AgentPc
  <2>2. QED
    BY <2>1
<1>3. ASSUME NEW a \in Agent, TakeoverLook(a)
       PROVE  AgentType'
  <2>1. agent[a] \in GoodAgent /\ agent[a].pc = "takeover"
    BY <1>3 DEF TakeoverLook
  <2>2. At("cleanup") \in GoodAgent
    BY AgentAt DEF AgentPc
  <2>3. [agent[a] EXCEPT !.pc = "probe", !.ctl = controller, !.old = pid,
                         !.tries = agent[a].tries + 1] \in GoodAgent
    <3>1. controller \in 0..MaxSession /\ pid \in 0..MaxPid
      OBVIOUS
    <3>2. QED
      BY <2>1, <3>1, AgentLooks
  <2>4. QED
    BY <1>3, <2>2, <2>3 DEF TakeoverLook
<1>4. ASSUME NEW a \in Agent, TakeoverMiss(a)
       PROVE  AgentType'
  <2>1. agent[a] \in GoodAgent
    BY <1>4
  <2>2. CASE agent' = [agent EXCEPT ![a] = At("cleanup")]
    BY <2>2, AgentAt DEF AgentPc
  <2>3. CASE /\ agent[a].tries < TakeoverTries
             /\ agent' = [agent EXCEPT ![a] = [At("takeover") EXCEPT !.tries = agent[a].tries]]
    BY <2>1, <2>3, AgentRetries
  <2>4. QED
    BY <1>4, <2>2, <2>3 DEF TakeoverMiss
<1>5. ASSUME NEW a \in Agent, TakeoverFound(a)
       PROVE  AgentType'
  <2> DEFINE q == Newest(Candidates(agent[a].ctl, agent[a].old))
  <2>1. agent[a] \in GoodAgent
    BY <1>5
  <2>2. q \in 0..MaxPid
    <3>1. q \in 1..born
      BY <1>5, CandidatesFound DEF TakeoverFound
    <3> HIDE DEF q
    <3>2. QED
      BY <3>1
  <2>3. agent' = [agent EXCEPT ![a] = [agent[a] EXCEPT !.pc = "adopt", !.new = q]]
    BY <1>5 DEF TakeoverFound
  <2> HIDE DEF q
  <2>4. [agent[a] EXCEPT !.pc = "adopt", !.new = q] \in GoodAgent
    BY <2>1, <2>2, AgentFinds
  <2>5. QED
    BY <2>3, <2>4
<1>6. ASSUME NEW a \in Agent, TakeoverUnsecured(a)
       PROVE  AgentType'
  <2>1. \E x \in GoodAgent : agent' = [agent EXCEPT ![a] = x]
    BY <1>6, AgentAt DEF TakeoverUnsecured, AgentPc
  <2>2. QED
    BY <2>1
<1>7. ASSUME NEW a \in Agent, TakeoverAdopt(a)
       PROVE  AgentType'
  <2>1. At("wait") \in GoodAgent /\ At("off") \in GoodAgent /\ At("cleanup") \in GoodAgent
    BY AgentAt DEF AgentPc
  <2>2. Resume(a) \in GoodAgent
    BY <2>1 DEF Resume
  <2> HIDE DEF Agent
  <2>3. [agent EXCEPT ![a] = Resume(a)] \in [Agent -> GoodAgent]
    BY <2>2
  <2>4. QED
    BY <1>7, <2>1, <2>3 DEF TakeoverAdopt, StartPolling
<1>8. ASSUME NEW a \in Agent, ExitCleanup(a)
       PROVE  AgentType'
  <2>1. \E x \in GoodAgent : agent' = [agent EXCEPT ![a] = x]
    BY <1>8, AgentAt DEF ExitCleanup, Resume, AgentPc
  <2>2. QED
    BY <2>1
<1>9. ASSUME NEW s \in Session, ProcessDone(s)
       PROVE  AgentType'
  <2>1. \E x \in GoodAgent : agent' = [agent EXCEPT ![s] = x]
    BY <1>9, AgentAt DEF ProcessDone, AgentPc
  <2>2. QED
    BY <2>1
<1>10. ASSUME NEW s \in Session, CheckCmd(s)
        PROVE  AgentType'
  <2>1. \E x \in GoodAgent : agent' = [agent EXCEPT ![s] = x]
    BY <1>10, AgentAt DEF CheckCmd, AgentPc
  <2>2. QED
    BY <2>1
<1>11. ASSUME NEW s \in Session, NotifyAdopt(s)
        PROVE  AgentType'
  <2>1. At("wait") \in GoodAgent
    BY AgentAt DEF AgentPc
  <2> HIDE DEF Agent
  <2>2. QED
    BY <1>11, <2>1 DEF NotifyAdopt, StartPolling
<1>12. CASE PollTick
  <2>1. At("off") \in GoodAgent /\ [At("lock") EXCEPT !.old = pid] \in GoodAgent
    <3>1. pid \in 0..MaxPid
      OBVIOUS
    <3>2. QED
      BY <3>1, AgentAt, AgentLocks DEF AgentPc
  <2>2. QED
    BY <1>12, <2>1 DEF PollTick
<1>13. CASE PollCheck
  <2>1. \E x \in GoodAgent : agent' = [agent EXCEPT ![Poller] = x]
    BY <1>13, AgentAt DEF PollCheck, AgentPc
  <2>2. QED
    BY <2>1
<1>14. CASE PollStop
  <2>1. \E x \in GoodAgent : agent' = [agent EXCEPT ![Poller] = x]
    BY <1>14, AgentAt DEF PollStop, AgentPc
  <2>2. QED
    BY <2>1
<1> HIDE DEF AgentType, ProcType, FieldType, JobType, Agent, Session, Nil,
         Pid, Poller
<1>15. QED
  <2>1. \/ UNCHANGED agent
        \/ \E t \in Caller : Started(t)
        \/ \E a \in Agent : TakeoverLook(a)
        \/ \E a \in Agent : TakeoverMiss(a)
        \/ \E a \in Agent : TakeoverFound(a)
        \/ \E a \in Agent : TakeoverUnsecured(a)
        \/ \E a \in Agent : TakeoverAdopt(a)
        \/ \E a \in Agent : ExitCleanup(a)
        \/ \E s \in Session : ProcessDone(s)
        \/ \E s \in Session : CheckCmd(s)
        \/ \E s \in Session : NotifyAdopt(s)
        \/ PollTick
        \/ PollCheck
        \/ PollStop
    BY DEF Next, ManagerStep, CallStep, ExitStep, MonitorStep, PollStep,
           NotifierStep, CoreStep, vars, managerVars, agentVars, procVars,
           callVars, boundVars, Begin, StartRefused, StartLocked, Goto,
           LaunchFails, Launched, StartupFails, StopProcess, StopNothing,
           StopLocked, Stopped, NotifyReceive, NotifyStop, NotifyLook,
           NotifyProbe, CoreExits, CoreRestartsItself, PostUp
  <2>2. QED
    BY <2>1, <1>1, <1>2, <1>3, <1>4, <1>5, <1>6, <1>7, <1>8, <1>9, <1>10,
       <1>11, <1>12, <1>13, <1>14

\* Notification handlers keep their fields.
LEMMA NotifierTypeStep ==
  ASSUME NotifierType, ProcType, FieldType, JobType, [Next]_vars
  PROVE  NotifierType'
<1> USE ConstantsAssumption DEF NotifierType, ProcType, FieldType, JobType,
        Session, Nil, Pid
<1>1. CASE UNCHANGED <<notifier, notify>>
  BY <1>1
<1>2. ASSUME NEW t \in Caller, Started(t)
       PROVE  NotifierType'
  <2>1. \E x \in NotifierState : notifier' = [notifier EXCEPT ![launch] = x]
    BY <1>2, NotifierIn DEF Started, NotifierPc
  <2>2. QED
    BY <1>2, <2>1 DEF Started
<1>3. ASSUME NEW s \in Session, NotifyReceive(s)
       PROVE  NotifierType'
  <2>1. NotifierAt("lock") \in NotifierState
    BY NotifierIn DEF NotifierPc
  <2>2. notifier' \in [Session -> NotifierState]
    BY <1>3, <2>1 DEF NotifyReceive
  <2>3. notify[s] - 1 \in 0..NotifyBuffer
    BY <1>3 DEF NotifyReceive
  <2>4. notify' \in [Session -> 0..NotifyBuffer]
    BY <1>3, <2>3 DEF NotifyReceive
  <2>5. QED
    BY <2>2, <2>4
<1>4. ASSUME NEW s \in Session, NotifyStop(s)
       PROVE  NotifierType'
  <2>1. \E x \in NotifierState : notifier' = [notifier EXCEPT ![s] = x]
    BY <1>4, NotifierIn DEF NotifyStop, NotifierPc
  <2>2. QED
    BY <1>4, <2>1 DEF NotifyStop
<1>5. ASSUME NEW s \in Session, NotifyLook(s)
       PROVE  NotifierType'
  <2>1. NotifierAt("wait") \in NotifierState
    BY NotifierIn DEF NotifierPc
  <2>2. [NotifierAt("probe") EXCEPT !.ctl = controller, !.old = pid] \in NotifierState
    <3>1. controller \in 0..MaxSession /\ pid \in 0..MaxPid
      OBVIOUS
    <3>2. NotifierAt("probe") \in NotifierState
      BY NotifierIn DEF NotifierPc
    <3>3. QED
      BY <3>1, <3>2, NotifierLooks
  <2>3. QED
    BY <1>5, <2>1, <2>2 DEF NotifyLook
<1>6. ASSUME NEW s \in Session, NotifyProbe(s)
       PROVE  NotifierType'
  <2> DEFINE found == Candidates(notifier[s].ctl, notifier[s].old)
             q == IF found = {} THEN notifier[s].old ELSE Newest(found)
  <2>1. notifier[s] \in NotifierState /\ notifier[s].old \in 0..MaxPid
    BY DEF NotifierState
  <2>2. q \in 0..MaxPid
    BY <2>1, CandidatesFound, SMTT(60)
  <2>3. notifier' = [notifier EXCEPT ![s] = [notifier[s] EXCEPT !.pc = "adopt", !.new = q]]
    BY <1>6 DEF NotifyProbe
  <2>4. notify' = notify
    BY <1>6 DEF NotifyProbe
  <2> HIDE DEF q
  <2>5. [notifier[s] EXCEPT !.pc = "adopt", !.new = q] \in NotifierState
    BY <2>1, <2>2, NotifierFinds
  <2>6. QED
    BY <2>3, <2>4, <2>5
<1>7. ASSUME NEW s \in Session, NotifyAdopt(s)
       PROVE  NotifierType'
  <2>1. \E x \in NotifierState : notifier' = [notifier EXCEPT ![s] = x]
    BY <1>7, NotifierIn DEF NotifyAdopt, NotifierPc
  <2>2. QED
    BY <1>7, <2>1 DEF NotifyAdopt
<1>8. ASSUME NEW p \in Pid, PostUp(p)
       PROVE  NotifierType'
  <2>1. notifier' = notifier
    BY <1>8 DEF PostUp
  <2>2. \A k \in 0..NotifyBuffer : (IF k < NotifyBuffer THEN k + 1 ELSE k) \in 0..NotifyBuffer
    OBVIOUS
  <2>3. notify' \in [Session -> 0..NotifyBuffer]
    BY <1>8, <2>2 DEF PostUp
  <2>4. QED
    BY <2>1, <2>3
<1> HIDE DEF NotifierType, ProcType, FieldType, JobType, Session, Nil, Pid
<1>9. QED
  <2>1. \/ UNCHANGED <<notifier, notify>>
        \/ \E t \in Caller : Started(t)
        \/ \E s \in Session : NotifyReceive(s)
        \/ \E s \in Session : NotifyStop(s)
        \/ \E s \in Session : NotifyLook(s)
        \/ \E s \in Session : NotifyProbe(s)
        \/ \E s \in Session : NotifyAdopt(s)
        \/ \E p \in Pid : PostUp(p)
    BY DEF Next, ManagerStep, CallStep, ExitStep, MonitorStep, PollStep,
           NotifierStep, CoreStep, vars, managerVars, agentVars, procVars,
           callVars, boundVars, Begin, StartRefused, StartLocked, Goto,
           LaunchFails, Launched, StartupFails, StopProcess, StopNothing,
           StopLocked, Stopped, TakeoverLook, TakeoverMiss, TakeoverFound,
           TakeoverUnsecured, TakeoverAdopt, StartPolling, ExitCleanup,
           ProcessDone, CheckCmd, PollTick, PollCheck, PollStop, CoreExits,
           CoreRestartsItself
  <2>2. QED
    BY <2>1, <1>1, <1>2, <1>3, <1>4, <1>5, <1>6, <1>7, <1>8

\* The budgets are kept.
LEMMA BudgetTypeStep ==
  ASSUME BudgetType, [Next]_vars
  PROVE  BudgetType'
<1> USE ConstantsAssumption DEF BudgetType
<1>1. CASE UNCHANGED <<exits, stops, failures>>
  BY <1>1
<1>2. ASSUME NEW t \in Caller, NEW op \in {"start", "stop", "restart"}, Begin(t, op)
       PROVE  BudgetType'
  BY <1>2 DEF Begin, PendingStarts, agentVars, managerVars, procVars
<1>3. ASSUME NEW t \in Caller, LaunchFails(t)
       PROVE  BudgetType'
  BY <1>3 DEF LaunchFails, Return, SignalStop, agentVars, procVars, Nil
<1>4. ASSUME NEW t \in Caller, StartupFails(t)
       PROVE  BudgetType'
  BY <1>4
     DEF StartupFails, Cleanup, Return, SignalStop, StopProcess, agentVars,
         Nil, Terminate, StopKills, CloseKills
<1>5. ASSUME NEW p \in Pid, CoreExits(p)
       PROVE  BudgetType'
  BY <1>5 DEF CoreExits, agentVars, callVars, managerVars
<1>6. ASSUME NEW p \in Pid, CoreRestartsItself(p)
       PROVE  BudgetType'
  BY <1>6 DEF CoreRestartsItself, agentVars, callVars, managerVars
<1> HIDE DEF BudgetType
<1>7. QED
  <2>1. \/ UNCHANGED <<exits, stops, failures>>
        \/ \E t \in Caller, op \in {"start", "stop", "restart"} : Begin(t, op)
        \/ \E t \in Caller : LaunchFails(t)
        \/ \E t \in Caller : StartupFails(t)
        \/ \E p \in Pid : CoreExits(p)
        \/ \E p \in Pid : CoreRestartsItself(p)
    BY ZenonT(60) DEF Next, ManagerStep, CallStep, ExitStep, MonitorStep, PollStep,
           NotifierStep, CoreStep, vars, managerVars, agentVars, procVars,
           callVars, boundVars, StartRefused, StartLocked, Goto, Launched,
           Started, StopNothing, StopLocked, Stopped, StopProcess,
           TakeoverLook, TakeoverMiss, TakeoverFound, TakeoverUnsecured,
           TakeoverAdopt, StartPolling, ExitCleanup, ProcessDone, CheckCmd,
           NotifyReceive, NotifyStop, NotifyLook, NotifyProbe, NotifyAdopt,
           PollTick, PollCheck, PollStop, PostUp
  <2>2. QED
    BY <2>1, <1>1, <1>2, <1>3, <1>4, <1>5, <1>6

\* The mutex is taken at the first step of a critical section and released at
\* its last.
LEMMA HolderInsideStep ==
  ASSUME HolderInside, CallType, [Next]_vars
  PROVE  HolderInside'
<1> USE ConstantsAssumption DEF HolderInside, CallType, Holding, CallPc
<1>1. CASE UNCHANGED <<mutex, call>>
  BY <1>1
<1>2. ASSUME NEW t \in Caller, NEW op \in {"start", "stop", "restart"}, Begin(t, op)
       PROVE  HolderInside'
  BY <1>2 DEF Begin, PendingStarts, agentVars, managerVars, procVars
<1>3. ASSUME NEW t \in Caller, StartRefused(t)
       PROVE  HolderInside'
  BY <1>3
     DEF StartRefused, Return, agentVars, boundVars, managerVars, procVars
<1>4. ASSUME NEW t \in Caller, StartLocked(t)
       PROVE  HolderInside'
  BY <1>4 DEF StartLocked, Goto, agentVars, procVars
<1>5. ASSUME NEW t \in Caller, LaunchFails(t)
       PROVE  HolderInside'
  BY <1>5 DEF LaunchFails, Return, SignalStop, agentVars, procVars, Nil
<1>6. ASSUME NEW t \in Caller, Launched(t)
       PROVE  HolderInside'
  BY <1>6 DEF Launched, Goto, agentVars, boundVars
<1>7. ASSUME NEW t \in Caller, StartupFails(t)
       PROVE  HolderInside'
  BY <1>7
     DEF StartupFails, Cleanup, Return, SignalStop, StopProcess, agentVars,
         Nil, Terminate, StopKills, CloseKills
<1>8. ASSUME NEW t \in Caller, Started(t)
       PROVE  HolderInside'
  BY <1>8 DEF Started, At, NotifierAt, Return, boundVars, procVars, Nil
<1>9. ASSUME NEW t \in Caller, StopNothing(t)
       PROVE  HolderInside'
  BY <1>9
     DEF StopNothing, Empty, Goto, Return, agentVars, boundVars, managerVars,
         procVars, Nil
<1>10. ASSUME NEW t \in Caller, StopLocked(t)
        PROVE  HolderInside'
  BY <1>10
     DEF StopLocked, Empty, Goto, SignalStop, agentVars, boundVars, procVars,
         Nil
<1>11. ASSUME NEW t \in Caller, Stopped(t)
        PROVE  HolderInside'
  BY <1>11
     DEF Stopped, Cleanup, Goto, Return, StopProcess, agentVars, boundVars,
         Nil, Terminate, StopKills, CloseKills
<1> HIDE DEF HolderInside, CallType, Holding, CallPc
<1>12. QED
  <2>1. \/ UNCHANGED <<mutex, call>>
        \/ \E t \in Caller, op \in {"start", "stop", "restart"} : Begin(t, op)
        \/ \E t \in Caller : StartRefused(t)
        \/ \E t \in Caller : StartLocked(t)
        \/ \E t \in Caller : LaunchFails(t)
        \/ \E t \in Caller : Launched(t)
        \/ \E t \in Caller : StartupFails(t)
        \/ \E t \in Caller : Started(t)
        \/ \E t \in Caller : StopNothing(t)
        \/ \E t \in Caller : StopLocked(t)
        \/ \E t \in Caller : Stopped(t)
    BY DEF Next, ManagerStep, CallStep, ExitStep, MonitorStep, PollStep,
           NotifierStep, CoreStep, vars, managerVars, agentVars, procVars,
           callVars, boundVars, TakeoverLook, TakeoverMiss, TakeoverFound,
           TakeoverUnsecured, TakeoverAdopt, StartPolling, ExitCleanup,
           ProcessDone, CheckCmd, NotifyReceive, NotifyStop, NotifyLook,
           NotifyProbe, NotifyAdopt, PollTick, PollCheck, PollStop, CoreExits,
           CoreRestartsItself, PostUp
  <2>2. QED
    BY <2>1, <1>1, <1>2, <1>3, <1>4, <1>5, <1>6, <1>7, <1>8, <1>9, <1>10,
       <1>11

\* A call that holds the mutex finds the fields as its last step left them: no
\* handler changes them.
LEMMA HolderKnowsStep ==
  ASSUME HolderKnows, HolderInside, CallType, SessionCoherent, SessionCount,
         BoolType, [Next]_vars
  PROVE  HolderKnows'
<1> USE ConstantsAssumption DEF HolderKnows, HolderInside, CallType,
        SessionCoherent, SessionCount, BoolType, Nil, Nothing, Holding,
        CallPc, Empty
<1>1. CASE UNCHANGED <<isRunning, monitoring, pid, cmd, controller, launch,
                        stopChan, call, sessions>>
  BY <1>1
<1>2. ASSUME NEW t \in Caller, NEW op \in {"start", "stop", "restart"}, Begin(t, op)
       PROVE  HolderKnows'
  BY <1>2 DEF Begin, PendingStarts, agentVars, managerVars, procVars
<1>3. ASSUME NEW t \in Caller, StartRefused(t)
       PROVE  HolderKnows'
  BY <1>3
     DEF StartRefused, Return, agentVars, boundVars, managerVars, procVars
<1>4. ASSUME NEW t \in Caller, StartLocked(t)
       PROVE  HolderKnows'
  BY <1>4 DEF StartLocked, Goto, agentVars, procVars
<1>5. ASSUME NEW t \in Caller, LaunchFails(t)
       PROVE  HolderKnows'
  BY <1>5 DEF LaunchFails, Return, SignalStop, agentVars, procVars
<1>6. ASSUME NEW t \in Caller, Launched(t)
       PROVE  HolderKnows'
  BY <1>6 DEF Launched, Goto, agentVars, boundVars
<1>7. ASSUME NEW t \in Caller, StartupFails(t)
       PROVE  HolderKnows'
  BY <1>7
     DEF StartupFails, Cleanup, Return, SignalStop, StopProcess, agentVars,
         Terminate, StopKills, CloseKills
<1>8. ASSUME NEW t \in Caller, Started(t)
       PROVE  HolderKnows'
  BY <1>8 DEF Started, At, NotifierAt, Return, boundVars, procVars
<1>9. ASSUME NEW t \in Caller, StopNothing(t)
       PROVE  HolderKnows'
  BY <1>9
     DEF StopNothing, Goto, Return, agentVars, boundVars, managerVars,
         procVars
<1>10. ASSUME NEW t \in Caller, StopLocked(t)
        PROVE  HolderKnows'
  BY <1>10 DEF StopLocked, Goto, SignalStop, agentVars, boundVars, procVars
<1>11. ASSUME NEW t \in Caller, Stopped(t)
        PROVE  HolderKnows'
  BY <1>11
     DEF Stopped, Cleanup, Goto, Return, StopProcess, agentVars, boundVars,
         Terminate, StopKills, CloseKills
<1>12. ASSUME NEW a \in Agent, TakeoverAdopt(a)
        PROVE  HolderKnows'
  BY <1>12
     DEF TakeoverAdopt, At, Resume, StartPolling, boundVars, callVars,
         procVars, Poller
<1>13. ASSUME NEW a \in Agent, ExitCleanup(a)
        PROVE  HolderKnows'
  BY <1>13
     DEF ExitCleanup, Cleanup, CloseKills, Resume, SignalStop, boundVars,
         callVars, managerVars, At, Poller
<1>14. ASSUME NEW s \in Session, NotifyAdopt(s)
        PROVE  HolderKnows'
  BY <1>14
     DEF NotifyAdopt, NotifierAt, StartPolling, boundVars, callVars, procVars,
         At, Poller
<1> HIDE DEF HolderKnows, HolderInside, CallType, SessionCoherent,
         SessionCount, BoolType, Nil, Nothing, Holding, CallPc, Empty
<1>15. QED
  <2>1. \/ UNCHANGED <<isRunning, monitoring, pid, cmd, controller, launch,
                      stopChan, call, sessions>>
        \/ \E t \in Caller, op \in {"start", "stop", "restart"} : Begin(t, op)
        \/ \E t \in Caller : StartRefused(t)
        \/ \E t \in Caller : StartLocked(t)
        \/ \E t \in Caller : LaunchFails(t)
        \/ \E t \in Caller : Launched(t)
        \/ \E t \in Caller : StartupFails(t)
        \/ \E t \in Caller : Started(t)
        \/ \E t \in Caller : StopNothing(t)
        \/ \E t \in Caller : StopLocked(t)
        \/ \E t \in Caller : Stopped(t)
        \/ \E a \in Agent : TakeoverAdopt(a)
        \/ \E a \in Agent : ExitCleanup(a)
        \/ \E s \in Session : NotifyAdopt(s)
    BY ZenonT(60) DEF Next, ManagerStep, CallStep, ExitStep, MonitorStep, PollStep,
           NotifierStep, CoreStep, vars, managerVars, agentVars, procVars,
           callVars, boundVars, TakeoverLook, TakeoverMiss, TakeoverFound,
           TakeoverUnsecured, ProcessDone, CheckCmd, NotifyReceive,
           NotifyStop, NotifyLook, NotifyProbe, PollTick, PollCheck, PollStop,
           CoreExits, CoreRestartsItself, PostUp
  <2>2. QED
    BY <2>1, <1>1, <1>2, <1>3, <1>4, <1>5, <1>6, <1>7, <1>8, <1>9, <1>10,
       <1>11, <1>12, <1>13, <1>14

\* Every critical section leaves the fields coherent.
LEMMA SessionCoherentStep ==
  ASSUME SessionCoherent, HolderKnows, HolderInside, CallType, SessionCount,
         BoolType, FieldType, [Next]_vars
  PROVE  SessionCoherent'
<1> USE ConstantsAssumption DEF SessionCoherent, HolderKnows, HolderInside,
        CallType, SessionCount, BoolType, FieldType, Empty, Nil, Nothing,
        Holding, CallPc, Session
<1>1. CASE UNCHANGED <<mutex, isRunning, monitoring, pid, cmd, controller,
                        launch, stopChan>>
  BY <1>1
<1>2. ASSUME NEW t \in Caller, StartLocked(t)
       PROVE  SessionCoherent'
  BY <1>2 DEF StartLocked, Goto, agentVars, procVars
<1>3. ASSUME NEW t \in Caller, LaunchFails(t)
       PROVE  SessionCoherent'
  BY <1>3 DEF LaunchFails, Return, SignalStop, agentVars, procVars
<1>4. ASSUME NEW t \in Caller, Launched(t)
       PROVE  SessionCoherent'
  BY <1>4 DEF Launched, Goto, agentVars, boundVars
<1>5. ASSUME NEW t \in Caller, StartupFails(t)
       PROVE  SessionCoherent'
  BY <1>5
     DEF StartupFails, Cleanup, Return, SignalStop, StopProcess, agentVars,
         Terminate, StopKills, CloseKills
<1>6. ASSUME NEW t \in Caller, Started(t)
       PROVE  SessionCoherent'
  BY <1>6 DEF Started, At, NotifierAt, Return, boundVars, procVars
<1>7. ASSUME NEW t \in Caller, StopNothing(t)
       PROVE  SessionCoherent'
  BY <1>7
     DEF StopNothing, Goto, Return, agentVars, boundVars, managerVars,
         procVars
<1>8. ASSUME NEW t \in Caller, StopLocked(t)
       PROVE  SessionCoherent'
  BY <1>8 DEF StopLocked, Goto, SignalStop, agentVars, boundVars, procVars
<1>9. ASSUME NEW t \in Caller, Stopped(t)
       PROVE  SessionCoherent'
  BY <1>9
     DEF Stopped, Cleanup, Goto, Return, StopProcess, agentVars, boundVars,
         Terminate, StopKills, CloseKills
<1>10. ASSUME NEW a \in Agent, TakeoverAdopt(a)
        PROVE  SessionCoherent'
  BY <1>10
     DEF TakeoverAdopt, At, Resume, StartPolling, boundVars, callVars,
         procVars, Poller
<1>11. ASSUME NEW a \in Agent, ExitCleanup(a)
        PROVE  SessionCoherent'
  BY <1>11
     DEF ExitCleanup, Cleanup, CloseKills, Resume, SignalStop, boundVars,
         callVars, managerVars, At, Poller
<1>12. ASSUME NEW s \in Session, NotifyAdopt(s)
        PROVE  SessionCoherent'
  BY <1>12
     DEF NotifyAdopt, NotifierAt, StartPolling, boundVars, callVars, procVars,
         At, Poller
<1> HIDE DEF SessionCoherent, HolderKnows, HolderInside, CallType,
         SessionCount, BoolType, FieldType, Empty, Nil, Nothing, Holding,
         CallPc, Session
<1>13. QED
  <2>1. \/ UNCHANGED <<mutex, isRunning, monitoring, pid, cmd, controller,
                      launch, stopChan>>
        \/ \E t \in Caller : StartLocked(t)
        \/ \E t \in Caller : LaunchFails(t)
        \/ \E t \in Caller : Launched(t)
        \/ \E t \in Caller : StartupFails(t)
        \/ \E t \in Caller : Started(t)
        \/ \E t \in Caller : StopNothing(t)
        \/ \E t \in Caller : StopLocked(t)
        \/ \E t \in Caller : Stopped(t)
        \/ \E a \in Agent : TakeoverAdopt(a)
        \/ \E a \in Agent : ExitCleanup(a)
        \/ \E s \in Session : NotifyAdopt(s)
    BY ZenonT(60) DEF Next, ManagerStep, CallStep, ExitStep, MonitorStep, PollStep,
           NotifierStep, CoreStep, vars, managerVars, agentVars, procVars,
           callVars, boundVars, Begin, StartRefused, TakeoverLook,
           TakeoverMiss, TakeoverFound, TakeoverUnsecured, ProcessDone,
           CheckCmd, NotifyReceive, NotifyStop, NotifyLook, NotifyProbe,
           PollTick, PollCheck, PollStop, CoreExits, CoreRestartsItself,
           PostUp
  <2>2. QED
    BY <2>1, <1>1, <1>2, <1>3, <1>4, <1>5, <1>6, <1>7, <1>8, <1>9, <1>10,
       <1>11, <1>12

\* Process and controller come and go together.
LEMMA PidWithControllerStep ==
  ASSUME PidWithController, HolderKnows, CallType, AgentAdopts,
         NotifierAdopts, JobType, ProcType, SessionCount, [Next]_vars
  PROVE  PidWithController'
<1> USE ConstantsAssumption DEF PidWithController, HolderKnows, CallType,
        AgentAdopts, NotifierAdopts, JobType, ProcType, SessionCount, Nil,
        Nothing, CallPc, Agent, Session, Pid, Empty, Poller
<1>1. CASE UNCHANGED <<pid, controller>>
  BY <1>1
<1>2. ASSUME NEW t \in Caller, Launched(t)
       PROVE  PidWithController'
  BY <1>2 DEF Launched, Goto, agentVars, boundVars
<1>3. ASSUME NEW t \in Caller, StartupFails(t)
       PROVE  PidWithController'
  BY <1>3
     DEF StartupFails, Cleanup, Return, SignalStop, StopProcess, agentVars,
         Terminate, StopKills, CloseKills
<1>4. ASSUME NEW t \in Caller, Stopped(t)
       PROVE  PidWithController'
  BY <1>4
     DEF Stopped, Cleanup, Goto, Return, StopProcess, agentVars, boundVars,
         Terminate, StopKills, CloseKills
<1>5. ASSUME NEW a \in Agent, TakeoverAdopt(a)
       PROVE  PidWithController'
  BY <1>5, SMTT(60)
     DEF TakeoverAdopt, At, Resume, StartPolling, boundVars, callVars,
         procVars
<1>6. ASSUME NEW a \in Agent, ExitCleanup(a)
       PROVE  PidWithController'
  BY <1>6
     DEF ExitCleanup, Cleanup, CloseKills, Resume, SignalStop, boundVars,
         callVars, managerVars, At
<1>7. ASSUME NEW s \in Session, NotifyAdopt(s)
       PROVE  PidWithController'
  <2>1. CASE /\ controller = notifier[s].ctl /\ pid' = notifier[s].new
             /\ notifier[s].new # notifier[s].old
    <3>1. notifier[s].pc = "adopt" /\ controller' = controller
      BY <1>7 DEF NotifyAdopt
    <3>2. notifier[s].new \in 1..born /\ job[notifier[s].new] = controller
      BY <2>1, <3>1
    <3>3. QED
      BY <2>1, <3>1, <3>2, SMTT(60)
  <2>2. CASE UNCHANGED pid
    BY <1>7, <2>2 DEF NotifyAdopt
  <2>3. QED
    BY <1>7, <2>1, <2>2 DEF NotifyAdopt
<1> HIDE DEF PidWithController, HolderKnows, CallType, AgentAdopts,
         NotifierAdopts, JobType, ProcType, SessionCount, Nil, Nothing,
         CallPc, Agent, Session, Pid, Empty, Poller
<1>8. QED
  <2>1. \/ UNCHANGED <<pid, controller>>
        \/ \E t \in Caller : Launched(t)
        \/ \E t \in Caller : StartupFails(t)
        \/ \E t \in Caller : Stopped(t)
        \/ \E a \in Agent : TakeoverAdopt(a)
        \/ \E a \in Agent : ExitCleanup(a)
        \/ \E s \in Session : NotifyAdopt(s)
    BY DEF Next, ManagerStep, CallStep, ExitStep, MonitorStep, PollStep,
           NotifierStep, CoreStep, vars, managerVars, agentVars, procVars,
           callVars, boundVars, Begin, StartRefused, StartLocked, Goto,
           LaunchFails, Started, StopNothing, StopLocked, TakeoverLook,
           TakeoverMiss, TakeoverFound, TakeoverUnsecured, ProcessDone,
           CheckCmd, NotifyReceive, NotifyStop, NotifyLook, NotifyProbe,
           PollTick, PollCheck, PollStop, CoreExits, CoreRestartsItself,
           PostUp
  <2>2. QED
    BY <2>1, <1>1, <1>2, <1>3, <1>4, <1>5, <1>6, <1>7

\* Every way out of a session closes its channel and releases its resources.
LEMMA SessionsOverStep ==
  ASSUME SessionsOver, HolderKnows, HolderInside, SessionCoherent, CallType,
         FieldType, SessionCount, [Next]_vars
  PROVE  SessionsOver'
<1> USE ConstantsAssumption DEF SessionsOver, HolderKnows, HolderInside,
        SessionCoherent, CallType, FieldType, SessionCount, Nil, Nothing,
        Holding, Empty, CallPc, Session
<1>1. CASE UNCHANGED <<launch, stopChan, closed, cleaned, call, sessions>>
  BY <1>1
<1>2. ASSUME NEW t \in Caller, NEW op \in {"start", "stop", "restart"}, Begin(t, op)
       PROVE  SessionsOver'
  BY <1>2 DEF Begin, PendingStarts, agentVars, managerVars, procVars
<1>3. ASSUME NEW t \in Caller, StartRefused(t)
       PROVE  SessionsOver'
  BY <1>3
     DEF StartRefused, Return, agentVars, boundVars, managerVars, procVars
<1>4. ASSUME NEW t \in Caller, StartLocked(t)
       PROVE  SessionsOver'
  BY <1>4 DEF StartLocked, Goto, agentVars, procVars
<1>5. ASSUME NEW t \in Caller, LaunchFails(t)
       PROVE  SessionsOver'
  BY <1>5 DEF LaunchFails, Return, SignalStop, agentVars, procVars
<1>6. ASSUME NEW t \in Caller, Launched(t)
       PROVE  SessionsOver'
  BY <1>6 DEF Launched, Goto, agentVars, boundVars
<1>7. ASSUME NEW t \in Caller, StartupFails(t)
       PROVE  SessionsOver'
  BY <1>7
     DEF StartupFails, Cleanup, Return, SignalStop, StopProcess, agentVars,
         Terminate, StopKills, CloseKills
<1>8. ASSUME NEW t \in Caller, Started(t)
       PROVE  SessionsOver'
  BY <1>8 DEF Started, At, NotifierAt, Return, boundVars, procVars
<1>9. ASSUME NEW t \in Caller, StopNothing(t)
       PROVE  SessionsOver'
  BY <1>9
     DEF StopNothing, Goto, Return, agentVars, boundVars, managerVars,
         procVars
<1>10. ASSUME NEW t \in Caller, StopLocked(t)
        PROVE  SessionsOver'
  BY <1>10 DEF StopLocked, Goto, SignalStop, agentVars, boundVars, procVars
<1>11. ASSUME NEW t \in Caller, Stopped(t)
        PROVE  SessionsOver'
  BY <1>11
     DEF Stopped, Cleanup, Goto, Return, StopProcess, agentVars, boundVars,
         Terminate, StopKills, CloseKills
<1>12. ASSUME NEW a \in Agent, ExitCleanup(a)
        PROVE  SessionsOver'
  BY <1>12
     DEF ExitCleanup, Cleanup, CloseKills, Resume, SignalStop, boundVars,
         callVars, managerVars, At, Poller
<1> HIDE DEF SessionsOver, HolderKnows, HolderInside, SessionCoherent,
         CallType, FieldType, SessionCount, Nil, Nothing, Holding, Empty,
         CallPc, Session
<1>13. QED
  <2>1. \/ UNCHANGED <<launch, stopChan, closed, cleaned, call, sessions>>
        \/ \E t \in Caller, op \in {"start", "stop", "restart"} : Begin(t, op)
        \/ \E t \in Caller : StartRefused(t)
        \/ \E t \in Caller : StartLocked(t)
        \/ \E t \in Caller : LaunchFails(t)
        \/ \E t \in Caller : Launched(t)
        \/ \E t \in Caller : StartupFails(t)
        \/ \E t \in Caller : Started(t)
        \/ \E t \in Caller : StopNothing(t)
        \/ \E t \in Caller : StopLocked(t)
        \/ \E t \in Caller : Stopped(t)
        \/ \E a \in Agent : ExitCleanup(a)
    BY ZenonT(60) DEF Next, ManagerStep, CallStep, ExitStep, MonitorStep, PollStep,
           NotifierStep, CoreStep, vars, managerVars, agentVars, procVars,
           callVars, boundVars, TakeoverLook, TakeoverMiss, TakeoverFound,
           TakeoverUnsecured, TakeoverAdopt, StartPolling, ProcessDone,
           CheckCmd, NotifyReceive, NotifyStop, NotifyLook, NotifyProbe,
           NotifyAdopt, PollTick, PollCheck, PollStop, CoreExits,
           CoreRestartsItself, PostUp
  <2>2. QED
    BY <2>1, <1>1, <1>2, <1>3, <1>4, <1>5, <1>6, <1>7, <1>8, <1>9, <1>10,
       <1>11, <1>12

\* What takeoverRestartedProcess finds is in the job of the controller that it
\* read.
LEMMA AgentAdoptsStep ==
  ASSUME AgentAdopts, ProcType, JobType, AgentType, [Next]_vars
  PROVE  AgentAdopts'
<1> USE ConstantsAssumption DEF AgentAdopts, ProcType, JobType, AgentType,
        Agent, Nil, Pid, Session, Poller
<1>1. CASE UNCHANGED <<agent, born, job>>
  BY <1>1
<1>2. ASSUME NEW t \in Caller, Launched(t)
       PROVE  AgentAdopts'
  <2>1. agent' = agent
    BY <1>2 DEF Launched, agentVars
  <2>2. 1..born \subseteq 1..(born') /\ \A q \in 1..born : job'[q] = job[q]
    BY <1>2, JobsKept
  <2>3. QED
    BY <2>1, <2>2
<1>3. ASSUME NEW t \in Caller, Started(t)
       PROVE  AgentAdopts'
  BY <1>3 DEF Started, At, NotifierAt, Return, boundVars, procVars
<1>4. ASSUME NEW a \in Agent, TakeoverLook(a)
       PROVE  AgentAdopts'
  BY <1>4 DEF TakeoverLook, At, boundVars, callVars, managerVars, procVars
<1>5. ASSUME NEW a \in Agent, TakeoverMiss(a)
       PROVE  AgentAdopts'
  <2>1. UNCHANGED <<born, job>>
    BY <1>5 DEF TakeoverMiss, procVars
  <2>2. agent[a] \in GoodAgent
    OBVIOUS
  <2>3. \E x : agent' = [agent EXCEPT ![a] = x] /\ x.pc # "adopt"
    <3> HIDE DEF At
    <3>1. At("cleanup").pc # "adopt"
      BY AgentAt DEF AgentPc
    <3>2. agent[a].tries < TakeoverTries =>
            [At("takeover") EXCEPT !.tries = agent[a].tries].pc # "adopt"
      BY <2>2, AgentRetries
    <3>3. QED
      BY <1>5, <3>1, <3>2 DEF TakeoverMiss
  <2>4. QED
    BY <2>1, <2>3
<1>6. ASSUME NEW a \in Agent, TakeoverFound(a)
       PROVE  AgentAdopts'
  <2> DEFINE q == Newest(Candidates(agent[a].ctl, agent[a].old))
  <2>1. q \in 1..born /\ job[q] = agent[a].ctl
    BY <1>6, CandidatesFound DEF TakeoverFound
  <2>2. agent[a] \in GoodAgent /\ agent' = [agent EXCEPT ![a] = [agent[a] EXCEPT !.pc = "adopt", !.new = q]]
    BY <1>6 DEF TakeoverFound
  <2>3. UNCHANGED <<born, job>>
    BY <1>6 DEF TakeoverFound, procVars
  <2> HIDE DEF q
  <2>4. q \in 0..MaxPid
    BY <2>1
  <2>5. agent'[a].new = q /\ agent'[a].ctl = agent[a].ctl
    BY <2>2, <2>4, AgentFinds, ZenonT(60)
  <2>6. \A b \in Agent \ {a} : agent'[b] = agent[b]
    BY <2>2
  <2>7. QED
    BY <2>1, <2>3, <2>5, <2>6
<1>7. ASSUME NEW a \in Agent, TakeoverUnsecured(a)
       PROVE  AgentAdopts'
  BY <1>7
     DEF TakeoverUnsecured, At, Candidates, Newest, Terminate, boundVars,
         callVars, managerVars, CloseKills, StopKills
<1>8. ASSUME NEW a \in Agent, TakeoverAdopt(a)
       PROVE  AgentAdopts'
  <2>1. UNCHANGED <<born, job>>
    BY <1>8 DEF TakeoverAdopt, procVars
  <2>2. \A b \in Agent : agent'[b] = agent[b] \/ agent'[b].pc # "adopt"
    <3> HIDE DEF At, Agent
    <3>1. At("wait").pc # "adopt" /\ At("off").pc # "adopt" /\ At("cleanup").pc # "adopt"
      BY AgentAt DEF AgentPc
    <3>2. QED
      BY <1>8, <3>1 DEF TakeoverAdopt, StartPolling, Resume
  <2>3. QED
    BY <2>1, <2>2
<1>9. ASSUME NEW a \in Agent, ExitCleanup(a)
       PROVE  AgentAdopts'
  BY <1>9
     DEF ExitCleanup, Cleanup, CloseKills, Empty, Resume, SignalStop,
         boundVars, callVars, managerVars, At
<1>10. ASSUME NEW s \in Session, ProcessDone(s)
        PROVE  AgentAdopts'
  BY <1>10 DEF ProcessDone, At, boundVars, callVars, managerVars, procVars
<1>11. ASSUME NEW s \in Session, CheckCmd(s)
        PROVE  AgentAdopts'
  BY <1>11 DEF CheckCmd, At, boundVars, callVars, managerVars, procVars
<1>12. ASSUME NEW s \in Session, NotifyAdopt(s)
        PROVE  AgentAdopts'
  <2>1. UNCHANGED <<born, job>>
    BY <1>12 DEF NotifyAdopt, procVars
  <2>2. \A b \in Agent : agent'[b] = agent[b] \/ agent'[b].pc # "adopt"
    <3> HIDE DEF At, Agent
    <3>1. At("wait").pc # "adopt" /\ At("off").pc # "adopt" /\ At("cleanup").pc # "adopt"
      BY AgentAt DEF AgentPc
    <3>2. QED
      BY <1>12, <3>1 DEF NotifyAdopt, StartPolling
  <2>3. QED
    BY <2>1, <2>2
<1>13. CASE PollTick
  <2>1. UNCHANGED <<born, job>>
    BY <1>13 DEF PollTick, procVars
  <2>2. pid \in 0..MaxPid
    OBVIOUS
  <2>3. \E x : agent' = [agent EXCEPT ![Poller] = x] /\ x.pc # "adopt"
    <3> HIDE DEF At
    <3>1. At("off").pc # "adopt" /\ [At("lock") EXCEPT !.old = pid].pc # "adopt"
      BY <2>2, AgentAt, AgentLocks DEF AgentPc
    <3>2. QED
      BY <1>13, <3>1 DEF PollTick
  <2>4. QED
    BY <2>1, <2>3
<1>14. CASE PollCheck
  BY <1>14 DEF PollCheck, At, boundVars, callVars, managerVars, procVars
<1>15. CASE PollStop
  BY <1>15 DEF PollStop, At, boundVars, callVars, managerVars, procVars
<1>16. ASSUME NEW p \in Pid, CoreRestartsItself(p)
        PROVE  AgentAdopts'
  <2>1. agent' = agent
    BY <1>16 DEF CoreRestartsItself, agentVars
  <2>2. 1..born \subseteq 1..(born') /\ \A q \in 1..born : job'[q] = job[q]
    BY <1>16, JobsKept
  <2>3. QED
    BY <2>1, <2>2
<1> HIDE DEF AgentAdopts, ProcType, JobType, AgentType, Agent, Nil, Pid,
         Session, Poller
<1>17. QED
  <2>1. \/ UNCHANGED <<agent, born, job>>
        \/ \E t \in Caller : Launched(t)
        \/ \E t \in Caller : Started(t)
        \/ \E a \in Agent : TakeoverLook(a)
        \/ \E a \in Agent : TakeoverMiss(a)
        \/ \E a \in Agent : TakeoverFound(a)
        \/ \E a \in Agent : TakeoverUnsecured(a)
        \/ \E a \in Agent : TakeoverAdopt(a)
        \/ \E a \in Agent : ExitCleanup(a)
        \/ \E s \in Session : ProcessDone(s)
        \/ \E s \in Session : CheckCmd(s)
        \/ \E s \in Session : NotifyAdopt(s)
        \/ PollTick
        \/ PollCheck
        \/ PollStop
        \/ \E p \in Pid : CoreRestartsItself(p)
    BY DEF Next, ManagerStep, CallStep, ExitStep, MonitorStep, PollStep,
           NotifierStep, CoreStep, vars, managerVars, agentVars, procVars,
           callVars, boundVars, Begin, StartRefused, StartLocked, Goto,
           LaunchFails, StartupFails, StopProcess, StopNothing, StopLocked,
           Stopped, NotifyReceive, NotifyStop, NotifyLook, NotifyProbe,
           CoreExits, PostUp
  <2>2. QED
    BY <2>1, <1>1, <1>2, <1>3, <1>4, <1>5, <1>6, <1>7, <1>8, <1>9, <1>10,
       <1>11, <1>12, <1>13, <1>14, <1>15, <1>16

\* What handleStartupNotification finds is in the job of the controller that
\* it read.
LEMMA NotifierAdoptsStep ==
  ASSUME NotifierAdopts, ProcType, JobType, NotifierType, [Next]_vars
  PROVE  NotifierAdopts'
<1> USE ConstantsAssumption DEF NotifierAdopts, ProcType, JobType,
        NotifierType, Session, Nil, Pid
<1>1. CASE UNCHANGED <<notifier, born, job>>
  BY <1>1
<1>2. ASSUME NEW t \in Caller, Launched(t)
       PROVE  NotifierAdopts'
  <2>1. notifier' = notifier
    BY <1>2 DEF Launched, agentVars
  <2>2. 1..born \subseteq 1..(born') /\ \A q \in 1..born : job'[q] = job[q]
    BY <1>2, JobsKept
  <2>3. QED
    BY <2>1, <2>2
<1>3. ASSUME NEW t \in Caller, Started(t)
       PROVE  NotifierAdopts'
  BY <1>3 DEF Started, At, NotifierAt, Return, boundVars, procVars
<1>4. ASSUME NEW s \in Session, NotifyReceive(s)
       PROVE  NotifierAdopts'
  BY <1>4
     DEF NotifyReceive, NotifierAt, boundVars, callVars, managerVars, procVars
<1>5. ASSUME NEW s \in Session, NotifyStop(s)
       PROVE  NotifierAdopts'
  BY <1>5
     DEF NotifyStop, NotifierAt, boundVars, callVars, managerVars, procVars
<1>6. ASSUME NEW s \in Session, NotifyLook(s)
       PROVE  NotifierAdopts'
  BY <1>6
     DEF NotifyLook, NotifierAt, boundVars, callVars, managerVars, procVars
<1>7. ASSUME NEW s \in Session, NotifyProbe(s)
       PROVE  NotifierAdopts'
  <2> DEFINE found == Candidates(notifier[s].ctl, notifier[s].old)
             q == IF found = {} THEN notifier[s].old ELSE Newest(found)
  <2>1. notifier[s] \in NotifierState /\ notifier[s].old \in 0..MaxPid
    BY DEF NotifierState
  <2>2. q # notifier[s].old => q \in 1..born /\ job[q] = notifier[s].ctl
    BY CandidatesFound
  <2>3. notifier' = [notifier EXCEPT ![s] = [notifier[s] EXCEPT !.pc = "adopt", !.new = q]]
    BY <1>7 DEF NotifyProbe
  <2>4. UNCHANGED <<born, job>>
    BY <1>7 DEF NotifyProbe, procVars
  <2> HIDE DEF q
  <2>5. q \in 0..MaxPid
    BY <2>1, <2>2, SMTT(60)
  <2>6. /\ notifier'[s].new = q /\ notifier'[s].ctl = notifier[s].ctl
        /\ notifier'[s].old = notifier[s].old
    BY <2>1, <2>3, <2>5, NotifierFinds, ZenonT(60)
  <2>7. \A r \in Session \ {s} : notifier'[r] = notifier[r]
    BY <2>3
  <2>8. QED
    BY <2>2, <2>4, <2>6, <2>7
<1>8. ASSUME NEW s \in Session, NotifyAdopt(s)
       PROVE  NotifierAdopts'
  BY <1>8
     DEF NotifyAdopt, NotifierAt, StartPolling, boundVars, callVars, procVars,
         At, Poller
<1>9. ASSUME NEW p \in Pid, CoreRestartsItself(p)
       PROVE  NotifierAdopts'
  <2>1. notifier' = notifier
    BY <1>9 DEF CoreRestartsItself, agentVars
  <2>2. 1..born \subseteq 1..(born') /\ \A q \in 1..born : job'[q] = job[q]
    BY <1>9, JobsKept
  <2>3. QED
    BY <2>1, <2>2
<1> HIDE DEF NotifierAdopts, ProcType, JobType, NotifierType, Session, Nil,
         Pid
<1>10. QED
  <2>1. \/ UNCHANGED <<notifier, born, job>>
        \/ \E t \in Caller : Launched(t)
        \/ \E t \in Caller : Started(t)
        \/ \E s \in Session : NotifyReceive(s)
        \/ \E s \in Session : NotifyStop(s)
        \/ \E s \in Session : NotifyLook(s)
        \/ \E s \in Session : NotifyProbe(s)
        \/ \E s \in Session : NotifyAdopt(s)
        \/ \E p \in Pid : CoreRestartsItself(p)
    BY ZenonT(60) DEF Next, ManagerStep, CallStep, ExitStep, MonitorStep, PollStep,
           NotifierStep, CoreStep, vars, managerVars, agentVars, procVars,
           callVars, boundVars, Begin, StartRefused, StartLocked, Goto,
           LaunchFails, StartupFails, StopProcess, StopNothing, StopLocked,
           Stopped, TakeoverLook, TakeoverMiss, TakeoverFound,
           TakeoverUnsecured, TakeoverAdopt, StartPolling, ExitCleanup,
           ProcessDone, CheckCmd, PollTick, PollCheck, PollStop, CoreExits,
           PostUp
  <2>2. QED
    BY <2>1, <1>1, <1>2, <1>3, <1>4, <1>5, <1>6, <1>7, <1>8, <1>9

\* A process is adopted only for the controller that was read with it.
LEMMA PidInSessionStep ==
  ASSUME PidInSession, AgentAdopts, NotifierAdopts, ProcType, JobType,
         HolderKnows, SessionCoherent, CallType, SessionCount, [Next]_vars
  PROVE  PidInSession'
<1> USE ConstantsAssumption DEF PidInSession, AgentAdopts, NotifierAdopts,
        ProcType, JobType, HolderKnows, SessionCoherent, CallType,
        SessionCount, Agent, Session, Nil, Pid, Nothing, Empty, CallPc, Poller
<1>1. CASE UNCHANGED <<pid, controller, job>>
  BY <1>1
<1>2. ASSUME NEW t \in Caller, Launched(t)
       PROVE  PidInSession'
  BY <1>2 DEF Launched, Goto, agentVars, boundVars
<1>3. ASSUME NEW t \in Caller, StartupFails(t)
       PROVE  PidInSession'
  BY <1>3
     DEF StartupFails, Cleanup, Return, SignalStop, StopProcess, agentVars,
         Terminate, StopKills, CloseKills
<1>4. ASSUME NEW t \in Caller, Stopped(t)
       PROVE  PidInSession'
  BY <1>4
     DEF Stopped, Cleanup, Goto, Return, StopProcess, agentVars, boundVars,
         Terminate, StopKills, CloseKills
<1>5. ASSUME NEW a \in Agent, TakeoverAdopt(a)
       PROVE  PidInSession'
  BY <1>5
     DEF TakeoverAdopt, At, Resume, StartPolling, boundVars, callVars,
         procVars
<1>6. ASSUME NEW a \in Agent, ExitCleanup(a)
       PROVE  PidInSession'
  BY <1>6
     DEF ExitCleanup, Cleanup, CloseKills, Resume, SignalStop, boundVars,
         callVars, managerVars, At
<1>7. ASSUME NEW s \in Session, NotifyAdopt(s)
       PROVE  PidInSession'
  BY <1>7
     DEF NotifyAdopt, NotifierAt, StartPolling, boundVars, callVars, procVars,
         At
<1>8. ASSUME NEW p \in Pid, CoreRestartsItself(p)
       PROVE  PidInSession'
  BY <1>8 DEF CoreRestartsItself, agentVars, callVars, managerVars
<1> HIDE DEF PidInSession, AgentAdopts, NotifierAdopts, ProcType, JobType,
         HolderKnows, SessionCoherent, CallType, SessionCount, Agent, Session,
         Nil, Pid, Nothing, Empty, CallPc, Poller
<1>9. QED
  <2>1. \/ UNCHANGED <<pid, controller, job>>
        \/ \E t \in Caller : Launched(t)
        \/ \E t \in Caller : StartupFails(t)
        \/ \E t \in Caller : Stopped(t)
        \/ \E a \in Agent : TakeoverAdopt(a)
        \/ \E a \in Agent : ExitCleanup(a)
        \/ \E s \in Session : NotifyAdopt(s)
        \/ \E p \in Pid : CoreRestartsItself(p)
    BY ZenonT(60) DEF Next, ManagerStep, CallStep, ExitStep, MonitorStep, PollStep,
           NotifierStep, CoreStep, vars, managerVars, agentVars, procVars,
           callVars, boundVars, Begin, StartRefused, StartLocked, Goto,
           LaunchFails, Started, StopNothing, StopLocked, TakeoverLook,
           TakeoverMiss, TakeoverFound, TakeoverUnsecured, ProcessDone,
           CheckCmd, NotifyReceive, NotifyStop, NotifyLook, NotifyProbe,
           PollTick, PollCheck, PollStop, CoreExits, PostUp
  <2>2. QED
    BY <2>1, <1>1, <1>2, <1>3, <1>4, <1>5, <1>6, <1>7, <1>8

\* Closing the job, and stopping it, ends all its processes.
LEMMA AllInJobStep ==
  ASSUME AllInJob, ProcType, JobType, HolderKnows, SessionCoherent,
         PidWithController, CallType, SessionCount, JobController, [Next]_vars
  PROVE  AllInJob'
<1> USE ConstantsAssumption DEF AllInJob, ProcType, JobType, HolderKnows,
        SessionCoherent, PidWithController, CallType, SessionCount, Nil, Pid,
        Session, Nothing, Empty, CallPc
<1>1. CASE UNCHANGED <<controller, alive, job, stuck>>
  BY <1>1
<1>2. ASSUME NEW t \in Caller, Launched(t)
       PROVE  AllInJob'
  BY <1>2 DEF Launched, Goto, agentVars, boundVars
<1>3. ASSUME NEW t \in Caller, StartupFails(t)
       PROVE  AllInJob'
  BY <1>3
     DEF StartupFails, Cleanup, Return, SignalStop, StopProcess, agentVars,
         Terminate, StopKills, CloseKills
<1>4. ASSUME NEW t \in Caller, Stopped(t)
       PROVE  AllInJob'
  BY <1>4
     DEF Stopped, Cleanup, Goto, Return, StopProcess, agentVars, boundVars,
         Terminate, StopKills, CloseKills
<1>5. ASSUME NEW a \in Agent, TakeoverUnsecured(a)
       PROVE  AllInJob'
  BY <1>5
     DEF TakeoverUnsecured, At, Candidates, Newest, Terminate, boundVars,
         callVars, managerVars, CloseKills, StopKills
<1>6. ASSUME NEW a \in Agent, ExitCleanup(a)
       PROVE  AllInJob'
  <2>1. CASE UNCHANGED <<managerVars, alive, owes>>
    BY <1>6, <2>1 DEF ExitCleanup, managerVars
  <2>2. CASE /\ SignalStop /\ Cleanup
             /\ alive' = alive \ CloseKills(controller)
             /\ owes' = owes \ CloseKills(controller)
    <3>1. UNCHANGED <<born, job, stuck, pollChan>>
      BY <1>6 DEF ExitCleanup
    <3>2. QED
      BY <2>2, <3>1 DEF Cleanup, SignalStop, CloseKills, Nil
  <2>3. QED
    BY <1>6, <2>1, <2>2, ExitCleanupCases
<1>7. ASSUME NEW p \in Pid, CoreExits(p)
       PROVE  AllInJob'
  BY <1>7 DEF CoreExits, agentVars, callVars, managerVars
<1>8. ASSUME NEW p \in Pid, CoreRestartsItself(p)
       PROVE  AllInJob'
  <2>1. p \in 1..born /\ p \notin stuck /\ job[p] = controller
    BY <1>8 DEF CoreRestartsItself
  <2>2. \A q \in 1..born : job'[q] = job[q]
    BY <1>8 DEF CoreRestartsItself
  <2>3. job'[born + 1] = job[p] /\ alive' \subseteq alive \cup {born + 1}
    BY <1>8 DEF CoreRestartsItself
  <2>4. stuck' = stuck /\ controller' = controller
    BY <1>8 DEF CoreRestartsItself, managerVars
  <2>5. QED
    BY <2>1, <2>2, <2>3, <2>4
<1> HIDE DEF AllInJob, ProcType, JobType, HolderKnows, SessionCoherent,
         PidWithController, CallType, SessionCount, Nil, Pid, Session,
         Nothing, Empty, CallPc
<1>9. QED
  <2>1. \/ UNCHANGED <<controller, alive, job, stuck>>
        \/ \E t \in Caller : Launched(t)
        \/ \E t \in Caller : StartupFails(t)
        \/ \E t \in Caller : Stopped(t)
        \/ \E a \in Agent : TakeoverUnsecured(a)
        \/ \E a \in Agent : ExitCleanup(a)
        \/ \E p \in Pid : CoreExits(p)
        \/ \E p \in Pid : CoreRestartsItself(p)
    BY ZenonT(60) DEF Next, ManagerStep, CallStep, ExitStep, MonitorStep, PollStep,
           NotifierStep, CoreStep, vars, managerVars, agentVars, procVars,
           callVars, boundVars, Begin, StartRefused, StartLocked, Goto,
           LaunchFails, Started, StopNothing, StopLocked, TakeoverLook,
           TakeoverMiss, TakeoverFound, TakeoverAdopt, StartPolling,
           ProcessDone, CheckCmd, NotifyReceive, NotifyStop, NotifyLook,
           NotifyProbe, NotifyAdopt, PollTick, PollCheck, PollStop, PostUp
  <2>2. QED
    BY <2>1, <1>1, <1>2, <1>3, <1>4, <1>5, <1>6, <1>7, <1>8

\* Callers whose call may still take a session.
WaitingIn(c) ==
  {t \in Caller : c[t] \in {"start", "restart", "restopping", "relaunch"}}

LEMMA WaitingFinite ==
  ASSUME NEW c, NEW d \in SUBSET WaitingIn(c)
  PROVE  /\ Cardinality(WaitingIn(c)) \in Nat /\ Cardinality(d) \in Nat
         /\ Cardinality(d) <= Cardinality(WaitingIn(c))
         /\ \A t \in WaitingIn(c) : t \notin d =>
              Cardinality(d) + 1 <= Cardinality(WaitingIn(c))
         /\ \A t : /\ Cardinality(WaitingIn(c) \cup {t}) \in Nat
                   /\ Cardinality(WaitingIn(c) \cup {t}) <= Cardinality(WaitingIn(c)) + 1
                   /\ IsFiniteSet(WaitingIn(c) \cup {t})
<1>1. IsFiniteSet(WaitingIn(c))
  <2>1. WaitingIn(c) \in SUBSET Caller
    BY DEF WaitingIn
  <2>2. QED
    BY <2>1, FS_Subset, ConstantsAssumption
<1> HIDE DEF WaitingIn
<1>2. IsFiniteSet(d) /\ Cardinality(d) <= Cardinality(WaitingIn(c))
  BY <1>1, FS_Subset
<1>3. Cardinality(WaitingIn(c)) \in Nat /\ Cardinality(d) \in Nat
  BY <1>1, <1>2, FS_CardinalityType
<1>4. ASSUME NEW t \in WaitingIn(c), t \notin d
      PROVE  Cardinality(d) + 1 <= Cardinality(WaitingIn(c))
  <2>1. Cardinality(d \cup {t}) = Cardinality(d) + 1
    BY <1>2, <1>4, FS_AddElement
  <2>2. d \cup {t} \in SUBSET WaitingIn(c)
    BY <1>4
  <2>3. Cardinality(d \cup {t}) <= Cardinality(WaitingIn(c))
    BY <1>1, <2>2, FS_Subset
  <2>4. QED
    BY <2>1, <2>3
<1>5. ASSUME NEW t
      PROVE  /\ Cardinality(WaitingIn(c) \cup {t}) \in Nat
             /\ Cardinality(WaitingIn(c) \cup {t}) <= Cardinality(WaitingIn(c)) + 1
             /\ IsFiniteSet(WaitingIn(c) \cup {t})
  <2>1. /\ IsFiniteSet(WaitingIn(c) \cup {t})
        /\ Cardinality(WaitingIn(c) \cup {t}) =
             IF t \in WaitingIn(c) THEN Cardinality(WaitingIn(c))
             ELSE Cardinality(WaitingIn(c)) + 1
    BY <1>1, FS_AddElement
  <2>2. QED
    BY <1>3, <2>1, FS_CardinalityType
<1>6. QED
  BY <1>2, <1>3, <1>4, <1>5

\* Only a caller's own step moves its call, and only that step takes a session.
LEMMA CallMoves ==
  ASSUME [Next]_vars
  PROVE  \/ UNCHANGED <<call, result, sessions>>
         \/ \E t \in Caller, op \in {"start", "stop", "restart"} : Begin(t, op)
         \/ \E t \in Caller : StartRefused(t)
         \/ \E t \in Caller : StartLocked(t)
         \/ \E t \in Caller : LaunchFails(t)
         \/ \E t \in Caller : Launched(t)
         \/ \E t \in Caller : StartupFails(t)
         \/ \E t \in Caller : Started(t)
         \/ \E t \in Caller : StopNothing(t)
         \/ \E t \in Caller : StopLocked(t)
         \/ \E t \in Caller : Stopped(t)
  BY ZenonT(60) DEF Next, ManagerStep, CallStep, ExitStep, MonitorStep, PollStep,
         NotifierStep, CoreStep, vars, managerVars, agentVars, procVars,
         callVars, boundVars, TakeoverLook, TakeoverMiss, TakeoverFound,
         TakeoverUnsecured, TakeoverAdopt, ExitCleanup, ProcessDone, CheckCmd,
         NotifyReceive, NotifyStop, NotifyLook, NotifyProbe, NotifyAdopt,
         PollTick, PollCheck, PollStop, CoreExits, CoreRestartsItself, PostUp,
         StartPolling

\* A call reserves its session when it begins and takes it when it starts.
LEMMA ReservedStep ==
  ASSUME Reserved, CallType, [Next]_vars
  PROVE  Reserved'
<1>1. /\ sessions \in Nat /\ MaxSession \in Nat
      /\ sessions + Cardinality(WaitingIn(call)) <= MaxSession
  BY ConstantsAssumption DEF Reserved, PendingStarts, WaitingIn
<1>2. SUFFICES /\ sessions' \in Nat
               /\ sessions' + Cardinality(WaitingIn(call')) <= MaxSession
  BY DEF Reserved, PendingStarts, WaitingIn
<1>3. CASE sessions' = sessions /\ WaitingIn(call') \subseteq WaitingIn(call)
  BY <1>1, <1>3, WaitingFinite
<1>4. ASSUME NEW t \in Caller, NEW op \in {"start", "restart"}, Begin(t, op)
      PROVE  /\ sessions' \in Nat
             /\ sessions' + Cardinality(WaitingIn(call')) <= MaxSession
  <2>1. WaitingIn(call') \subseteq WaitingIn(call) \cup {t}
    BY <1>4 DEF Begin, CallType, WaitingIn
  <2>2. sessions' = sessions /\ sessions + Cardinality(WaitingIn(call)) < MaxSession
    BY <1>4 DEF Begin, PendingStarts, WaitingIn
  <2>3. Cardinality(WaitingIn(call')) <= Cardinality(WaitingIn(call) \cup {t})
    BY <2>1, WaitingFinite, FS_Subset
  <2>4. QED
    BY <1>1, <2>2, <2>3, WaitingFinite
<1>5. ASSUME NEW t \in Caller, StartLocked(t)
      PROVE  /\ sessions' \in Nat
             /\ sessions' + Cardinality(WaitingIn(call')) <= MaxSession
  <2>1. t \in WaitingIn(call) /\ t \notin WaitingIn(call')
    BY <1>5 DEF StartLocked, Goto, CallType, WaitingIn
  <2>2. WaitingIn(call') \subseteq WaitingIn(call)
    BY <1>5 DEF StartLocked, Goto, CallType, WaitingIn
  <2>3. sessions' = sessions + 1
    BY <1>5 DEF StartLocked
  <2>4. QED
    BY <1>1, <2>1, <2>2, <2>3, WaitingFinite
<1>6. ASSUME NEW t \in Caller, Begin(t, "stop")
      PROVE  sessions' = sessions /\ WaitingIn(call') \subseteq WaitingIn(call)
  BY <1>6 DEF Begin, CallType, WaitingIn
<1>7. ASSUME NEW t \in Caller, StartRefused(t)
      PROVE  sessions' = sessions /\ WaitingIn(call') \subseteq WaitingIn(call)
  BY <1>7 DEF StartRefused, Return, boundVars, CallType, WaitingIn
<1>8. ASSUME NEW t \in Caller, LaunchFails(t)
      PROVE  sessions' = sessions /\ WaitingIn(call') \subseteq WaitingIn(call)
  BY <1>8 DEF LaunchFails, Return, CallType, WaitingIn
<1>9. ASSUME NEW t \in Caller, Launched(t)
      PROVE  sessions' = sessions /\ WaitingIn(call') \subseteq WaitingIn(call)
  BY <1>9 DEF Launched, Goto, boundVars, CallType, WaitingIn
<1>10. ASSUME NEW t \in Caller, StartupFails(t)
      PROVE  sessions' = sessions /\ WaitingIn(call') \subseteq WaitingIn(call)
  BY <1>10 DEF StartupFails, Return, CallType, WaitingIn
<1>11. ASSUME NEW t \in Caller, Started(t)
      PROVE  sessions' = sessions /\ WaitingIn(call') \subseteq WaitingIn(call)
  BY <1>11 DEF Started, Return, boundVars, CallType, WaitingIn
<1>12. ASSUME NEW t \in Caller, StopNothing(t)
      PROVE  sessions' = sessions /\ WaitingIn(call') \subseteq WaitingIn(call)
  BY <1>12 DEF StopNothing, Goto, Return, boundVars, CallType, WaitingIn
<1>13. ASSUME NEW t \in Caller, StopLocked(t)
      PROVE  sessions' = sessions /\ WaitingIn(call') \subseteq WaitingIn(call)
  BY <1>13 DEF StopLocked, Goto, boundVars, CallType, WaitingIn
<1>14. ASSUME NEW t \in Caller, Stopped(t)
      PROVE  sessions' = sessions /\ WaitingIn(call') \subseteq WaitingIn(call)
  BY <1>14 DEF Stopped, Goto, Return, boundVars, CallType, WaitingIn
<1>15. CASE UNCHANGED <<call, result, sessions>>
  BY <1>15, <1>3
<1>16. QED
  BY <1>3, <1>4, <1>5, <1>6, <1>7, <1>8, <1>9, <1>10, <1>11, <1>12, <1>13, <1>14, <1>15, CallMoves

LEMMA ReservedCounts ==
  ASSUME Reserved
  PROVE  SessionCount
<1>1. WaitingIn(call) \in SUBSET WaitingIn(call)
  OBVIOUS
<1>2. Cardinality(WaitingIn(call)) \in Nat
  BY <1>1, WaitingFinite
<1>3. QED
  BY <1>2, ConstantsAssumption DEF Reserved, PendingStarts, WaitingIn, SessionCount

(***************************************************************************)
(* The manager.                                                            *)
(***************************************************************************)
\* Before the first call the manager is empty.
LEMMA ManagerInit == Init => ManagerInv /\ AllInJob
<1> SUFFICES ASSUME Init PROVE ManagerInv /\ AllInJob
  OBVIOUS
<1> USE ConstantsAssumption DEF Init
<1>1. BoolType /\ BudgetType
  <2>1. isRunning \in BOOLEAN /\ monitoring \in BOOLEAN
    BY Zenon
  <2>2. exits \in 0..MaxExits /\ stops \in 0..MaxStopCalls /\ failures \in 0..MaxFailures
    OBVIOUS
  <2>3. QED
    BY <2>1, <2>2 DEF BoolType, BudgetType
<1>2. CallType
  BY DEF CallType, CallPc
<1>3. FieldType /\ ProcType /\ JobType
  BY DEF FieldType, ProcType, JobType, Nil, Pid, Session
<1>4. AgentType
  BY AgentAt DEF AgentType, AgentPc
<1>5. NotifierType
  BY NotifierIn DEF NotifierType, NotifierPc
<1>6. Reserved
  <2>1. WaitingIn(call) = {}
    BY DEF WaitingIn
  <2>2. Cardinality(WaitingIn(call)) = 0
    BY <2>1, FS_EmptySet
  <2>3. QED
    BY <2>2 DEF Reserved, PendingStarts, WaitingIn
<1>7. HolderInside /\ HolderKnows /\ SessionCoherent
  BY DEF HolderInside, Holding, HolderKnows, SessionCoherent, Empty, Nil
<1>8. PidWithController /\ SessionsOver /\ PidInSession /\ AllInJob
  BY DEF PidWithController, SessionsOver, PidInSession, AllInJob, Nil
<1>9. AgentAdopts
  BY AgentAt DEF AgentAdopts, AgentPc
<1>10. NotifierAdopts
  BY NotifierIn DEF NotifierAdopts, NotifierPc
<1>11. QED
  BY <1>1, <1>2, <1>3, <1>4, <1>5, <1>6, <1>7, <1>8, <1>9, <1>10
     DEF ManagerInv, Types

\* Every step of a caller, a goroutine or the core keeps the invariant.
LEMMA ManagerInvStep == ManagerInv /\ [Next]_vars => ManagerInv'
<1> SUFFICES ASSUME ManagerInv, [Next]_vars PROVE ManagerInv'
  OBVIOUS
<1> USE DEF ManagerInv, Types
<1>1. Reserved' /\ SessionCount /\ SessionCount'
  <2>1. Reserved'
    BY ReservedStep
  <2>2. SessionCount
    BY ReservedCounts
  <2>3. SessionCount'
    BY <2>1, ReservedCounts, PTL
  <2>4. QED
    BY <2>1, <2>2, <2>3
<1>2. BoolType' /\ CallType' /\ FieldType' /\ BudgetType'
  BY <1>1, BoolTypeStep, CallTypeStep, FieldTypeStep, BudgetTypeStep
<1>3. ProcType' /\ JobType' /\ AgentType' /\ NotifierType'
  BY <1>1, ProcTypeStep, JobTypeStep, AgentTypeStep, NotifierTypeStep
<1>4. HolderInside' /\ HolderKnows' /\ SessionCoherent'
  BY <1>1, HolderInsideStep, HolderKnowsStep, SessionCoherentStep
<1>5. PidWithController' /\ SessionsOver'
  BY <1>1, PidWithControllerStep, SessionsOverStep
<1>6. AgentAdopts' /\ NotifierAdopts' /\ PidInSession'
  BY <1>1, AgentAdoptsStep, NotifierAdoptsStep, PidInSessionStep
<1>7. QED
  BY <1>1, <1>2, <1>3, <1>4, <1>5, <1>6

\* What the invariant says of a manager whose mutex is free.
LEMMA ManagerInvImplies ==
  ASSUME ManagerInv
  PROVE  ManagerSound /\ NoLeakedSession
<1> USE DEF ManagerInv, Types
<1>1. SessionCount
  BY ReservedCounts
<1>2. isRunning \in BOOLEAN /\ monitoring \in BOOLEAN
  BY DEF BoolType
<1>3. pid \in 0..MaxPid /\ born \in 0..MaxPid /\ alive \subseteq Pid
      /\ owes \subseteq Pid /\ stuck \subseteq Pid
  <2>1. 1..born \subseteq Pid
    BY ConstantsAssumption DEF ProcType, Pid
  <2>2. QED
    BY <2>1, ConstantsAssumption DEF ProcType
<1>4. agent \in [Agent -> AgentState]
  BY DEF AgentType, GoodAgent
<1>5. TypeOK
  BY <1>1, <1>2, <1>3, <1>4
     DEF TypeOK, CallType, FieldType, JobType, NotifierType, BudgetType, SessionCount
<1>6. NoLeakedSession
  <2> SUFFICES ASSUME mutex = Nobody, NEW s \in 1..sessions, s # launch
               PROVE  s \in closed /\ s \in cleaned
    BY DEF NoLeakedSession
  <2>1. s # stopChan
    BY <1>1 DEF SessionCoherent, SessionCount, Nil
  <2>2. \A t \in Caller : call[t] # "launching"
    BY ConstantsAssumption DEF HolderInside, Holding
  <2>3. QED
    BY <2>1, <2>2 DEF SessionsOver
<1>7. QED
  BY <1>5, <1>6 DEF ManagerSound

\* With whatever callers, and however late the exit and notification handlers
\* of old sessions come, the fields of CoreManager agree whenever its mutex is
\* free, the process it reports is one of the current session, and every other
\* session has been closed and cleaned up (manager.go).
THEOREM ManagerAlwaysSound == Spec => []ManagerSound /\ []NoLeakedSession
<1>1. ManagerInv => ManagerSound /\ NoLeakedSession
  BY ManagerInvImplies
<1>2. QED
  BY ManagerInit, ManagerInvStep, <1>1, PTL DEF Spec

\* Where the controller is a job object, no core is left running that the
\* current controller does not hold, unless terminating it failed.
THEOREM NothingEverLeftBehind ==
  ASSUME JobController
  PROVE  Spec => []NothingLeftBehind
<1>1. ManagerInv /\ AllInJob /\ [Next]_vars => AllInJob'
  BY AllInJobStep, ReservedCounts DEF ManagerInv, Types
<1>2. ManagerInv /\ AllInJob => NothingLeftBehind
  BY ManagerInvImplies DEF NothingLeftBehind, NoOrphan, AllInJob
<1>3. QED
  BY ManagerInit, ManagerInvStep, <1>1, <1>2, PTL DEF Spec

\* Where the controller is a job object, a StopCore that reports success leaves
\* no core, except one whose termination failed in an earlier call.
THEOREM StopAlwaysStopsCore ==
  ASSUME JobController
  PROVE  Spec => StopStopsCore
<1> DEFINE StopStops ==
      \A t \in Caller : (call[t] \in {"stop", "stopping"} /\ call'[t] = "idle"
                           /\ result'[t] = "ok") => alive' \subseteq stuck
<1>1. ManagerInv /\ AllInJob /\ [Next]_vars => AllInJob'
  BY AllInJobStep, ReservedCounts DEF ManagerInv, Types
<1>2. ASSUME ManagerInv, AllInJob, [Next]_vars
      PROVE  [StopStops]_vars
  <2> SUFFICES ASSUME NEW t \in Caller, call[t] \in {"stop", "stopping"},
                      call'[t] = "idle", result'[t] = "ok"
               PROVE  alive' \subseteq stuck
    OBVIOUS
  <2>1. \A p \in alive \ stuck : job[p] = controller /\ controller # Nil
    BY <1>2 DEF ManagerInv, Types, AllInJob, ProcType, JobType
  <2>2. StopNothing(t) \/ Stopped(t)
    <3>1. call \in [Caller -> CallPc] /\ result \in [Caller -> {"none", "ok", "error"}]
      BY <1>2 DEF ManagerInv, Types, CallType
    <3>2. ~ UNCHANGED <<call, result, sessions>>
      OBVIOUS
    <3>3. ASSUME NEW u \in Caller, NEW op \in {"start", "stop", "restart"}, Begin(u, op)
          PROVE  FALSE
      BY <3>1, <3>3 DEF Begin
    <3>4. ASSUME NEW u \in Caller, StartRefused(u)
          PROVE  FALSE
      BY <3>1, <3>4 DEF StartRefused, Goto, Return
    <3>5. ASSUME NEW u \in Caller, StartLocked(u)
          PROVE  FALSE
      BY <3>1, <3>5 DEF StartLocked, Goto, Return
    <3>6. ASSUME NEW u \in Caller, LaunchFails(u)
          PROVE  FALSE
      BY <3>1, <3>6 DEF LaunchFails, Goto, Return
    <3>7. ASSUME NEW u \in Caller, Launched(u)
          PROVE  FALSE
      BY <3>1, <3>7 DEF Launched, Goto, Return
    <3>8. ASSUME NEW u \in Caller, StartupFails(u)
          PROVE  FALSE
      BY <3>1, <3>8 DEF StartupFails, Goto, Return
    <3>9. ASSUME NEW u \in Caller, Started(u)
          PROVE  FALSE
      BY <3>1, <3>9 DEF Started, Goto, Return
    <3>10. ASSUME NEW u \in Caller, StopLocked(u)
          PROVE  FALSE
      BY <3>1, <3>10 DEF StopLocked, Goto, Return
    <3>11. ASSUME NEW u \in Caller, StopNothing(u) \/ Stopped(u)
          PROVE  u = t
      BY <3>1, <3>11 DEF StopNothing, Stopped, Goto, Return
    <3>12. QED
      BY <3>2, <3>3, <3>4, <3>5, <3>6, <3>7, <3>8, <3>9, <3>10, <3>11, <1>2, CallMoves
  <2>3. CASE StopNothing(t)
    BY <2>1, <2>3 DEF StopNothing, Empty, procVars
  <2>4. CASE Stopped(t)
    <3>1. StopProcess(TRUE)
      BY <1>2, <2>4 DEF Stopped, Return, Goto, ManagerInv, Types, CallType
    <3>2. CASE pid = 0 \/ controller = Nil
      <4>1. alive' = alive /\ controller = Nil
        BY <1>2, <3>1, <3>2 DEF StopProcess, ManagerInv, PidWithController
      <4>2. QED
        BY <2>1, <4>1
    <3>3. CASE ~(pid = 0 \/ controller = Nil)
      <4>1. alive' = alive \ CloseKills(controller)
        BY <3>1, <3>3 DEF StopProcess, Terminate, StopKills
      <4>2. QED
        BY <2>1, <4>1 DEF CloseKills
    <3>4. QED
      BY <3>2, <3>3
  <2>5. QED
    BY <2>2, <2>3, <2>4
<1>3. QED
  BY ManagerInit, ManagerInvStep, <1>1, <1>2, PTL DEF Spec, StopStopsCore

(***************************************************************************)
(* The desired state.                                                      *)
(***************************************************************************)
\* The three goroutines of the service itself are different ones.
LEMMA OwnGoroutines ==
  /\ Watcher # Initial /\ Watcher # Shutdown /\ Initial # Shutdown
  /\ {Watcher, Initial, Shutdown} \subseteq Caller
  /\ \A c \in Client : c \notin {Watcher, Initial, Shutdown} /\ c \in Caller
<1>1. ASSUME NEW a, NEW b, {Watcher, Initial, Shutdown} = {a, b}
      PROVE  FALSE
  <2>1. IsFiniteSet({a}) /\ Cardinality({a}) = 1
    BY FS_Singleton
  <2>2. Cardinality({a} \cup {b}) \in {1, 2}
    BY <2>1, FS_AddElement
  <2>3. {a} \cup {b} = {Watcher, Initial, Shutdown}
    BY <1>1
  <2>4. QED
    BY <2>2, <2>3, DesiredAssumption
<1>2. Watcher # Initial
  BY <1>1
<1>3. Watcher # Shutdown
  BY <1>1
<1>4. Initial # Shutdown
  BY <1>1
<1>5. QED
  BY <1>2, <1>3, <1>4, DesiredAssumption

\* A new process of the service finds an empty manager.
LEMMA ForgetKeeps ==
  ASSUME ManagerInv, ForgetManager
  PROVE  ManagerInv'
<1> USE ConstantsAssumption DEF ManagerInv, Types, ForgetManager, boundVars
<1>1. sessions \in 0..MaxSession
  BY ReservedCounts DEF SessionCount
<1>2. BoolType'
  BY Zenon DEF BoolType
<1>3. CallType' /\ BudgetType'
  BY DEF CallType, CallPc, BudgetType
<1>4. FieldType'
  BY <1>1 DEF FieldType, Nil, Session
<1>5. ProcType' /\ JobType'
  <2>1. /\ UNCHANGED <<born, job, leader, stuck>>
        /\ pid' = 0 /\ owes' = {} /\ alive' \subseteq alive
    OBVIOUS
  <2> HIDE DEF ForgetManager
  <2>2. ProcType'
    BY <2>1 DEF ProcType
  <2>3. JobType'
    BY <2>1 DEF JobType
  <2>4. QED
    BY <2>2, <2>3
<1>6. AgentType' /\ AgentAdopts'
  BY AgentAt DEF AgentType, AgentAdopts, AgentPc
<1>7. NotifierType' /\ NotifierAdopts'
  BY NotifierIn DEF NotifierType, NotifierAdopts, NotifierPc
<1>8. Reserved'
  <2>1. WaitingIn(call') = {}
    BY DEF WaitingIn
  <2>2. Cardinality(WaitingIn(call')) = 0
    BY <2>1, FS_EmptySet
  <2>3. QED
    BY <1>1, <2>2 DEF Reserved, PendingStarts, WaitingIn
<1>9. HolderInside' /\ HolderKnows' /\ SessionCoherent'
  BY DEF HolderInside, Holding, HolderKnows, SessionCoherent, Empty, Nil
<1>10. PidWithController' /\ SessionsOver' /\ PidInSession'
  BY DEF PidWithController, SessionsOver, PidInSession, Nil
<1>11. QED
  BY <1>2, <1>3, <1>4, <1>5, <1>6, <1>7, <1>8, <1>9, <1>10

\* The desired-state layer reaches the manager only through its calls, and
\* ends it only with the whole process.
LEMMA DesiredCalls ==
  ASSUME [DesiredNext]_allVars
  PROVE  [Next]_vars \/ ForgetManager
BY DEF DesiredNext, allVars, Next, Request, WatchTick, BeginShutdown,
       StopWatching, DesiredStep, SetDesired, LockDesired, CheckCore, StopCore,
       CoreReturned, Crash, ServiceExit, ServiceStart

LEMMA ManagerKept ==
  ASSUME ManagerInv, [DesiredNext]_allVars
  PROVE  ManagerInv'
BY DesiredCalls, ForgetKeeps, ManagerInvStep

\* A call begins only where its task makes it.
LEMMA IdleStaysIdle ==
  ASSUME CallType, ManagerStep
  PROVE  \A t \in Caller : call'[t] # "idle" => call[t] # "idle"
<1> USE DEF CallType
<1>1. CASE UNCHANGED <<call, result>>
  BY <1>1
<1>2. ASSUME NEW t \in Caller, CallStep(t)
      PROVE  \A u \in Caller : call'[u] # "idle" => call[u] # "idle"
  BY <1>2 DEF CallStep, StartRefused, StartLocked, LaunchFails, Launched,
     StartupFails, Started, StopNothing, StopLocked, Stopped, Goto, Return
<1>3. QED
  BY <1>1, <1>2 DEF ManagerStep, ExitStep, MonitorStep, PollStep,
         NotifierStep, CoreStep, vars, managerVars, agentVars, procVars,
         callVars, boundVars, TakeoverLook, TakeoverMiss, TakeoverFound,
         TakeoverUnsecured, TakeoverAdopt, ExitCleanup, ProcessDone,
         CheckCmd, NotifyReceive, NotifyStop, NotifyLook, NotifyProbe,
         NotifyAdopt, PollTick, PollCheck, PollStop, CoreExits,
         CoreRestartsItself, PostUp, StartPolling

\* Tasks and budgets keep their types.
LEMMA TaskTypeStep ==
  ASSUME TaskType, TaskKnows, [DesiredNext]_allVars
  PROVE  TaskType'
<1> USE OwnGoroutines, ConstantsAssumption, DesiredAssumption DEF TaskType,
        TaskKnows, Op, TaskPc, Starting
<1>1. CASE UNCHANGED <<mu, service, task, requests, setFailures, crashes>>
  BY <1>1
<1>2. ASSUME NEW c \in Client, NEW op \in {"start", "stop", "restart"}, Request(c, op)
       PROVE  TaskType'
  BY <1>2
     DEF Request, NoTask, vars, agentVars, boundVars, callVars, managerVars,
         procVars
<1>3. ASSUME NEW t \in Caller, SetDesired(t)
       PROVE  TaskType'
  BY <1>3
     DEF SetDesired, Done, Move, vars, NoTask, agentVars, boundVars, callVars,
         managerVars, procVars
<1>4. ASSUME NEW t \in Caller, LockDesired(t)
       PROVE  TaskType'
  BY <1>4
     DEF LockDesired, Begin, Done, Move, vars, PendingStarts, agentVars,
         managerVars, procVars, NoTask, boundVars, callVars
<1>5. ASSUME NEW t \in Caller, CheckCore(t)
       PROVE  TaskType'
  BY <1>5
     DEF CheckCore, Begin, Done, Move, ProcessInfoOK, vars, PendingStarts,
         agentVars, managerVars, procVars, NoTask, boundVars, callVars
<1>6. ASSUME NEW t \in Caller, StopCore(t)
       PROVE  TaskType'
  BY <1>6
     DEF StopCore, Begin, Move, PendingStarts, agentVars, managerVars,
         procVars
<1>7. ASSUME NEW t \in Caller, CoreReturned(t)
       PROVE  TaskType'
  BY <1>7
     DEF CoreReturned, Done, vars, NoTask, agentVars, boundVars, callVars,
         managerVars, procVars
<1>8. CASE WatchTick
  BY <1>8
     DEF WatchTick, NoTask, vars, agentVars, boundVars, callVars, managerVars,
         procVars
<1>9. CASE BeginShutdown
  BY <1>9
     DEF BeginShutdown, vars, agentVars, boundVars, callVars, managerVars,
         procVars
<1>10. CASE StopWatching
  BY <1>10
     DEF StopWatching, Move, vars, agentVars, boundVars, callVars,
         managerVars, procVars
<1>11. CASE Crash
  BY <1>11
     DEF Crash, ForgetManager, Agent, At, Nil, NoTask, NotifierAt, Session,
         boundVars, Poller
<1>12. CASE ServiceExit
  BY <1>12
     DEF ServiceExit, ForgetManager, NoTask, Agent, At, Nil, NotifierAt,
         Session, boundVars, Poller
<1>13. CASE ServiceStart
  BY <1>13
     DEF ServiceStart, vars, agentVars, boundVars, callVars, managerVars,
         procVars
<1> HIDE DEF TaskType, TaskKnows, Op, TaskPc, Starting
<1>14. QED
  <2>1. \/ UNCHANGED <<mu, service, task, requests, setFailures, crashes>>
        \/ \E c \in Client, op \in {"start", "stop", "restart"} : Request(c, op)
        \/ \E t \in Caller : SetDesired(t)
        \/ \E t \in Caller : LockDesired(t)
        \/ \E t \in Caller : CheckCore(t)
        \/ \E t \in Caller : StopCore(t)
        \/ \E t \in Caller : CoreReturned(t)
        \/ WatchTick
        \/ BeginShutdown
        \/ StopWatching
        \/ Crash
        \/ ServiceExit
        \/ ServiceStart
    BY DEF DesiredNext, DesiredStep, allVars, managerVars, agentVars,
           procVars, callVars, boundVars, vars, desiredVars, ManagerStep,
           LaunchFails, Launched, StartLocked, StartRefused, Started,
           StartupFails, StopLocked, StopNothing, Stopped, CoreExits,
           CoreRestartsItself, PostUp, ExitCleanup, TakeoverAdopt,
           TakeoverFound, TakeoverLook, TakeoverMiss, TakeoverUnsecured,
           CheckCmd, ProcessDone, NotifyAdopt, NotifyLook, NotifyProbe,
           NotifyReceive, NotifyStop, PollCheck, PollStop, PollTick, Goto,
           StopProcess, StartPolling
  <2>2. QED
    BY <2>1, <1>1, <1>2, <1>3, <1>4, <1>5, <1>6, <1>7, <1>8, <1>9, <1>10,
       <1>11, <1>12, <1>13

\* The flags stay Booleans.
LEMMA FlagTypeStep ==
  ASSUME FlagType, TaskKnows, [DesiredNext]_allVars
  PROVE  FlagType'
<1> USE ConstantsAssumption, DesiredAssumption DEF FlagType, TaskKnows,
        Starting
<1>1. CASE UNCHANGED <<running, saved, watching>>
  BY <1>1
<1>2. ASSUME NEW t \in Caller, SetDesired(t)
       PROVE  FlagType'
  BY <1>2
     DEF SetDesired, Done, Move, vars, NoTask, agentVars, boundVars, callVars,
         managerVars, procVars
<1>3. CASE StopWatching
  BY <1>3
     DEF StopWatching, Move, vars, agentVars, boundVars, callVars,
         managerVars, procVars
<1>4. CASE Crash
  BY <1>4
     DEF Crash, ForgetManager, Agent, At, Nil, NoTask, NotifierAt, Session,
         boundVars, Poller
<1>5. CASE ServiceExit
  BY <1>5
     DEF ServiceExit, ForgetManager, NoTask, Agent, At, Nil, NotifierAt,
         Session, boundVars, Poller
<1>6. CASE ServiceStart
  BY <1>6
     DEF ServiceStart, vars, agentVars, boundVars, callVars, managerVars,
         procVars
<1> HIDE DEF FlagType, TaskKnows, Starting
<1>7. QED
  <2>1. \/ UNCHANGED <<running, saved, watching>>
        \/ \E t \in Caller : SetDesired(t)
        \/ StopWatching
        \/ Crash
        \/ ServiceExit
        \/ ServiceStart
    BY DEF DesiredNext, DesiredStep, allVars, managerVars, agentVars,
           procVars, callVars, boundVars, vars, desiredVars, Request,
           LockDesired, Begin, CheckCore, StopCore, CoreReturned, WatchTick,
           BeginShutdown, ManagerStep, LaunchFails, Launched, StartLocked,
           StartRefused, Started, StartupFails, StopLocked, StopNothing,
           Stopped, CoreExits, CoreRestartsItself, PostUp, ExitCleanup,
           TakeoverAdopt, TakeoverFound, TakeoverLook, TakeoverMiss,
           TakeoverUnsecured, CheckCmd, ProcessDone, NotifyAdopt, NotifyLook,
           NotifyProbe, NotifyReceive, NotifyStop, PollCheck, PollStop,
           PollTick, Goto, StopProcess, StartPolling
  <2>2. QED
    BY <2>1, <1>1, <1>2, <1>3, <1>4, <1>5, <1>6

\* A task enters the manager with its last step, and holds desiredCore.mu from
\* its look to its end.
LEMMA TaskKnowsStep ==
  ASSUME TaskKnows, TaskType, OwnTasks, DownIdle, CallType,
         [DesiredNext]_allVars
  PROVE  TaskKnows'
<1> USE OwnGoroutines, ConstantsAssumption, DesiredAssumption DEF TaskKnows,
        TaskType, OwnTasks, DownIdle, CallType, Starting, Op, TaskPc, CallPc
<1>1. CASE UNCHANGED <<call, mu, task>>
  BY <1>1
<1>2. ASSUME NEW c \in Client, NEW op \in {"start", "stop", "restart"}, Request(c, op)
       PROVE  TaskKnows'
  BY <1>2
     DEF Request, NoTask, vars, agentVars, boundVars, callVars, managerVars,
         procVars
<1>3. ASSUME NEW t \in Caller, SetDesired(t)
       PROVE  TaskKnows'
  BY <1>3
     DEF SetDesired, Done, Move, vars, NoTask, agentVars, boundVars, callVars,
         managerVars, procVars
<1>4. ASSUME NEW t \in Caller, LockDesired(t)
       PROVE  TaskKnows'
  BY <1>4
     DEF LockDesired, Begin, Done, Move, vars, PendingStarts, agentVars,
         managerVars, procVars, NoTask, boundVars, callVars
<1>5. ASSUME NEW t \in Caller, CheckCore(t)
       PROVE  TaskKnows'
  BY <1>5
     DEF CheckCore, Begin, Done, Move, ProcessInfoOK, vars, PendingStarts,
         agentVars, managerVars, procVars, NoTask, boundVars, callVars
<1>6. ASSUME NEW t \in Caller, StopCore(t)
       PROVE  TaskKnows'
  BY <1>6
     DEF StopCore, Begin, Move, PendingStarts, agentVars, managerVars,
         procVars
<1>7. ASSUME NEW t \in Caller, CoreReturned(t)
       PROVE  TaskKnows'
  BY <1>7
     DEF CoreReturned, Done, vars, NoTask, agentVars, boundVars, callVars,
         managerVars, procVars
<1>8. CASE WatchTick
  BY <1>8
     DEF WatchTick, NoTask, vars, agentVars, boundVars, callVars, managerVars,
         procVars
<1>9. CASE BeginShutdown
  BY <1>9
     DEF BeginShutdown, vars, agentVars, boundVars, callVars, managerVars,
         procVars
<1>10. CASE StopWatching
  BY <1>10
     DEF StopWatching, Move, vars, agentVars, boundVars, callVars,
         managerVars, procVars
<1>11. CASE (ManagerStep /\ UNCHANGED desiredVars)
  BY <1>11, IdleStaysIdle DEF desiredVars
<1>12. CASE Crash
  BY <1>12
     DEF Crash, ForgetManager, Agent, At, Nil, NoTask, NotifierAt, Session,
         boundVars, Poller
<1>13. CASE ServiceExit
  BY <1>13
     DEF ServiceExit, ForgetManager, NoTask, Agent, At, Nil, NotifierAt,
         Session, boundVars, Poller
<1>14. CASE ServiceStart
  BY <1>14
     DEF ServiceStart, vars, agentVars, boundVars, callVars, managerVars,
         procVars
<1> HIDE DEF TaskKnows, TaskType, OwnTasks, DownIdle, CallType, Starting, Op,
         TaskPc, CallPc
<1>15. QED
  <2>1. \/ UNCHANGED <<call, mu, task>>
        \/ \E c \in Client, op \in {"start", "stop", "restart"} : Request(c, op)
        \/ \E t \in Caller : SetDesired(t)
        \/ \E t \in Caller : LockDesired(t)
        \/ \E t \in Caller : CheckCore(t)
        \/ \E t \in Caller : StopCore(t)
        \/ \E t \in Caller : CoreReturned(t)
        \/ WatchTick
        \/ BeginShutdown
        \/ StopWatching
        \/ (ManagerStep /\ UNCHANGED desiredVars)
        \/ Crash
        \/ ServiceExit
        \/ ServiceStart
    BY DEF DesiredNext, DesiredStep, allVars, managerVars, agentVars,
           procVars, callVars, boundVars, vars, desiredVars
  <2>2. QED
    BY <2>1, <1>1, <1>2, <1>3, <1>4, <1>5, <1>6, <1>7, <1>8, <1>9, <1>10,
       <1>11, <1>12, <1>13, <1>14

\* The goroutines of the service keep to their own tasks.
LEMMA OwnTasksStep ==
  ASSUME OwnTasks, TaskType, DownIdle, [DesiredNext]_allVars
  PROVE  OwnTasks'
<1> USE OwnGoroutines, ConstantsAssumption, DesiredAssumption DEF OwnTasks,
        TaskType, DownIdle, Op, TaskPc
<1>1. CASE UNCHANGED <<service, task>>
  BY <1>1
<1>2. ASSUME NEW c \in Client, NEW op \in {"start", "stop", "restart"}, Request(c, op)
       PROVE  OwnTasks'
  BY <1>2
     DEF Request, NoTask, vars, agentVars, boundVars, callVars, managerVars,
         procVars
<1>3. ASSUME NEW t \in Caller, SetDesired(t)
       PROVE  OwnTasks'
  BY <1>3
     DEF SetDesired, Done, Move, vars, NoTask, agentVars, boundVars, callVars,
         managerVars, procVars
<1>4. ASSUME NEW t \in Caller, LockDesired(t)
       PROVE  OwnTasks'
  BY <1>4
     DEF LockDesired, Begin, Done, Move, vars, PendingStarts, agentVars,
         managerVars, procVars, NoTask, boundVars, callVars
<1>5. ASSUME NEW t \in Caller, CheckCore(t)
       PROVE  OwnTasks'
  BY <1>5
     DEF CheckCore, Begin, Done, Move, ProcessInfoOK, vars, PendingStarts,
         agentVars, managerVars, procVars, NoTask, boundVars, callVars
<1>6. ASSUME NEW t \in Caller, StopCore(t)
       PROVE  OwnTasks'
  BY <1>6
     DEF StopCore, Begin, Move, PendingStarts, agentVars, managerVars,
         procVars
<1>7. ASSUME NEW t \in Caller, CoreReturned(t)
       PROVE  OwnTasks'
  BY <1>7
     DEF CoreReturned, Done, vars, NoTask, agentVars, boundVars, callVars,
         managerVars, procVars
<1>8. CASE WatchTick
  BY <1>8
     DEF WatchTick, NoTask, vars, agentVars, boundVars, callVars, managerVars,
         procVars
<1>9. CASE BeginShutdown
  BY <1>9
     DEF BeginShutdown, vars, agentVars, boundVars, callVars, managerVars,
         procVars
<1>10. CASE StopWatching
  BY <1>10
     DEF StopWatching, Move, vars, agentVars, boundVars, callVars,
         managerVars, procVars
<1>11. CASE Crash
  BY <1>11
     DEF Crash, ForgetManager, Agent, At, Nil, NoTask, NotifierAt, Session,
         boundVars, Poller
<1>12. CASE ServiceExit
  BY <1>12
     DEF ServiceExit, ForgetManager, NoTask, Agent, At, Nil, NotifierAt,
         Session, boundVars, Poller
<1>13. CASE ServiceStart
  BY <1>13
     DEF ServiceStart, vars, agentVars, boundVars, callVars, managerVars,
         procVars
<1> HIDE DEF OwnTasks, TaskType, DownIdle, Op, TaskPc
<1>14. QED
  <2>1. \/ UNCHANGED <<service, task>>
        \/ \E c \in Client, op \in {"start", "stop", "restart"} : Request(c, op)
        \/ \E t \in Caller : SetDesired(t)
        \/ \E t \in Caller : LockDesired(t)
        \/ \E t \in Caller : CheckCore(t)
        \/ \E t \in Caller : StopCore(t)
        \/ \E t \in Caller : CoreReturned(t)
        \/ WatchTick
        \/ BeginShutdown
        \/ StopWatching
        \/ Crash
        \/ ServiceExit
        \/ ServiceStart
    BY DEF DesiredNext, DesiredStep, allVars, managerVars, agentVars,
           procVars, callVars, boundVars, vars, desiredVars, ManagerStep,
           LaunchFails, Launched, StartLocked, StartRefused, Started,
           StartupFails, StopLocked, StopNothing, Stopped, CoreExits,
           CoreRestartsItself, PostUp, ExitCleanup, TakeoverAdopt,
           TakeoverFound, TakeoverLook, TakeoverMiss, TakeoverUnsecured,
           CheckCmd, ProcessDone, NotifyAdopt, NotifyLook, NotifyProbe,
           NotifyReceive, NotifyStop, PollCheck, PollStop, PollTick, Goto,
           StopProcess, StartPolling
  <2>2. QED
    BY <2>1, <1>1, <1>2, <1>3, <1>4, <1>5, <1>6, <1>7, <1>8, <1>9, <1>10,
       <1>11, <1>12, <1>13

\* Nobody changes the desired state under a reconcile that has looked.
LEMMA StillWantedStep ==
  ASSUME StillWanted, TaskType, TaskKnows, DownIdle, [DesiredNext]_allVars
  PROVE  StillWanted'
<1> USE OwnGoroutines, ConstantsAssumption, DesiredAssumption DEF StillWanted,
        TaskType, TaskKnows, DownIdle, Op, TaskPc, Starting
<1>1. CASE UNCHANGED <<running, task>>
  BY <1>1
<1>2. ASSUME NEW c \in Client, NEW op \in {"start", "stop", "restart"}, Request(c, op)
       PROVE  StillWanted'
  BY <1>2
     DEF Request, NoTask, vars, agentVars, boundVars, callVars, managerVars,
         procVars
<1>3. ASSUME NEW t \in Caller, SetDesired(t)
       PROVE  StillWanted'
  BY <1>3
     DEF SetDesired, Done, Move, vars, NoTask, agentVars, boundVars, callVars,
         managerVars, procVars
<1>4. ASSUME NEW t \in Caller, LockDesired(t)
       PROVE  StillWanted'
  BY <1>4
     DEF LockDesired, Begin, Done, Move, vars, PendingStarts, agentVars,
         managerVars, procVars, NoTask, boundVars, callVars
<1>5. ASSUME NEW t \in Caller, CheckCore(t)
       PROVE  StillWanted'
  BY <1>5
     DEF CheckCore, Begin, Done, Move, ProcessInfoOK, vars, PendingStarts,
         agentVars, managerVars, procVars, NoTask, boundVars, callVars
<1>6. ASSUME NEW t \in Caller, StopCore(t)
       PROVE  StillWanted'
  BY <1>6
     DEF StopCore, Begin, Move, PendingStarts, agentVars, managerVars,
         procVars
<1>7. ASSUME NEW t \in Caller, CoreReturned(t)
       PROVE  StillWanted'
  BY <1>7
     DEF CoreReturned, Done, vars, NoTask, agentVars, boundVars, callVars,
         managerVars, procVars
<1>8. CASE WatchTick
  BY <1>8
     DEF WatchTick, NoTask, vars, agentVars, boundVars, callVars, managerVars,
         procVars
<1>9. CASE BeginShutdown
  BY <1>9
     DEF BeginShutdown, vars, agentVars, boundVars, callVars, managerVars,
         procVars
<1>10. CASE StopWatching
  BY <1>10
     DEF StopWatching, Move, vars, agentVars, boundVars, callVars,
         managerVars, procVars
<1>11. CASE Crash
  BY <1>11
     DEF Crash, ForgetManager, Agent, At, Nil, NoTask, NotifierAt, Session,
         boundVars, Poller
<1>12. CASE ServiceExit
  BY <1>12
     DEF ServiceExit, ForgetManager, NoTask, Agent, At, Nil, NotifierAt,
         Session, boundVars, Poller
<1>13. CASE ServiceStart
  BY <1>13
     DEF ServiceStart, vars, agentVars, boundVars, callVars, managerVars,
         procVars
<1> HIDE DEF StillWanted, TaskType, TaskKnows, DownIdle, Op, TaskPc, Starting
<1>14. QED
  <2>1. \/ UNCHANGED <<running, task>>
        \/ \E c \in Client, op \in {"start", "stop", "restart"} : Request(c, op)
        \/ \E t \in Caller : SetDesired(t)
        \/ \E t \in Caller : LockDesired(t)
        \/ \E t \in Caller : CheckCore(t)
        \/ \E t \in Caller : StopCore(t)
        \/ \E t \in Caller : CoreReturned(t)
        \/ WatchTick
        \/ BeginShutdown
        \/ StopWatching
        \/ Crash
        \/ ServiceExit
        \/ ServiceStart
    BY DEF DesiredNext, DesiredStep, allVars, managerVars, agentVars,
           procVars, callVars, boundVars, vars, desiredVars, ManagerStep,
           LaunchFails, Launched, StartLocked, StartRefused, Started,
           StartupFails, StopLocked, StopNothing, Stopped, CoreExits,
           CoreRestartsItself, PostUp, ExitCleanup, TakeoverAdopt,
           TakeoverFound, TakeoverLook, TakeoverMiss, TakeoverUnsecured,
           CheckCmd, ProcessDone, NotifyAdopt, NotifyLook, NotifyProbe,
           NotifyReceive, NotifyStop, PollCheck, PollStop, PollTick, Goto,
           StopProcess, StartPolling
  <2>2. QED
    BY <2>1, <1>1, <1>2, <1>3, <1>4, <1>5, <1>6, <1>7, <1>8, <1>9, <1>10,
       <1>11, <1>12, <1>13

\* No goroutine outlives the process.
LEMMA DownIdleStep ==
  ASSUME DownIdle, TaskType, [DesiredNext]_allVars
  PROVE  DownIdle'
<1> USE OwnGoroutines, ConstantsAssumption, DesiredAssumption DEF DownIdle,
        TaskType, Op, TaskPc
<1>1. CASE UNCHANGED <<service, task>>
  BY <1>1
<1>2. ASSUME NEW c \in Client, NEW op \in {"start", "stop", "restart"}, Request(c, op)
       PROVE  DownIdle'
  BY <1>2
     DEF Request, NoTask, vars, agentVars, boundVars, callVars, managerVars,
         procVars
<1>3. ASSUME NEW t \in Caller, SetDesired(t)
       PROVE  DownIdle'
  BY <1>3
     DEF SetDesired, Done, Move, vars, NoTask, agentVars, boundVars, callVars,
         managerVars, procVars
<1>4. ASSUME NEW t \in Caller, LockDesired(t)
       PROVE  DownIdle'
  BY <1>4
     DEF LockDesired, Begin, Done, Move, vars, PendingStarts, agentVars,
         managerVars, procVars, NoTask, boundVars, callVars
<1>5. ASSUME NEW t \in Caller, CheckCore(t)
       PROVE  DownIdle'
  BY <1>5
     DEF CheckCore, Begin, Done, Move, ProcessInfoOK, vars, PendingStarts,
         agentVars, managerVars, procVars, NoTask, boundVars, callVars
<1>6. ASSUME NEW t \in Caller, StopCore(t)
       PROVE  DownIdle'
  BY <1>6
     DEF StopCore, Begin, Move, PendingStarts, agentVars, managerVars,
         procVars
<1>7. ASSUME NEW t \in Caller, CoreReturned(t)
       PROVE  DownIdle'
  BY <1>7
     DEF CoreReturned, Done, vars, NoTask, agentVars, boundVars, callVars,
         managerVars, procVars
<1>8. CASE WatchTick
  BY <1>8
     DEF WatchTick, NoTask, vars, agentVars, boundVars, callVars, managerVars,
         procVars
<1>9. CASE BeginShutdown
  BY <1>9
     DEF BeginShutdown, vars, agentVars, boundVars, callVars, managerVars,
         procVars
<1>10. CASE StopWatching
  BY <1>10
     DEF StopWatching, Move, vars, agentVars, boundVars, callVars,
         managerVars, procVars
<1>11. CASE Crash
  BY <1>11
     DEF Crash, ForgetManager, Agent, At, Nil, NoTask, NotifierAt, Session,
         boundVars, Poller
<1>12. CASE ServiceExit
  BY <1>12
     DEF ServiceExit, ForgetManager, NoTask, Agent, At, Nil, NotifierAt,
         Session, boundVars, Poller
<1>13. CASE ServiceStart
  BY <1>13
     DEF ServiceStart, vars, agentVars, boundVars, callVars, managerVars,
         procVars
<1> HIDE DEF DownIdle, TaskType, Op, TaskPc
<1>14. QED
  <2>1. \/ UNCHANGED <<service, task>>
        \/ \E c \in Client, op \in {"start", "stop", "restart"} : Request(c, op)
        \/ \E t \in Caller : SetDesired(t)
        \/ \E t \in Caller : LockDesired(t)
        \/ \E t \in Caller : CheckCore(t)
        \/ \E t \in Caller : StopCore(t)
        \/ \E t \in Caller : CoreReturned(t)
        \/ WatchTick
        \/ BeginShutdown
        \/ StopWatching
        \/ Crash
        \/ ServiceExit
        \/ ServiceStart
    BY DEF DesiredNext, DesiredStep, allVars, managerVars, agentVars,
           procVars, callVars, boundVars, vars, desiredVars, ManagerStep,
           LaunchFails, Launched, StartLocked, StartRefused, Started,
           StartupFails, StopLocked, StopNothing, Stopped, CoreExits,
           CoreRestartsItself, PostUp, ExitCleanup, TakeoverAdopt,
           TakeoverFound, TakeoverLook, TakeoverMiss, TakeoverUnsecured,
           CheckCmd, ProcessDone, NotifyAdopt, NotifyLook, NotifyProbe,
           NotifyReceive, NotifyStop, PollCheck, PollStop, PollTick, Goto,
           StopProcess, StartPolling
  <2>2. QED
    BY <2>1, <1>1, <1>2, <1>3, <1>4, <1>5, <1>6, <1>7, <1>8, <1>9, <1>10,
       <1>11, <1>12, <1>13

\* When the service process first starts nobody is doing anything.
LEMMA DesiredStarts == DesiredInit => DesiredInv
<1> SUFFICES ASSUME DesiredInit PROVE DesiredInv
  OBVIOUS
<1>1. ManagerInv
  BY ManagerInit DEF DesiredInit
<1>2. TaskType
  BY DesiredAssumption DEF DesiredInit, TaskType, NoTask, Op, TaskPc
<1>3. FlagType
  BY Zenon DEF DesiredInit, FlagType
<1>4. TaskKnows /\ OwnTasks /\ StillWanted /\ DownIdle
  BY DesiredAssumption, ConstantsAssumption
     DEF DesiredInit, Init, NoTask, TaskKnows, Starting, OwnTasks, StillWanted, DownIdle
<1>5. QED
  BY <1>1, <1>2, <1>3, <1>4 DEF DesiredInv

LEMMA DesiredInvStep == DesiredInv /\ [DesiredNext]_allVars => DesiredInv'
<1> SUFFICES ASSUME DesiredInv, [DesiredNext]_allVars PROVE DesiredInv'
  OBVIOUS
<1> USE DEF DesiredInv
<1>1. ManagerInv' /\ CallType
  BY ManagerKept DEF ManagerInv, Types
<1>2. TaskType' /\ FlagType' /\ TaskKnows'
  BY <1>1, TaskTypeStep, FlagTypeStep, TaskKnowsStep
<1>3. OwnTasks' /\ StillWanted' /\ DownIdle'
  BY <1>1, OwnTasksStep, StillWantedStep, DownIdleStep
<1>4. QED
  BY <1>1, <1>2, <1>3

\* Under any requests, ticks of the watcher, failing writes of the state file,
\* shutdowns and crashes, desiredCore.mu is released on every way out and the
\* manager below keeps its fields coherent and leaks no session.
THEOREM DesiredAlwaysSound == DesiredSpec => []DesiredSound
<1>1. ASSUME DesiredInv
      PROVE  DesiredSound
  <2>1. ManagerSound /\ NoLeakedSession
    BY <1>1, ManagerInvImplies DEF DesiredInv
  <2>2. mu # Nobody => task[mu].pc \in {"check", "core"}
    BY <1>1 DEF DesiredInv, TaskType, TaskKnows
  <2>3. running \in BOOLEAN /\ saved \in BOOLEAN /\ watching \in BOOLEAN
    BY <1>1 DEF DesiredInv, FlagType
  <2>4. QED
    BY <1>1, <2>1, <2>2, <2>3
       DEF DesiredSound, DesiredTypeOK, ManagerSound, DesiredInv, TaskType
<1>2. QED
  BY DesiredStarts, DesiredInvStep, <1>1, PTL DEF DesiredSpec

\* The watcher and the initial reconcile launch only a core that is wanted at
\* that moment: holding desiredCore.mu from the look to the end of the launch
\* keeps every set out (desired.go, reconcile and set).
THEOREM ReconcileOnlyWanted == DesiredSpec => []ReconcileWantsCore
<1>1. ASSUME DesiredInv
      PROVE  ReconcileWantsCore
  <2> SUFFICES ASSUME NEW t \in {Watcher, Initial}, call[t] # "idle"
               PROVE  running
    BY DEF ReconcileWantsCore
  <2>1. t \in Caller /\ task[t].pc = "core"
    BY <1>1, DesiredAssumption DEF DesiredInv, TaskKnows
  <2>2. task[t].op = "reconcile"
    BY <1>1, <2>1 DEF DesiredInv, TaskKnows, OwnTasks
  <2>3. QED
    BY <1>1, <2>1, <2>2 DEF DesiredInv, StillWanted
<1>2. QED
  BY DesiredStarts, DesiredInvStep, <1>1, PTL DEF DesiredSpec
=============================================================================
