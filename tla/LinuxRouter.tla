----------------------------- MODULE LinuxRouter -----------------------------
(***************************************************************************)
(* linuxNativeProcess: application routing on Linux.  Processes that a     *)
(* rule names are moved into control groups, iptables chains send the      *)
(* traffic of those groups through the proxy or drop it, and Stop puts     *)
(* every process back where it was.                                        *)
(*                                                                         *)
(* A scan works under the router's mutex, but on a snapshot of /proc that  *)
(* the monitor takes before it locks, and processes come, go, fork and     *)
(* execute other programs between any two of its steps.  The manager that  *)
(* calls Send and Stop does so one call at a time, and stops a router      *)
(* whose Send failed.                                                      *)
(***************************************************************************)
EXTENDS RouterRules, FiniteSetsExt

CONSTANTS
  Pid,          \* process identifiers, natural numbers
  Home,         \* control groups that processes live in by themselves
  Root,         \* the root control group
  None,
  Running,      \* the processes that may run at first: executable by PID
  Where,        \* and the control groups of theirs
  Lists,        \* the rule lists the manager sends, normalized
  Rare,         \* "reuse": a tracked PID may be reused; "silent": deleting
                \* the chains may fail in Stop, which does not report it
  MaxSends,     \* bound: commands sent
  MaxFaults,    \* bound: failing calls
  MaxEvents,    \* bound: processes started, forked, replaced or ended
  MaxCrashes    \* bound: crashes of the service

ASSUME LinuxAssumption ==
  /\ Pid \subseteq Nat /\ Root \notin Home \cup Group
  /\ Home \cap Group = {} /\ None \notin Home \cup Group \cup Path \cup {Root}
  /\ Running \subseteq [Pid -> Path \cup {None}]
  /\ Where \in [Pid -> Home]
  /\ \A l \in Lists : \A k \in DOMAIN l : ValidRule(l[k])
  /\ {MaxSends, MaxFaults, MaxEvents, MaxCrashes} \subseteq Nat

VARIABLES
  exe, cg, parent,     \* the processes: executable (None: no such process),
                       \* control group and parent
  home, lost,          \* history: where a process belongs, and whether it was
                       \* born in, or abandoned in, a group of the router
  life,                \* "off", "running", "failed" (Send failed), or where
                       \* Stop is: "wait", "restore", "evict", "move", "remove"
  stopErr,             \* Stop will report an error
  targets, dns,        \* targets and proxyUDPDNS of the last command
  assigned, original,  \* assigned and originalCgroups
  chains, fwReady,     \* installed iptables chains, firewallReady
  monitor, taken,      \* the monitor goroutine and its snapshot of /proc
  snap, scan, seen,    \* the scan that holds the mutex: its snapshot, the PIDs
                       \* still to visit (None: no scan), those that matched
  clean,               \* history: the last Stop reported success
  sends, faults, events, crashes   \* budgets used

procVars   == <<exe, cg, parent, home, lost>>
trackVars  == <<assigned, original>>
wallVars   == <<chains, fwReady, dns>>
scanVars   == <<monitor, taken, snap, scan, seen>>
budgetVars == <<sends, faults, events, crashes>>
vars == <<procVars, trackVars, wallVars, scanVars, budgetVars, life, stopErr,
          targets, clean>>

Cgroup == Group \cup Home \cup {Root}
Chain  == {"out", "pre", "block", "guard", "dns"}

TargetSet == {<<>>} \cup {Targets(RouterCommand(l, TRUE)) : l \in Lists}
                    \cup {Targets(RouterCommand(l, FALSE)) : l \in Lists}

\* The types; in particular a scan only visits PIDs of its snapshot.
TypeOK ==
  /\ exe \in [Pid -> Path \cup {None}] /\ cg \in [Pid -> Cgroup]
  /\ parent \in [Pid -> Pid \cup {None}] /\ home \in [Pid -> Home]
  /\ lost \in [Pid -> BOOLEAN]
  /\ life \in {"off", "running", "failed", "wait", "restore", "evict", "move",
               "remove"}
  /\ stopErr \in BOOLEAN /\ dns \in BOOLEAN /\ fwReady \in BOOLEAN
  /\ targets \in TargetSet
  /\ assigned \in [Pid -> Group \cup {None}]
  /\ original \in [Pid -> Cgroup \cup {None}]
  /\ chains \subseteq Chain /\ clean \in BOOLEAN
  /\ monitor \in {"off", "idle", "snapped", "scanning"}
  /\ taken \in [Pid -> Path \cup {None}] /\ seen \subseteq Pid
  /\ snap \in [Pid -> Path \cup {None}]
  /\ scan = None \/ scan \subseteq Pid
  /\ scan # None => \A p \in scan : snap[p] # None
  /\ sends \in 0..MaxSends /\ faults \in 0..MaxFaults
  /\ events \in 0..MaxEvents /\ crashes \in 0..MaxCrashes

Nobody == [p \in Pid |-> None]
Live == {p \in Pid : exe[p] # None}
Managed(p) == cg[p] \in Group

\* Some processes run; the router does not.
Init ==
  /\ exe \in Running /\ home = Where /\ cg = home
  /\ parent = Nobody /\ lost = [p \in Pid |-> FALSE]
  /\ life = "off" /\ stopErr = FALSE /\ targets = <<>> /\ dns = FALSE
  /\ assigned = Nobody /\ original = Nobody
  /\ chains = {} /\ fwReady = FALSE /\ clean = FALSE
  /\ monitor = "off" /\ taken = Nobody /\ snap = Nobody /\ scan = None /\ seen = {}
  /\ sends = 0 /\ faults = 0 /\ events = 0 /\ crashes = 0

Fault == faults < MaxFaults /\ faults' = faults + 1
NoFault == UNCHANGED faults
Free == scan = None

-----------------------------------------------------------------------------
\* startNativeProcess: the control groups are made, or found there.
Start ==
  /\ life = "off" /\ monitor = "off" /\ sends < MaxSends
  /\ life' = "running" /\ monitor' = "idle" /\ stopErr' = FALSE
  /\ clean' = FALSE /\ targets' = <<>> /\ fwReady' = FALSE
  /\ assigned' = Nobody /\ original' = Nobody
  /\ UNCHANGED <<procVars, chains, dns, taken, snap, scan, seen, budgetVars>>

Needed(withDNS) == Chain \ (IF withDNS THEN {} ELSE {"dns"})

\* Mutant: a failed setup is cleaned up but not reported.
RebuildUnchecked(withDNS) ==
  /\ fwReady' = TRUE /\ dns' = withDNS
  /\ \/ chains' = Needed(withDNS) /\ NoFault
     \/ chains' = {} /\ Fault

\* rebuildFirewallLocked: old chains are deleted, errors ignored; a chain that
\* is still there makes the setup fail, and what it did is deleted again.
Rebuild(withDNS) ==
  \/ /\ chains' = Needed(withDNS) /\ fwReady' = TRUE /\ dns' = withDNS
     /\ NoFault
  \/ /\ Fault /\ fwReady' = FALSE /\ UNCHANGED dns
     /\ chains' \in {{}, chains}

\* Send, up to its scan.  The manager sends again only what changed.
SendRules(l, up, withDNS) ==
  /\ life = "running" /\ Free /\ sends < MaxSends /\ sends' = sends + 1
  /\ \/ /\ fwReady /\ dns = withDNS /\ NoFault /\ UNCHANGED wallVars
     \/ (~fwReady \/ dns # withDNS) /\ Rebuild(withDNS)
  /\ \/ /\ fwReady' /\ targets' = Targets(RouterCommand(l, up))
        /\ snap' = exe /\ scan' = Live /\ seen' = {}
        /\ UNCHANGED life
     \/ /\ ~fwReady' /\ life' = "failed"
        /\ UNCHANGED <<targets, snap, scan, seen>>
  /\ UNCHANGED <<procVars, trackVars, monitor, taken, stopErr, clean, events,
                 crashes>>

-----------------------------------------------------------------------------
(***************************************************************************)
(* Scans.                                                                  *)
(***************************************************************************)
MonitorSnapshot ==
  /\ monitor = "idle" /\ life \in {"running", "failed"}
  /\ monitor' = "snapped" /\ taken' = exe
  /\ UNCHANGED <<procVars, trackVars, wallVars, snap, scan, seen, budgetVars, life,
                 stopErr, targets, clean>>

\* Mutant: processes whose executable cannot be read are not skipped.
MonitorLocksAll ==
  /\ monitor = "snapped" /\ Free
  /\ monitor' = "scanning" /\ snap' = taken /\ taken' = Nobody
  /\ scan' = Pid /\ seen' = {}
  /\ UNCHANGED <<procVars, trackVars, wallVars, budgetVars, life, stopErr,
                 targets, clean>>

\* The monitor gets the mutex; a router that was stopped is left alone.
MonitorLocks ==
  /\ monitor = "snapped" /\ Free
  /\ IF life \in {"running", "failed"}
     THEN /\ monitor' = "scanning" /\ seen' = {} /\ snap' = taken
          /\ scan' = {p \in Pid : taken[p] # None}
     ELSE monitor' = "idle" /\ UNCHANGED <<snap, scan, seen>>
  /\ taken' = Nobody
  /\ UNCHANGED <<procVars, trackVars, wallVars, budgetVars, life, stopErr,
                 targets, clean>>

\* inheritedOriginalCgroup: a process born in a managed group belongs where
\* its parent did, or in the root group if nobody knows.
Inherited(p) ==
  IF parent[p] # None /\ original[parent[p]] # None THEN original[parent[p]]
                                                    ELSE Root

\* Mutant: the group is read again for a process that is already tracked.
OriginalReread(p) == IF Managed(p) THEN Inherited(p) ELSE cg[p]

Original(p) ==
  IF original[p] # None THEN original[p]
  ELSE IF Managed(p) THEN Inherited(p)
  ELSE cg[p]

\* restoreProcessLocked forgets the process before it moves it back.
Restore(p) ==
  /\ assigned' = [assigned EXCEPT ![p] = None]
  /\ original' = [original EXCEPT ![p] = None]
  /\ \/ /\ cg' = IF exe[p] # None THEN [cg EXCEPT ![p] = original[p]] ELSE cg
        /\ NoFault /\ UNCHANGED lost
     \/ exe[p] # None /\ Fault /\ lost' = [lost EXCEPT ![p] = TRUE]
        /\ UNCHANGED cg

\* Mutant: a move that failed is taken for done.
MoveToUnchecked(p, g) ==
  /\ original' = [original EXCEPT ![p] = Original(p)]
  /\ assigned' = [assigned EXCEPT ![p] = g]
  /\ \/ exe[p] # None /\ NoFault /\ cg' = [cg EXCEPT ![p] = g]
     \/ (IF exe[p] # None THEN Fault ELSE NoFault) /\ UNCHANGED cg

MoveTo(p, g) ==
  \/ /\ exe[p] # None /\ NoFault
     /\ original' = [original EXCEPT ![p] = Original(p)]
     /\ cg' = [cg EXCEPT ![p] = g] /\ assigned' = [assigned EXCEPT ![p] = g]
  \/ /\ IF exe[p] # None THEN Fault ELSE NoFault
     /\ original' \in {original, [original EXCEPT ![p] = Original(p)]}
     /\ UNCHANGED <<cg, assigned>>

\* One process of the snapshot, in the order of applyProcessSnapshotLocked.
ScanOne ==
  /\ scan # None /\ scan # {}
  /\ LET p == Min(scan)
         goal == TargetGroup(targets, snap[p])
     IN  /\ scan' = scan \ {p}
         /\ \/ /\ goal = {} /\ UNCHANGED seen
               /\ IF assigned[p] # None THEN Restore(p)
                  ELSE NoFault /\ UNCHANGED <<cg, lost, trackVars>>
            \/ /\ \E g \in goal :
                    /\ seen' = seen \cup {p}
                    /\ IF assigned[p] = g
                       THEN NoFault /\ UNCHANGED <<cg, trackVars>>
                       ELSE MoveTo(p, g)
               /\ UNCHANGED lost
  /\ UNCHANGED <<exe, parent, home, wallVars, monitor, taken, snap, sends,
                 events, crashes, life, stopErr, targets, clean>>

\* The end of a scan drops the assigned processes that no longer exist.
ScanEnd ==
  /\ scan = {} /\ scan' = None /\ seen' = {}
  /\ LET Gone(p) == assigned[p] # None /\ p \notin seen /\ exe[p] = None
     IN  /\ assigned' = [p \in Pid |-> IF Gone(p) THEN None ELSE assigned[p]]
         /\ original' = [p \in Pid |-> IF Gone(p) THEN None ELSE original[p]]
  /\ monitor' = IF monitor = "scanning" THEN "idle" ELSE monitor
  /\ snap' = Nobody
  /\ UNCHANGED <<procVars, wallVars, taken, budgetVars, life, stopErr,
                 targets, clean>>

MonitorEnds ==
  /\ monitor = "idle" /\ life \notin {"running", "failed"} /\ monitor' = "off"
  /\ UNCHANGED <<procVars, trackVars, wallVars, taken, snap, scan, seen,
                 budgetVars, life, stopErr, targets, clean>>

-----------------------------------------------------------------------------
(***************************************************************************)
(* Stop.  It waits for the monitor, at most until its context expires.     *)
(***************************************************************************)
StopIdle == UNCHANGED <<exe, parent, home, monitor, taken, snap, scan, seen,
                        sends, events, crashes, targets, dns>>

StopBegin ==
  /\ life \in {"running", "failed"} /\ Free /\ life' = "wait"
  /\ NoFault /\ StopIdle
  /\ UNCHANGED <<cg, lost, trackVars, chains, fwReady, stopErr, clean>>

StopWaited ==
  /\ life = "wait" /\ Free /\ life' = "restore"
  /\ \/ monitor = "off" /\ NoFault /\ UNCHANGED stopErr
     \/ monitor # "off" /\ Fault /\ stopErr' = TRUE
  /\ StopIdle /\ UNCHANGED <<cg, lost, trackVars, chains, fwReady, clean>>

\* restoreAllLocked, one process at a time.
StopRestores ==
  /\ life = "restore" /\ Free
  /\ \E p \in Pid : assigned[p] # None /\ Restore(p)
  /\ stopErr' = (stopErr \/ faults' # faults)
  /\ StopIdle /\ UNCHANGED <<chains, fwReady, life, clean>>

StopFirewall ==
  /\ life = "restore" /\ Free /\ assigned = Nobody /\ life' = "evict"
  /\ fwReady' = FALSE
  /\ \/ chains' = {} /\ NoFault
     \/ "silent" \in Rare /\ Fault /\ chains' \in SUBSET chains
  /\ StopIdle /\ UNCHANGED <<cg, lost, trackVars, stopErr, clean>>

\* restoreUntrackedProcesses: whoever is left in a group goes to the root,
\* but the list of them is read first, and processes fork and end meanwhile.
\* The groups, which cleanup handles one after the other, are taken together.
StopLists ==
  /\ life = "evict" /\ Free /\ life' = "move"
  /\ \/ seen' = {p \in Live : Managed(p)} /\ NoFault /\ UNCHANGED stopErr
     \/ seen' = {} /\ Fault /\ stopErr' = TRUE
  /\ UNCHANGED <<procVars, trackVars, wallVars, monitor, taken, snap, scan, sends,
                 events, crashes, targets, clean>>

StopEvicts ==
  /\ life = "move" /\ Free /\ life' = "remove" /\ seen' = {}
  /\ \/ /\ cg' = [p \in Pid |-> IF p \in Live \cap seen THEN Root ELSE cg[p]]
        /\ NoFault /\ stopErr' = (stopErr \/ ~(seen \subseteq Live))
     \/ seen # {} /\ Fault /\ stopErr' = TRUE /\ UNCHANGED cg
  /\ UNCHANGED <<exe, parent, home, lost, trackVars, wallVars, monitor, taken, snap,
                 scan, sends, events, crashes, targets, clean>>

\* Mutant: a group that cannot be removed is not reported.
StopRemovesBlindly ==
  /\ life = "remove" /\ Free /\ life' = "off"
  /\ clean' = ~stopErr
  /\ lost' = [p \in Pid |-> lost[p] \/ (p \in Live /\ Managed(p))]
  /\ NoFault /\ StopIdle /\ UNCHANGED <<cg, trackVars, chains, fwReady, stopErr>>

\* Groups are removed; one that has a process again cannot be.
StopRemoves ==
  /\ life = "remove" /\ Free /\ life' = "off"
  /\ stopErr' = (stopErr \/ \E p \in Live : Managed(p)) /\ clean' = ~stopErr'
  /\ lost' = [p \in Pid |-> lost[p] \/ (p \in Live /\ Managed(p))]
  /\ NoFault /\ StopIdle /\ UNCHANGED <<cg, trackVars, chains, fwReady>>

\* The service crashes: groups, chains and processes stay as they are.
Crash ==
  /\ life # "off" /\ crashes < MaxCrashes /\ crashes' = crashes + 1
  /\ life' = "off" /\ stopErr' = FALSE /\ clean' = FALSE /\ targets' = <<>>
  /\ assigned' = Nobody /\ original' = Nobody /\ fwReady' = FALSE
  /\ monitor' = "off" /\ taken' = Nobody /\ snap' = Nobody
  /\ scan' = None /\ seen' = {}
  /\ lost' = [p \in Pid |-> lost[p] \/ (p \in Live /\ Managed(p))]
  /\ UNCHANGED <<exe, cg, parent, home, chains, dns, sends, faults, events>>

-----------------------------------------------------------------------------
(***************************************************************************)
(* The processes of the system.                                            *)
(***************************************************************************)
Event ==
  /\ events < MaxEvents /\ events' = events + 1
  /\ UNCHANGED <<trackVars, wallVars, scanVars, sends, faults, crashes, life,
                 stopErr, targets, clean>>

Unused(p) ==
  /\ exe[p] = None
  /\ original[p] # None \/ (life = "move" /\ p \in seen) => "reuse" \in Rare

Born(p, e, g, h, q) ==
  /\ Event /\ Unused(p)
  /\ exe' = [exe EXCEPT ![p] = e] /\ cg' = [cg EXCEPT ![p] = g]
  /\ home' = [home EXCEPT ![p] = h] /\ parent' = [parent EXCEPT ![p] = q]
  /\ lost' = [lost EXCEPT ![p] = g \in Group \cup {Root}]

Spawn(p) == \E e \in Path, h \in Home : Born(p, e, h, h, None)
Fork(p, q) == q \in Live /\ Born(p, exe[q], cg[q], home[q], q)

Exec(p) ==
  /\ Event /\ p \in Live
  /\ \E e \in Path \ {exe[p]} : exe' = [exe EXCEPT ![p] = e]
  /\ UNCHANGED <<cg, parent, home, lost>>

Exit(p) ==
  /\ Event /\ p \in Live
  /\ exe' = [exe EXCEPT ![p] = None]
  /\ parent' = [q \in Pid |-> IF parent[q] = p \/ q = p THEN None ELSE parent[q]]
  /\ UNCHANGED <<cg, home, lost>>

Scanning == ScanOne \/ ScanEnd
Stopping == StopWaited \/ StopRestores \/ StopFirewall \/ StopLists \/ StopEvicts
            \/ StopRemoves

Next ==
  \/ Start
  \/ \E l \in Lists, up, withDNS \in BOOLEAN : SendRules(l, up, withDNS)
  \/ MonitorSnapshot \/ MonitorLocks \/ Scanning \/ MonitorEnds
  \/ StopBegin \/ Stopping \/ Crash
  \/ \E p \in Pid : Spawn(p) \/ Exec(p) \/ Exit(p) \/ \E q \in Pid : Fork(p, q)

Spec == Init /\ [][Next]_vars

(***************************************************************************)
(* Fairness: a scan finishes, the monitor keeps ticking and gets the       *)
(* mutex, the manager stops a router whose Send failed, and Stop goes on.  *)
(***************************************************************************)
Fairness ==
  /\ WF_vars(Scanning) /\ WF_vars(MonitorSnapshot) /\ WF_vars(MonitorEnds)
  /\ SF_vars(MonitorLocks) /\ WF_vars(Stopping)
  /\ WF_vars(StopBegin /\ life = "failed")
FairSpec == Spec /\ Fairness

-----------------------------------------------------------------------------
\* A process that was not born in a group of the router is, or is remembered
\* to belong, in its own control group, whatever rules come and go: it is
\* never restored to the root, to a group of the router, or to a group that
\* another process came from.
BelongsHome ==
  \A p \in Live :
    /\ original[p] \notin Group
    /\ assigned[p] # None => original[p] # None
    /\ ~lost[p] => /\ original[p] \in {None, home[p]}
                   /\ cg[p] \in Group \cup {home[p]}

\* While routing runs on a command, its chains are installed: no process is
\* put into a group whose traffic nobody takes care of.
CommandHasFirewall ==
  life = "running" /\ targets # <<>> => fwReady /\ chains = Needed(dns)

\* After a Stop that reports success no process is left in a group of the
\* router and no chain is installed, although processes forked meanwhile and
\* the monitor may have been late.
StopRestoresSystem ==
  life = "off" /\ clean => chains = {} /\ \A p \in Live : ~Managed(p)

\* Routing settles: once no process comes, goes or changes, every process that
\* a rule names is in the group the rule gives it, blocked if its proxy is down.
ProcessesRouted ==
  <>[](life = "running" /\ Free =>
         \A p \in Live : \A g \in TargetGroup(targets, exe[p]) : cg[p] = g)

\* Routing borrows processes and gives them back: they remember where they came
\* from, are moved only under installed chains, and are home after a stop.
RoutingSound ==
  /\ TypeOK
  /\ BelongsHome
  /\ CommandHasFirewall
  /\ StopRestoresSystem
=============================================================================
