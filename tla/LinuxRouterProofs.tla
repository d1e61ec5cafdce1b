-------------------------- MODULE LinuxRouterProofs --------------------------
(***************************************************************************)
(* Proofs about application routing.                                       *)
(*                                                                         *)
(* LinuxRouter, for any processes, control groups, rule lists and bounds:  *)
(* every process is given back to the control group that it came from,     *)
(* although scans work on old snapshots and processes fork, end and are    *)
(* replaced meanwhile.                                                     *)
(*                                                                         *)
(* RuleStore, for any requests, patterns and protected names: rules mean   *)
(* after sorting, storing and sending what the request said, and the scan  *)
(* of a pattern answers what matching means.                               *)
(***************************************************************************)
EXTENDS LinuxRouter, RuleStore, SequenceTheorems, FiniteSetTheorems, FunctionTheorems,
        WellFoundedInduction, NaturalsInduction, TLAPS

(***************************************************************************)
(* The inductive invariant.                                                *)
(***************************************************************************)
\* What is remembered of a process is never a group of the router, and it is
\* remembered for every process that is assigned.
Tracked ==
  \A p \in Pid : original[p] \notin Group /\ (assigned[p] # None => original[p] # None)

\* A process belongs, and is or will be put back, at home or in the root group,
\* the latter only if it was born or abandoned in a group of the router; one
\* that was not is in such a group only while it is assigned.
PlaceOf(p) ==
  /\ original[p] \in {None, Root, home[p]}
  /\ cg[p] \in Group \cup {Root, home[p]}
  /\ ~lost[p] => /\ original[p] # Root /\ cg[p] # Root
                 /\ cg[p] \in Group => assigned[p] # None
Places == \A p \in Live : PlaceOf(p)

\* A parent that is known runs and belongs where its child does.
Parents ==
  \A q \in Pid : parent[q] # None => parent[q] \in Live /\ home[parent[q]] = home[q]

\* Nothing scans after Stop began; then no process is assigned, no chain is
\* installed, and whoever is listed to be moved was born or abandoned there.
StopPhases ==
  /\ scan # None => life \in {"running", "failed"}
  /\ life \in {"off", "evict", "move", "remove"} => assigned = Nobody
  /\ life \in {"evict", "move", "remove"} => chains = {}
  /\ life = "move" => \A p \in seen : lost[p]

Walls ==
  /\ fwReady => chains = Needed(dns)
  /\ life = "running" /\ targets # <<>> => fwReady

LinuxInv ==
  /\ TypeOK /\ Tracked /\ Places /\ Parents /\ StopPhases /\ Walls /\ StopRestoresSystem

LEMMA LinuxInvSound == LinuxInv => RoutingSound
<1> SUFFICES ASSUME LinuxInv PROVE RoutingSound
  OBVIOUS
<1>1. TypeOK /\ StopRestoresSystem /\ CommandHasFirewall
  BY DEF LinuxInv, Walls, CommandHasFirewall
<1>2. ASSUME NEW p \in Live
      PROVE  /\ original[p] \notin Group
             /\ assigned[p] # None => original[p] # None
             /\ ~lost[p] => /\ original[p] \in {None, home[p]}
                            /\ cg[p] \in Group \cup {home[p]}
  <2>1. p \in Pid
    BY DEF Live
  <2>2. PlaceOf(p)
    BY DEF LinuxInv, Places
  <2>3. QED
    BY <2>1, <2>2 DEF LinuxInv, Tracked, PlaceOf
<1>3. BelongsHome
  BY <1>2 DEF BelongsHome
<1>4. QED
  BY <1>1, <1>3 DEF RoutingSound

-----------------------------------------------------------------------------
(***************************************************************************)
(* The types.                                                              *)
(***************************************************************************)
ProcTypes ==
  /\ exe \in [Pid -> Path \cup {None}] /\ cg \in [Pid -> Cgroup]
  /\ parent \in [Pid -> Pid \cup {None}] /\ home \in [Pid -> Home]
  /\ lost \in [Pid -> BOOLEAN]
TrackTypes ==
  /\ assigned \in [Pid -> Group \cup {None}]
  /\ original \in [Pid -> Cgroup \cup {None}]
LifeTypes ==
  /\ life \in {"off", "running", "failed", "wait", "restore", "evict", "move",
               "remove"}
  /\ stopErr \in BOOLEAN /\ dns \in BOOLEAN /\ fwReady \in BOOLEAN
  /\ chains \subseteq Chain /\ clean \in BOOLEAN
ScanTypes ==
  /\ monitor \in {"off", "idle", "snapped", "scanning"}
  /\ taken \in [Pid -> Path \cup {None}] /\ seen \subseteq Pid
  /\ snap \in [Pid -> Path \cup {None}]
  /\ scan = None \/ scan \subseteq Pid
  /\ scan # None => \A p \in scan : snap[p] # None
BudgetTypes ==
  /\ sends \in 0..MaxSends /\ faults \in 0..MaxFaults
  /\ events \in 0..MaxEvents /\ crashes \in 0..MaxCrashes

LEMMA TypeParts ==
  TypeOK <=> /\ ProcTypes /\ TrackTypes /\ LifeTypes /\ targets \in TargetSet
             /\ ScanTypes /\ BudgetTypes
BY DEF TypeOK, ProcTypes, TrackTypes, LifeTypes, ScanTypes, BudgetTypes

LEMMA PartsTogether ==
  ASSUME ProcTypes', TrackTypes', LifeTypes', targets' \in TargetSet, ScanTypes', BudgetTypes',
         Tracked', Places', Parents', StopPhases', Walls', StopRestoresSystem'
  PROVE  LinuxInv'
<1>1. TypeOK'
  BY DEF TypeOK, ProcTypes, TrackTypes, LifeTypes, ScanTypes, BudgetTypes
<1>2. QED
  BY <1>1 DEF LinuxInv

LEMMA NobodyType == Nobody \in [Pid -> {None}] /\ \A p \in Pid : Nobody[p] = None
BY DEF Nobody

LEMMA NoneApart ==
  /\ None \notin Home /\ None \notin Group /\ None \notin Path /\ None # Root
  /\ Root \notin Home /\ Root \notin Group /\ Home \cap Group = {}
BY LinuxAssumption

\* The targets of a command name groups.
LEMMA TargetGroups ==
  ASSUME NEW t \in TargetSet, NEW path, NEW g \in TargetGroup(t, path)
  PROVE  g \in Group
<1>1. PICK k \in DOMAIN t : g = t[k].group
  BY DEF TargetGroup
<1>2. CASE t = <<>>
  BY <1>1, <1>2
<1>3. ASSUME NEW l \in Lists, NEW up \in BOOLEAN, t = Targets(RouterCommand(l, up))
      PROVE  g \in Group
  <2> DEFINE c == RouterCommand(l, up)
  <2>2. k \in DOMAIN c /\ t[k] = c[k]
    BY <1>1, <1>3 DEF Targets
  <2>3. DOMAIN c = DOMAIN l
    BY DEF RouterCommand
  <2>4. c[k].group = <<IF l[k].action = "proxy" /\ ~up THEN "block" ELSE l[k].action,
                       l[k].protocol>>
    BY <2>2, <2>3 DEF RouterCommand
  <2>5. l[k].action \in Action /\ l[k].protocol \in Protocol
    BY <2>2, <2>3, LinuxAssumption DEF ValidRule
  <2>6. QED
    BY <1>1, <2>2, <2>4, <2>5 DEF Group, Action
<1>4. QED
  BY <1>2, <1>3 DEF TargetSet

\* A set of numbers that is not empty has a least one.
LEMMA LeastExists ==
  ASSUME NEW S \in SUBSET Nat, S # {}
  PROVE  \E i \in S : \A j \in S : i <= j
<1>1. S \in SUBSET Nat
  OBVIOUS
<1>2. PICK x \in S : TRUE
  OBVIOUS
<1>3. PICK i \in S : \A j \in S : <<j, i>> \notin OpToRel(<, Nat)
  BY <1>1, <1>2, NatLessThanWellFounded, WFMin
<1>4. \A j \in S : ~(j < i)
  BY <1>1, <1>3 DEF OpToRel
<1>5. QED
  BY <1>1, <1>4

\* A scan visits one of its PIDs.
LEMMA MinVisited ==
  ASSUME NEW S \in SUBSET Pid, S # {}
  PROVE  Min(S) \in S
<1>1. S \in SUBSET Nat
  BY LinuxAssumption
<1>2. \E i \in S : \A j \in S : i <= j
  BY <1>1, LeastExists
<1>3. QED
  BY <1>2 DEF Min

-----------------------------------------------------------------------------
(***************************************************************************)
(* Steps that move no process and track none.                              *)
(***************************************************************************)
Still == UNCHANGED <<procVars, trackVars>>

LEMMA StillKeeps ==
  ASSUME LinuxInv, Still
  PROVE  ProcTypes' /\ TrackTypes' /\ Tracked' /\ Places' /\ Parents'
<1>1. ProcTypes' /\ TrackTypes'
  BY TypeParts DEF LinuxInv, Still, procVars, trackVars, ProcTypes, TrackTypes
<1>2. Tracked' /\ Parents'
  BY DEF LinuxInv, Still, procVars, trackVars, Tracked, Parents, Live
<1>3. Places'
  BY DEF LinuxInv, Still, procVars, trackVars, Places, PlaceOf, Live
<1>4. QED
  BY <1>1, <1>2, <1>3

\* The state of the firewall and of Stop, which most steps of a scan leave alone.
WallStill ==
  UNCHANGED <<life, stopErr, dns, fwReady, chains, clean, targets>>

LEMMA FaultCounts ==
  ASSUME BudgetTypes, Fault \/ NoFault, UNCHANGED <<sends, events, crashes>>
  PROVE  BudgetTypes'
BY LinuxAssumption DEF BudgetTypes, Fault, NoFault

LEMMA MonitorSnapshotKeeps ==
  ASSUME LinuxInv, MonitorSnapshot
  PROVE  LinuxInv'
<1>1. Still /\ WallStill
  BY DEF MonitorSnapshot, Still, WallStill, wallVars
<1>2. ProcTypes' /\ TrackTypes' /\ Tracked' /\ Places' /\ Parents'
  BY <1>1, StillKeeps
<1>3. LifeTypes' /\ targets' \in TargetSet /\ ScanTypes' /\ BudgetTypes'
  <2>1. ScanTypes /\ LifeTypes /\ targets \in TargetSet /\ BudgetTypes /\ ProcTypes
    BY TypeParts DEF LinuxInv
  <2>2. QED
    BY <2>1 DEF MonitorSnapshot, LifeTypes, ScanTypes, BudgetTypes, wallVars, budgetVars, ProcTypes
<1>4. StopPhases' /\ Walls'
  BY DEF LinuxInv, MonitorSnapshot, StopPhases, Walls, wallVars, trackVars, procVars
<1>5. StopRestoresSystem'
  BY DEF LinuxInv, MonitorSnapshot, StopRestoresSystem, wallVars, procVars, Live, Managed
<1>6. QED
  BY <1>2, <1>3, <1>4, <1>5, PartsTogether

LEMMA MonitorLocksKeeps ==
  ASSUME LinuxInv, MonitorLocks
  PROVE  LinuxInv'
<1>1. Still /\ WallStill /\ UNCHANGED budgetVars
  BY DEF MonitorLocks, Still, WallStill, wallVars
<1>2. ProcTypes' /\ TrackTypes' /\ Tracked' /\ Places' /\ Parents'
  BY <1>1, StillKeeps
<1>3. ScanTypes /\ LifeTypes /\ targets \in TargetSet /\ BudgetTypes /\ StopPhases
      /\ StopRestoresSystem /\ Walls
  BY TypeParts DEF LinuxInv
<1>4. LifeTypes' /\ targets' \in TargetSet /\ BudgetTypes' /\ Walls'
  BY <1>1, <1>3 DEF WallStill, budgetVars, LifeTypes, BudgetTypes, Walls
<1>5. StopRestoresSystem'
  BY <1>1, <1>3 DEF WallStill, Still, procVars, StopRestoresSystem, Live, Managed
<1>6. taken' = Nobody /\ taken' \in [Pid -> Path \cup {None}]
  BY NobodyType DEF MonitorLocks
<1>7. CASE life \in {"running", "failed"}
  <2>1. /\ monitor' = "scanning" /\ seen' = {} /\ snap' = taken
        /\ scan' = {p \in Pid : taken[p] # None}
    BY <1>7 DEF MonitorLocks
  <2>2. ScanTypes'
    BY <1>3, <1>6, <2>1 DEF ScanTypes
  <2>3. StopPhases'
    BY <1>1, <1>3, <1>7, <2>1 DEF StopPhases, WallStill, Still, trackVars
  <2>4. QED
    BY <1>2, <1>4, <1>5, <2>2, <2>3, PartsTogether
<1>8. CASE life \notin {"running", "failed"}
  <2>1. monitor' = "idle" /\ UNCHANGED <<snap, scan, seen>>
    BY <1>8 DEF MonitorLocks
  <2>2. ScanTypes'
    BY <1>3, <1>6, <2>1 DEF ScanTypes
  <2>3. StopPhases'
    BY <1>1, <1>3, <2>1 DEF StopPhases, WallStill, Still, trackVars, procVars
  <2>4. QED
    BY <1>2, <1>4, <1>5, <2>2, <2>3, PartsTogether
<1>9. QED
  BY <1>7, <1>8

LEMMA SendRulesKeeps ==
  ASSUME LinuxInv, NEW l \in Lists, NEW up \in BOOLEAN, NEW withDNS \in BOOLEAN,
         SendRules(l, up, withDNS)
  PROVE  LinuxInv'
<1>1. /\ Still /\ life = "running" /\ sends < MaxSends /\ sends' = sends + 1
      /\ UNCHANGED <<monitor, taken, stopErr, clean, events, crashes>>
  BY DEF SendRules, Still
<1>2. ProcTypes' /\ TrackTypes' /\ Tracked' /\ Places' /\ Parents'
  BY <1>1, StillKeeps
<1>3. ProcTypes /\ ScanTypes /\ LifeTypes /\ targets \in TargetSet /\ BudgetTypes /\ StopPhases
      /\ StopRestoresSystem /\ Walls
  BY TypeParts DEF LinuxInv
<1>4. \/ fwReady /\ NoFault /\ UNCHANGED <<chains, fwReady, dns>>
      \/ chains' = Needed(withDNS) /\ fwReady' = TRUE /\ dns' = withDNS /\ NoFault
      \/ Fault /\ fwReady' = FALSE /\ UNCHANGED dns /\ chains' \in {{}, chains}
  BY DEF SendRules, Rebuild, wallVars
<1>5. \/ /\ fwReady' /\ targets' = Targets(RouterCommand(l, up))
         /\ snap' = exe /\ scan' = Live /\ seen' = {} /\ life' = life
      \/ ~fwReady' /\ life' = "failed" /\ UNCHANGED <<targets, snap, scan, seen>>
  BY DEF SendRules
<1>6. LifeTypes' /\ (fwReady' => chains' = Needed(dns'))
  <2>1. Needed(withDNS) \subseteq Chain
    BY DEF Needed
  <2>2. chains' \subseteq Chain /\ fwReady' \in BOOLEAN /\ dns' \in BOOLEAN
    BY <1>3, <1>4, <2>1 DEF LifeTypes
  <2>3. fwReady' => chains' = Needed(dns')
    BY <1>3, <1>4 DEF Walls
  <2>4. QED
    BY <1>1, <1>3, <1>5, <2>2, <2>3 DEF LifeTypes
<1>7. targets' \in TargetSet
  <2>1. Targets(RouterCommand(l, up)) \in TargetSet
    <3>1. CASE up = TRUE
      BY <3>1 DEF TargetSet
    <3>2. CASE up = FALSE
      BY <3>2 DEF TargetSet
    <3>3. QED
      BY <3>1, <3>2
  <2>2. QED
    BY <1>3, <1>5, <2>1
<1>8. ScanTypes'
  <2>1. Live \subseteq Pid /\ \A p \in Live : exe[p] # None
    BY DEF Live
  <2>2. QED
    BY <1>1, <1>3, <1>5, <2>1 DEF ScanTypes, ProcTypes
<1>9. BudgetTypes'
  <2>1. faults' \in 0 .. MaxFaults
    BY <1>3, <1>4, LinuxAssumption DEF BudgetTypes, Fault, NoFault
  <2>2. QED
    BY <1>1, <1>3, <2>1, LinuxAssumption DEF BudgetTypes
<1>10. StopPhases'
  BY <1>1, <1>3, <1>5 DEF StopPhases
<1>11. Walls'
  BY <1>3, <1>5, <1>6 DEF Walls
<1>12. StopRestoresSystem'
  BY <1>1, <1>5 DEF StopRestoresSystem
<1>13. QED
  BY <1>2, <1>6, <1>7, <1>8, <1>9, <1>10, <1>11, <1>12, PartsTogether

LEMMA StopStillKeeps ==
  ASSUME LinuxInv, "silent" \notin Rare,
         MonitorEnds \/ StopBegin \/ StopWaited \/ StopFirewall \/ StopLists
  PROVE  LinuxInv'
<1>1. Still
  BY DEF MonitorEnds, StopBegin, StopWaited, StopFirewall, StopLists, StopIdle, Still, procVars
<1>2. ProcTypes' /\ TrackTypes' /\ Tracked' /\ Places' /\ Parents'
  BY <1>1, StillKeeps
<1>3. ScanTypes /\ LifeTypes /\ targets \in TargetSet /\ BudgetTypes /\ StopPhases
      /\ StopRestoresSystem /\ Walls
  BY TypeParts DEF LinuxInv
<1>4. CASE MonitorEnds
  <2>1. WallStill /\ UNCHANGED <<taken, snap, scan, seen, budgetVars>> /\ monitor' = "off"
    BY <1>4 DEF MonitorEnds, WallStill, wallVars
  <2>2. LifeTypes' /\ targets' \in TargetSet /\ BudgetTypes' /\ Walls' /\ ScanTypes'
    BY <1>3, <2>1 DEF WallStill, budgetVars, LifeTypes, BudgetTypes, Walls, ScanTypes
  <2>3. StopPhases'
    BY <1>1, <1>3, <2>1 DEF WallStill, Still, procVars, trackVars, StopPhases
  <2>4. StopRestoresSystem'
    BY <1>1, <1>3, <2>1 DEF WallStill, Still, procVars, StopRestoresSystem, Live, Managed
  <2>5. QED
    BY <1>2, <2>2, <2>3, <2>4, PartsTogether
<1>5. CASE StopBegin \/ StopWaited \/ StopFirewall \/ StopLists
  <2>1. /\ UNCHANGED <<monitor, taken, snap, scan, sends, events, crashes, targets, dns, clean>>
        /\ (Fault \/ NoFault) /\ scan = None
    BY <1>5 DEF StopBegin, StopWaited, StopFirewall, StopLists, StopIdle, Free, wallVars
  <2>2. BudgetTypes' /\ targets' \in TargetSet
    BY <1>3, <2>1, FaultCounts
  <2>3. /\ life' \in {"wait", "restore", "evict", "move"}
        /\ stopErr' \in BOOLEAN /\ fwReady' \in BOOLEAN
        /\ chains' \subseteq chains /\ (fwReady' => chains' = chains /\ fwReady)
    <3>1. stopErr \in BOOLEAN /\ fwReady \in BOOLEAN
      BY <1>3 DEF LifeTypes
    <3>2. CASE StopBegin \/ StopWaited
      <4>1. life' \in {"wait", "restore"} /\ chains' = chains /\ fwReady' = fwReady
        BY <3>2 DEF StopBegin, StopWaited
      <4>2. stopErr' = stopErr \/ stopErr' = TRUE
        BY <3>2 DEF StopBegin, StopWaited
      <4>3. QED
        BY <3>1, <4>1, <4>2
    <3>3. CASE StopFirewall
      BY <3>1, <3>3 DEF StopFirewall
    <3>4. CASE StopLists
      BY <3>1, <3>4 DEF StopLists, wallVars
    <3>5. QED
      BY <1>5, <3>2, <3>3, <3>4
  <2>4. seen' \subseteq Pid
    BY <1>3, <1>5 DEF StopBegin, StopWaited, StopFirewall, StopLists, StopIdle, ScanTypes, Live
  <2>5. LifeTypes' /\ ScanTypes' /\ Walls' /\ StopRestoresSystem'
    BY <1>3, <2>1, <2>3, <2>4 DEF LifeTypes, ScanTypes, Walls, StopRestoresSystem
  <2>6. StopPhases'
    <3>1. CASE StopBegin \/ StopWaited
      BY <2>1, <3>1 DEF StopBegin, StopWaited, StopPhases
    <3>2. CASE StopFirewall
      BY <1>1, <2>1, <3>2 DEF StopFirewall, StopPhases, Still, procVars, trackVars, Nobody
    <3>3. CASE StopLists
      <4>1. /\ life = "evict" /\ life' = "move" /\ chains' = chains
            /\ \A p \in seen' : p \in Live /\ Managed(p)
        BY <3>3 DEF StopLists, wallVars
      <4>2. assigned = Nobody /\ chains = {}
        BY <1>3, <4>1 DEF StopPhases
      <4>3. ASSUME NEW p \in seen' PROVE lost[p]
        <5>1. p \in Pid /\ PlaceOf(p) /\ cg[p] \in Group
          BY <4>1 DEF LinuxInv, Places, Live, Managed
        <5>2. QED
          BY <4>2, <5>1, NobodyType DEF PlaceOf
      <4>4. QED
        BY <1>1, <2>1, <4>1, <4>2, <4>3 DEF StopPhases, Still, procVars, trackVars, Nobody
    <3>4. QED
      BY <1>5, <3>1, <3>2, <3>3
  <2>7. QED
    BY <1>2, <2>2, <2>5, <2>6, PartsTogether
<1>6. QED
  BY <1>4, <1>5

-----------------------------------------------------------------------------
(***************************************************************************)
(* Steps that move processes.                                              *)
(***************************************************************************)
LEMMA RestoreKeeps ==
  ASSUME LinuxInv, NEW p \in Pid, assigned[p] # None, Restore(p), UNCHANGED <<exe, parent, home>>
  PROVE  /\ ProcTypes' /\ TrackTypes' /\ Tracked' /\ Places' /\ Parents'
         /\ Fault \/ NoFault
         /\ \A q \in Pid : assigned[q] = None => assigned'[q] = None
<1>1. ProcTypes /\ TrackTypes /\ Tracked /\ Places /\ Parents
  BY TypeParts DEF LinuxInv
<1>2. original[p] \in Cgroup /\ original[p] \notin Group
  BY <1>1 DEF TrackTypes, Tracked
<1>3. /\ assigned' = [assigned EXCEPT ![p] = None]
      /\ original' = [original EXCEPT ![p] = None]
  BY DEF Restore
<1>4. /\ assigned'[p] = None /\ original'[p] = None
      /\ \A q \in Pid : q # p => assigned'[q] = assigned[q] /\ original'[q] = original[q]
  BY <1>1, <1>3 DEF TrackTypes
<1>5. \/ exe[p] # None /\ cg' = [cg EXCEPT ![p] = original[p]] /\ UNCHANGED lost /\ NoFault
      \/ exe[p] = None /\ UNCHANGED <<cg, lost>> /\ NoFault
      \/ exe[p] # None /\ lost' = [lost EXCEPT ![p] = TRUE] /\ UNCHANGED cg /\ Fault
  BY DEF Restore
<1>6. TrackTypes'
  BY <1>1, <1>3 DEF TrackTypes
<1>7. ProcTypes'
  BY <1>1, <1>2, <1>5 DEF ProcTypes
<1>8. Tracked'
  BY <1>1, <1>4, NoneApart DEF Tracked
<1>9. Parents'
  BY <1>1 DEF Parents, Live
<1>10. /\ \A q \in Pid : q # p => cg'[q] = cg[q] /\ lost'[q] = lost[q]
       /\ exe[p] # None => \/ cg'[p] = original[p] /\ lost'[p] = lost[p]
                           \/ cg'[p] = cg[p] /\ lost'[p] = TRUE
  BY <1>1, <1>5 DEF ProcTypes
<1>11. Places'
  <2>1. ASSUME NEW q \in Pid, exe[q] # None PROVE PlaceOf(q)'
    <3>1. PlaceOf(q)
      BY <1>1, <2>1 DEF Places, Live
    <3>2. CASE q # p
      BY <1>4, <1>10, <3>1, <3>2 DEF PlaceOf
    <3>3. CASE q = p
      <4>1. original[p] # None /\ original[p] \in {Root, home[p]}
        BY <1>1, <3>1, <3>3 DEF PlaceOf, Tracked
      <4>2. CASE cg'[p] = original[p] /\ lost'[p] = lost[p]
        BY <1>2, <1>4, <3>1, <3>3, <4>1, <4>2, NoneApart DEF PlaceOf
      <4>3. CASE cg'[p] = cg[p] /\ lost'[p] = TRUE
        BY <1>4, <3>1, <3>3, <4>3 DEF PlaceOf
      <4>4. QED
        BY <1>10, <2>1, <3>3, <4>2, <4>3
    <3>4. QED
      BY <3>2, <3>3
  <2>2. QED
    BY <2>1 DEF Places, Live
<1>12. QED
  BY <1>4, <1>5, <1>6, <1>7, <1>8, <1>9, <1>11

\* What a process that is moved will be put back to.
LEMMA OriginalRight ==
  ASSUME LinuxInv, NEW p \in Pid
  PROVE  /\ Original(p) \in Cgroup /\ Original(p) \notin Group
         /\ exe[p] # None => /\ Original(p) \in {Root, home[p]}
                             /\ ~lost[p] => Original(p) # Root
<1>1. ProcTypes /\ TrackTypes /\ Tracked /\ Places /\ Parents
  BY TypeParts DEF LinuxInv
<1>2. exe[p] # None => PlaceOf(p)
  BY <1>1 DEF Places, Live
<1>3. CASE original[p] # None
  <2>1. Original(p) = original[p]
    BY <1>3 DEF Original
  <2>2. QED
    BY <1>1, <1>2, <1>3, <2>1 DEF TrackTypes, Tracked, PlaceOf
<1>4. CASE original[p] = None /\ Managed(p)
  <2>1. Original(p) = Inherited(p)
    BY <1>4 DEF Original
  <2>2. exe[p] # None => lost[p]
    BY <1>1, <1>2, <1>4 DEF PlaceOf, Managed, Tracked
  <2>3. CASE parent[p] # None /\ original[parent[p]] # None
    <3> DEFINE q == parent[p]
    <3>1. q \in Live /\ q \in Pid /\ home[q] = home[p]
      BY <1>1, <2>3 DEF Parents, Live
    <3>2. Original(p) = original[q]
      BY <2>1, <2>3 DEF Inherited
    <3> HIDE DEF q
    <3>3. PlaceOf(q) /\ original[q] # None /\ original[q] \in Cgroup /\ original[q] \notin Group
      BY <1>1, <2>3, <3>1 DEF Places, TrackTypes, Tracked, q
    <3>4. QED
      BY <2>2, <3>1, <3>2, <3>3 DEF PlaceOf
  <2>4. CASE ~(parent[p] # None /\ original[parent[p]] # None)
    <3>1. Original(p) = Root
      BY <2>1, <2>4 DEF Inherited
    <3>2. QED
      BY <2>2, <3>1, NoneApart DEF Cgroup
  <2>5. QED
    BY <2>3, <2>4
<1>5. CASE original[p] = None /\ ~Managed(p)
  <2>1. Original(p) = cg[p] /\ cg[p] \notin Group /\ cg[p] \in Cgroup
    BY <1>1, <1>5 DEF Original, Managed, ProcTypes
  <2>2. QED
    BY <1>2, <2>1 DEF PlaceOf
<1>6. QED
  BY <1>3, <1>4, <1>5

LEMMA MoveToKeeps ==
  ASSUME LinuxInv, NEW p \in Pid, NEW g \in Group, MoveTo(p, g),
         UNCHANGED <<exe, parent, home, lost>>
  PROVE  /\ ProcTypes' /\ TrackTypes' /\ Tracked' /\ Places' /\ Parents'
         /\ Fault \/ NoFault
<1>1. ProcTypes /\ TrackTypes /\ Tracked /\ Places /\ Parents
  BY TypeParts DEF LinuxInv
<1> DEFINE o == Original(p)
<1>2. /\ o \in Cgroup /\ o \notin Group /\ o # None
      /\ exe[p] # None => o \in {Root, home[p]} /\ (~lost[p] => o # Root)
  BY OriginalRight, NoneApart DEF Cgroup
<1> HIDE DEF o
<1>3. \/ /\ exe[p] # None /\ original' = [original EXCEPT ![p] = o]
         /\ cg' = [cg EXCEPT ![p] = g] /\ assigned' = [assigned EXCEPT ![p] = g] /\ NoFault
      \/ /\ original' \in {original, [original EXCEPT ![p] = o]} /\ UNCHANGED <<cg, assigned>>
         /\ Fault \/ NoFault
  BY DEF MoveTo, o
<1>4. /\ original' \in [Pid -> Cgroup \cup {None}] /\ original'[p] \in {original[p], o}
      /\ \A q \in Pid : q # p => original'[q] = original[q]
  BY <1>1, <1>2, <1>3 DEF TrackTypes
<1>5. /\ assigned' \in [Pid -> Group \cup {None}] /\ cg' \in [Pid -> Cgroup]
      /\ \A q \in Pid : q # p => assigned'[q] = assigned[q] /\ cg'[q] = cg[q]
  BY <1>1, <1>3 DEF TrackTypes, ProcTypes, Cgroup
<1>6. \/ exe[p] # None /\ original'[p] = o /\ assigned'[p] = g /\ cg'[p] = g
      \/ assigned'[p] = assigned[p] /\ cg'[p] = cg[p]
  BY <1>1, <1>3 DEF TrackTypes, ProcTypes
<1>7. TrackTypes' /\ ProcTypes'
  BY <1>1, <1>4, <1>5 DEF TrackTypes, ProcTypes
<1>8. Tracked'
  <2>1. ASSUME NEW q \in Pid
        PROVE  original'[q] \notin Group /\ (assigned'[q] # None => original'[q] # None)
    <3>1. CASE q # p
      BY <1>1, <1>4, <1>5, <3>1 DEF Tracked
    <3>2. CASE q = p
      BY <1>1, <1>2, <1>4, <1>6, <3>2 DEF Tracked
    <3>3. QED
      BY <3>1, <3>2
  <2>2. QED
    BY <2>1 DEF Tracked
<1>9. Parents'
  BY <1>1 DEF Parents, Live
<1>10. Places'
  <2>1. ASSUME NEW q \in Pid, exe[q] # None PROVE PlaceOf(q)'
    <3>1. PlaceOf(q)
      BY <1>1, <2>1 DEF Places, Live
    <3>2. CASE q # p
      BY <1>4, <1>5, <3>1, <3>2 DEF PlaceOf
    <3>3. CASE q = p
      <4>1. g # None /\ g # Root
        BY NoneApart
      <4>2. QED
        BY <1>2, <1>4, <1>6, <2>1, <3>1, <3>3, <4>1 DEF PlaceOf
    <3>4. QED
      BY <3>2, <3>3
  <2>2. QED
    BY <2>1 DEF Places, Live
<1>11. QED
  BY <1>3, <1>7, <1>8, <1>9, <1>10

LEMMA ScanOneKeeps ==
  ASSUME LinuxInv, ScanOne
  PROVE  LinuxInv'
<1> DEFINE p == Min(scan)
           goal == TargetGroup(targets, snap[p])
<1>1. ProcTypes /\ TrackTypes /\ LifeTypes /\ targets \in TargetSet /\ ScanTypes /\ BudgetTypes
      /\ StopPhases /\ Walls /\ StopRestoresSystem
  BY TypeParts DEF LinuxInv
<1>2. scan # None /\ scan # {} /\ scan \subseteq Pid
  BY <1>1 DEF ScanOne, ScanTypes
<1>3. p \in scan /\ p \in Pid
  BY <1>2, MinVisited
<1>4. \A g \in goal : g \in Group
  BY <1>1, TargetGroups
<1>5. /\ scan' = scan \ {p} /\ UNCHANGED <<exe, parent, home, dns, chains, fwReady, monitor, taken,
                                           snap, sends, events, crashes, life, stopErr, targets, clean>>
  BY DEF ScanOne, wallVars
<1>6. \/ /\ seen' = seen
         /\ \/ assigned[p] # None /\ Restore(p)
            \/ NoFault /\ UNCHANGED <<cg, lost, assigned, original>>
      \/ /\ seen' = seen \cup {p} /\ UNCHANGED lost
         /\ \/ NoFault /\ UNCHANGED <<cg, assigned, original>>
            \/ \E g \in goal : MoveTo(p, g)
  BY DEF ScanOne, trackVars
<1> HIDE DEF p, goal
<1>7. /\ ProcTypes' /\ TrackTypes' /\ Tracked' /\ Places' /\ Parents'
      /\ Fault \/ NoFault
  <2>1. CASE NoFault /\ UNCHANGED <<cg, lost, assigned, original>>
    BY <1>5, <2>1, StillKeeps DEF Still, procVars, trackVars
  <2>2. CASE assigned[p] # None /\ Restore(p)
    BY <1>3, <1>5, <2>2, RestoreKeeps
  <2>3. CASE UNCHANGED lost /\ \E g \in goal : MoveTo(p, g)
    <3>1. PICK g \in goal : MoveTo(p, g)
      BY <2>3
    <3>2. QED
      BY <1>3, <1>4, <1>5, <2>3, <3>1, MoveToKeeps
  <2>4. QED
    BY <1>6, <2>1, <2>2, <2>3
<1>8. BudgetTypes'
  BY <1>1, <1>5, <1>7, FaultCounts
<1>9. LifeTypes' /\ targets' \in TargetSet /\ Walls'
  BY <1>1, <1>5 DEF LifeTypes, Walls
<1>10. ScanTypes'
  <2>1. seen' \subseteq Pid
    BY <1>1, <1>3, <1>6 DEF ScanTypes
  <2>2. QED
    BY <1>1, <1>2, <1>5, <2>1 DEF ScanTypes
<1>11. life \in {"running", "failed"} /\ life' = life
  BY <1>1, <1>2, <1>5 DEF StopPhases
<1>12. StopPhases' /\ StopRestoresSystem'
  BY <1>11 DEF StopPhases, StopRestoresSystem
<1>13. QED
  BY <1>7, <1>8, <1>9, <1>10, <1>12, PartsTogether

LEMMA ScanEndKeeps ==
  ASSUME LinuxInv, ScanEnd
  PROVE  LinuxInv'
<1>1. ProcTypes /\ TrackTypes /\ LifeTypes /\ targets \in TargetSet /\ ScanTypes /\ BudgetTypes
      /\ StopPhases /\ Walls /\ StopRestoresSystem /\ Tracked /\ Places /\ Parents
  BY TypeParts DEF LinuxInv
<1> DEFINE Gone(p) == assigned[p] # None /\ p \notin seen /\ exe[p] = None
<1>2. /\ scan = {} /\ scan' = None /\ seen' = {} /\ snap' = Nobody
      /\ assigned' = [p \in Pid |-> IF Gone(p) THEN None ELSE assigned[p]]
      /\ original' = [p \in Pid |-> IF Gone(p) THEN None ELSE original[p]]
      /\ monitor' = IF monitor = "scanning" THEN "idle" ELSE monitor
      /\ UNCHANGED <<exe, cg, parent, home, lost, dns, chains, fwReady, taken, sends, faults,
                     events, crashes, life, stopErr, targets, clean>>
  BY DEF ScanEnd, procVars, wallVars, budgetVars
<1>3. TrackTypes'
  BY <1>1, <1>2 DEF TrackTypes
<1>4. \A p \in Pid : \/ assigned'[p] = assigned[p] /\ original'[p] = original[p]
                     \/ exe[p] = None /\ assigned'[p] = None /\ original'[p] = None
  BY <1>2
<1>5. ProcTypes' /\ LifeTypes' /\ targets' \in TargetSet /\ BudgetTypes' /\ Walls'
  BY <1>1, <1>2 DEF ProcTypes, LifeTypes, BudgetTypes, Walls
<1>6. ScanTypes'
  BY <1>1, <1>2, NobodyType DEF ScanTypes
<1>7. Tracked'
  BY <1>1, <1>4, NoneApart DEF Tracked
<1>8. Parents'
  BY <1>1, <1>2 DEF Parents, Live
<1>9. Places'
  <2>1. ASSUME NEW p \in Pid, exe[p] # None PROVE PlaceOf(p)'
    BY <1>1, <1>2, <1>4, <2>1 DEF Places, PlaceOf, Live
  <2>2. QED
    BY <1>2, <2>1 DEF Places, Live
<1>10. StopPhases'
  <2>1. ASSUME assigned = Nobody PROVE assigned' = Nobody
    BY <1>2, <2>1 DEF Nobody
  <2>2. QED
    BY <1>1, <1>2, <2>1 DEF StopPhases, Nobody
<1>11. StopRestoresSystem'
  BY <1>1, <1>2 DEF StopRestoresSystem, Live, Managed
<1>12. QED
  BY <1>3, <1>5, <1>6, <1>7, <1>8, <1>9, <1>10, <1>11, PartsTogether

-----------------------------------------------------------------------------
(***************************************************************************)
(* Start, the rest of Stop, and crashes.                                   *)
(***************************************************************************)
LEMMA StartKeeps ==
  ASSUME LinuxInv, Start
  PROVE  LinuxInv'
<1>1. ProcTypes /\ TrackTypes /\ LifeTypes /\ targets \in TargetSet /\ ScanTypes /\ BudgetTypes
      /\ StopPhases /\ Walls /\ StopRestoresSystem /\ Tracked /\ Places /\ Parents
  BY TypeParts DEF LinuxInv
<1>2. /\ life = "off" /\ life' = "running" /\ monitor' = "idle" /\ stopErr' = FALSE
      /\ clean' = FALSE /\ targets' = <<>> /\ fwReady' = FALSE
      /\ assigned' = Nobody /\ original' = Nobody
      /\ UNCHANGED <<exe, cg, parent, home, lost, chains, dns, taken, snap, scan, seen, sends,
                     faults, events, crashes>>
  BY DEF Start, procVars, budgetVars
<1>3. assigned = Nobody /\ scan = None
  BY <1>1, <1>2 DEF StopPhases
<1>4. ProcTypes' /\ LifeTypes' /\ BudgetTypes' /\ ScanTypes'
  BY <1>1, <1>2 DEF ProcTypes, LifeTypes, BudgetTypes, ScanTypes
<1>5. targets' \in TargetSet
  BY <1>2 DEF TargetSet
<1>6. TrackTypes' /\ Tracked'
  BY <1>2, NobodyType, NoneApart DEF TrackTypes, Tracked
<1>7. Parents'
  BY <1>1, <1>2 DEF Parents, Live
<1>8. Places'
  <2>1. ASSUME NEW p \in Pid, exe[p] # None PROVE PlaceOf(p)'
    <3>1. PlaceOf(p)
      BY <1>1, <2>1 DEF Places, Live
    <3>2. assigned[p] = None /\ assigned'[p] = None /\ original'[p] = None
      BY <1>2, <1>3, NobodyType
    <3>3. QED
      BY <1>2, <3>1, <3>2, NoneApart DEF PlaceOf
  <2>2. QED
    BY <1>2, <2>1 DEF Places, Live
<1>9. StopPhases' /\ Walls' /\ StopRestoresSystem'
  BY <1>2, <1>3 DEF StopPhases, Walls, StopRestoresSystem
<1>10. QED
  BY <1>4, <1>5, <1>6, <1>7, <1>8, <1>9, PartsTogether

LEMMA StopRestoresKeeps ==
  ASSUME LinuxInv, StopRestores
  PROVE  LinuxInv'
<1>1. ProcTypes /\ TrackTypes /\ LifeTypes /\ targets \in TargetSet /\ ScanTypes /\ BudgetTypes
      /\ StopPhases /\ Walls /\ StopRestoresSystem
  BY TypeParts DEF LinuxInv
<1>2. /\ life = "restore" /\ life' = life /\ scan = None
      /\ stopErr' = (stopErr \/ faults' # faults)
      /\ UNCHANGED <<exe, parent, home, monitor, taken, snap, scan, seen, sends, events, crashes,
                     targets, dns, chains, fwReady, clean>>
  BY DEF StopRestores, StopIdle, Free
<1>3. PICK p \in Pid : assigned[p] # None /\ Restore(p)
  BY DEF StopRestores
<1>4. ProcTypes' /\ TrackTypes' /\ Tracked' /\ Places' /\ Parents' /\ (Fault \/ NoFault)
  BY <1>2, <1>3, RestoreKeeps
<1>5. BudgetTypes' /\ targets' \in TargetSet /\ ScanTypes'
  BY <1>1, <1>2, <1>4, FaultCounts DEF ScanTypes
<1>6. stopErr' \in BOOLEAN
  BY <1>2, Zenon
<1>7. LifeTypes' /\ Walls' /\ StopPhases' /\ StopRestoresSystem'
  BY <1>1, <1>2, <1>6 DEF LifeTypes, Walls, StopPhases, StopRestoresSystem
<1>8. QED
  BY <1>4, <1>5, <1>7, PartsTogether

LEMMA StopEvictsKeeps ==
  ASSUME LinuxInv, StopEvicts
  PROVE  LinuxInv'
<1>1. ProcTypes /\ TrackTypes /\ LifeTypes /\ targets \in TargetSet /\ ScanTypes /\ BudgetTypes
      /\ StopPhases /\ Walls /\ StopRestoresSystem /\ Tracked /\ Places /\ Parents
  BY TypeParts DEF LinuxInv
<1>2. /\ life = "move" /\ life' = "remove" /\ scan = None /\ seen' = {} /\ (Fault \/ NoFault)
      /\ UNCHANGED <<exe, parent, home, lost, assigned, original, dns, chains, fwReady, monitor,
                     taken, snap, scan, sends, events, crashes, targets, clean>>
  BY DEF StopEvicts, Free, trackVars, wallVars
<1>3. \/ cg' = [p \in Pid |-> IF p \in Live \cap seen THEN Root ELSE cg[p]]
      \/ cg' = cg
  BY DEF StopEvicts
<1>4. stopErr' \in BOOLEAN
  <2>1. stopErr' = (stopErr \/ ~(seen \subseteq Live)) \/ stopErr' = TRUE
    BY Zenon DEF StopEvicts
  <2>2. QED
    BY <2>1, Zenon
<1>5. Root \in Cgroup
  BY DEF Cgroup
<1>6. ProcTypes'
  BY <1>1, <1>2, <1>3, <1>5 DEF ProcTypes
<1>7. TrackTypes' /\ Tracked' /\ Parents' /\ BudgetTypes' /\ targets' \in TargetSet
  BY <1>1, <1>2, FaultCounts DEF TrackTypes, Tracked, Parents, Live
<1>8. LifeTypes' /\ ScanTypes' /\ Walls' /\ StopPhases' /\ StopRestoresSystem'
  BY <1>1, <1>2, <1>4 DEF LifeTypes, ScanTypes, Walls, StopPhases, StopRestoresSystem, Nobody
<1>9. Places'
  <2>1. ASSUME NEW p \in Pid, exe[p] # None PROVE PlaceOf(p)'
    <3>1. PlaceOf(p)
      BY <1>1, <2>1 DEF Places, Live
    <3>2. cg'[p] = cg[p] \/ (cg'[p] = Root /\ p \in seen)
      <4>1. CASE cg' = [r \in Pid |-> IF r \in Live \cap seen THEN Root ELSE cg[r]]
        <5>1. cg'[p] = IF p \in Live \cap seen THEN Root ELSE cg[p]
          BY <4>1
        <5>2. QED
          BY <5>1
      <4>2. CASE cg' = cg
        BY <4>2
      <4>3. QED
        BY <1>3, <4>1, <4>2
    <3>3. p \in seen => lost[p]
      BY <1>1, <1>2 DEF StopPhases
    <3>4. QED
      BY <1>2, <3>1, <3>2, <3>3 DEF PlaceOf
  <2>2. QED
    BY <1>2, <2>1 DEF Places, Live
<1>10. QED
  BY <1>6, <1>7, <1>8, <1>9, PartsTogether

\* Whoever is left in a group of the router is abandoned there.
LEMMA Abandoned ==
  ASSUME LinuxInv, UNCHANGED <<exe, cg, parent, home>>,
         lost' = [p \in Pid |-> lost[p] \/ (p \in Live /\ Managed(p))],
         \/ UNCHANGED <<assigned, original>>
         \/ assigned' = Nobody /\ original' = Nobody
  PROVE  ProcTypes' /\ TrackTypes' /\ Tracked' /\ Places' /\ Parents'
<1>1. ProcTypes /\ TrackTypes /\ Tracked /\ Places /\ Parents
  BY TypeParts DEF LinuxInv
<1>2. \A p \in Pid : /\ lost'[p] \in BOOLEAN
                     /\ ~lost'[p] => ~lost[p] /\ (exe[p] # None => cg[p] \notin Group)
  BY DEF Live, Managed
<1>3. ProcTypes'
  <2>1. lost' \in [Pid -> BOOLEAN]
    BY <1>2
  <2>2. QED
    BY <1>1, <2>1 DEF ProcTypes
<1>4. \A p \in Pid : \/ assigned'[p] = assigned[p] /\ original'[p] = original[p]
                     \/ assigned'[p] = None /\ original'[p] = None
  BY NobodyType
<1>5. TrackTypes'
  BY <1>1, NobodyType DEF TrackTypes
<1>6. Tracked'
  BY <1>1, <1>4, NoneApart DEF Tracked
<1>7. Parents'
  BY <1>1 DEF Parents, Live
<1>8. Places'
  <2>1. ASSUME NEW p \in Pid, exe[p] # None PROVE PlaceOf(p)'
    <3>1. PlaceOf(p)
      BY <1>1, <2>1 DEF Places, Live
    <3>2. QED
      BY <1>2, <1>4, <2>1, <3>1, NoneApart DEF PlaceOf
  <2>2. QED
    BY <2>1 DEF Places, Live
<1>9. QED
  BY <1>3, <1>5, <1>6, <1>7, <1>8

LEMMA StopRemovesKeeps ==
  ASSUME LinuxInv, StopRemoves
  PROVE  LinuxInv'
<1>1. LifeTypes /\ targets \in TargetSet /\ ScanTypes /\ BudgetTypes /\ StopPhases /\ Walls
  BY TypeParts DEF LinuxInv
<1>2. /\ life = "remove" /\ life' = "off" /\ scan = None
      /\ lost' = [p \in Pid |-> lost[p] \/ (p \in Live /\ Managed(p))]
      /\ UNCHANGED <<exe, cg, parent, home, assigned, original, dns, chains, fwReady, monitor,
                     taken, snap, scan, seen, sends, faults, events, crashes, targets>>
  BY DEF StopRemoves, Free, StopIdle, NoFault, trackVars
<1>3. ProcTypes' /\ TrackTypes' /\ Tracked' /\ Places' /\ Parents'
  BY <1>2, Abandoned
<1>4. stopErr' = (stopErr \/ \E p \in Live : Managed(p)) /\ clean' = ~stopErr'
  BY DEF StopRemoves
<1>5. stopErr' \in BOOLEAN /\ clean' \in BOOLEAN
  BY <1>4, Zenon
<1>6. clean' => \A p \in Live : ~Managed(p)
  BY <1>4, Zenon
<1>7. LifeTypes' /\ targets' \in TargetSet /\ ScanTypes' /\ BudgetTypes' /\ Walls'
  BY <1>1, <1>2, <1>5 DEF LifeTypes, ScanTypes, BudgetTypes, Walls
<1>8. StopPhases'
  BY <1>1, <1>2 DEF StopPhases, Nobody
<1>9. StopRestoresSystem'
  BY <1>1, <1>2, <1>6 DEF StopRestoresSystem, StopPhases, Live, Managed
<1>10. QED
  BY <1>3, <1>7, <1>8, <1>9, PartsTogether

LEMMA CrashKeeps ==
  ASSUME LinuxInv, Crash
  PROVE  LinuxInv'
<1>1. LifeTypes /\ ScanTypes /\ BudgetTypes /\ Walls
  BY TypeParts DEF LinuxInv
<1>2. /\ crashes < MaxCrashes /\ crashes' = crashes + 1
      /\ life' = "off" /\ stopErr' = FALSE /\ clean' = FALSE /\ targets' = <<>>
      /\ assigned' = Nobody /\ original' = Nobody /\ fwReady' = FALSE
      /\ monitor' = "off" /\ taken' = Nobody /\ snap' = Nobody
      /\ scan' = None /\ seen' = {}
      /\ lost' = [p \in Pid |-> lost[p] \/ (p \in Live /\ Managed(p))]
      /\ UNCHANGED <<exe, cg, parent, home, chains, dns, sends, faults, events>>
  BY DEF Crash
<1>3. ProcTypes' /\ TrackTypes' /\ Tracked' /\ Places' /\ Parents'
  BY <1>2, Abandoned
<1>4. targets' \in TargetSet
  BY <1>2 DEF TargetSet
<1>5. LifeTypes' /\ ScanTypes' /\ Walls'
  BY <1>1, <1>2, NobodyType DEF LifeTypes, ScanTypes, Walls
<1>6. BudgetTypes'
  BY <1>1, <1>2, LinuxAssumption DEF BudgetTypes
<1>7. StopPhases' /\ StopRestoresSystem'
  BY <1>2 DEF StopPhases, StopRestoresSystem, Nobody
<1>8. QED
  BY <1>3, <1>4, <1>5, <1>6, <1>7, PartsTogether

-----------------------------------------------------------------------------
(***************************************************************************)
(* Processes come, go and change.                                          *)
(***************************************************************************)
LEMMA EventKeeps ==
  ASSUME LinuxInv, Event
  PROVE  /\ TrackTypes' /\ LifeTypes' /\ targets' \in TargetSet /\ ScanTypes' /\ BudgetTypes'
         /\ Tracked' /\ Walls'
<1>1. TrackTypes /\ LifeTypes /\ targets \in TargetSet /\ ScanTypes /\ BudgetTypes
      /\ Tracked /\ Walls
  BY TypeParts DEF LinuxInv
<1>2. UNCHANGED <<assigned, original, chains, fwReady, dns, monitor, taken, snap, scan, seen, sends,
                  faults, crashes, life, stopErr, targets, clean>>
  BY DEF Event, trackVars, wallVars, scanVars
<1>3. BudgetTypes'
  BY <1>1, <1>2, LinuxAssumption DEF BudgetTypes, Event
<1>4. TrackTypes' /\ LifeTypes' /\ targets' \in TargetSet /\ ScanTypes'
  BY <1>1, <1>2 DEF TrackTypes, LifeTypes, ScanTypes
<1>5. Tracked' /\ Walls'
  BY <1>1, <1>2 DEF Tracked, Walls
<1>6. QED
  BY <1>3, <1>4, <1>5

LEMMA BornKeeps ==
  ASSUME LinuxInv, "reuse" \notin Rare,
         NEW p \in Pid, NEW e \in Path, NEW h \in Home, NEW g \in Group \cup {Root, h},
         NEW q \in Pid \cup {None}, Born(p, e, g, h, q),
         q # None => q \in Live /\ home[q] = h,
         life = "off" /\ clean => g \notin Group
  PROVE  LinuxInv'
<1>1. ProcTypes /\ TrackTypes /\ StopPhases /\ StopRestoresSystem /\ Places /\ Parents
  BY TypeParts DEF LinuxInv
<1>2. /\ Event /\ exe[p] = None /\ original[p] = None /\ ~(life = "move" /\ p \in seen)
      /\ exe' = [exe EXCEPT ![p] = e] /\ cg' = [cg EXCEPT ![p] = g]
      /\ home' = [home EXCEPT ![p] = h] /\ parent' = [parent EXCEPT ![p] = q]
      /\ lost' = [lost EXCEPT ![p] = g \in Group \cup {Root}]
  BY DEF Born, Unused
<1>3. UNCHANGED <<assigned, original, chains, scan, seen, life, clean>>
  BY <1>2 DEF Event, trackVars, wallVars, scanVars
<1>4. /\ TrackTypes' /\ LifeTypes' /\ targets' \in TargetSet /\ ScanTypes' /\ BudgetTypes'
      /\ Tracked' /\ Walls'
  BY <1>2, EventKeeps
<1> DEFINE born == g \in Group \cup {Root}
<1>5. born \in BOOLEAN /\ lost' = [lost EXCEPT ![p] = born]
  BY <1>2
<1>6. born <=> g \in Group \cup {Root}
  OBVIOUS
<1> HIDE DEF born
<1>7. ProcTypes'
  <2>1. g \in Cgroup
    BY DEF Cgroup
  <2>2. QED
    BY <1>1, <1>2, <1>5, <2>1 DEF ProcTypes
<1>8. /\ exe'[p] = e /\ cg'[p] = g /\ home'[p] = h /\ parent'[p] = q /\ (lost'[p] <=> born)
      /\ \A r \in Pid : r # p => /\ exe'[r] = exe[r] /\ cg'[r] = cg[r] /\ home'[r] = home[r]
                                 /\ parent'[r] = parent[r] /\ lost'[r] = lost[r]
  BY <1>1, <1>2, <1>5 DEF ProcTypes
<1>9. e # None /\ p \notin Live /\ p \in Live'
  BY <1>2, <1>8, NoneApart DEF Live
<1>10. Parents'
  <2>1. ASSUME NEW r \in Pid, parent'[r] # None
        PROVE  parent'[r] \in Live' /\ home'[parent'[r]] = home'[r]
    <3>1. \A s \in Live : s \in Pid /\ s # p /\ s \in Live' /\ home'[s] = home[s]
      BY <1>8, <1>9 DEF Live
    <3>2. CASE r = p
      BY <1>8, <2>1, <3>1, <3>2
    <3>3. CASE r # p
      BY <1>1, <1>8, <2>1, <3>1, <3>3 DEF Parents
    <3>4. QED
      BY <3>2, <3>3
  <2>2. QED
    BY <2>1 DEF Parents
<1>11. Places'
  <2>1. ASSUME NEW r \in Pid, exe'[r] # None PROVE PlaceOf(r)'
    <3>1. CASE r = p
      BY <1>2, <1>3, <1>6, <1>8, <3>1, NoneApart DEF PlaceOf
    <3>2. CASE r # p
      <4>1. PlaceOf(r)
        BY <1>1, <1>8, <2>1, <3>2 DEF Places, Live
      <4>2. QED
        BY <1>3, <1>8, <3>2, <4>1 DEF PlaceOf
    <3>3. QED
      BY <3>1, <3>2
  <2>2. QED
    BY <2>1 DEF Places, Live
<1>12. StopPhases'
  <2>1. life = "move" => \A r \in seen : lost'[r]
    <3>1. ASSUME life = "move", NEW r \in seen PROVE lost'[r]
      <4>1. r # p /\ r \in Pid /\ lost[r]
        BY <1>1, <1>2, <3>1, TypeParts DEF StopPhases, LinuxInv, ScanTypes
      <4>2. QED
        BY <1>8, <4>1
    <3>2. QED
      BY <3>1
  <2>2. QED
    BY <1>1, <1>3, <2>1 DEF StopPhases, Nobody
<1>13. StopRestoresSystem'
  <2>1. ASSUME life = "off", clean, NEW r \in Pid, exe'[r] # None PROVE cg'[r] \notin Group
    <3>1. CASE r = p
      BY <1>8, <2>1, <3>1
    <3>2. CASE r # p
      BY <1>1, <1>8, <2>1, <3>2 DEF StopRestoresSystem, Live, Managed
    <3>3. QED
      BY <3>1, <3>2
  <2>2. QED
    BY <1>1, <1>3, <2>1 DEF StopRestoresSystem, Live, Managed
<1>14. QED
  BY <1>4, <1>7, <1>10, <1>11, <1>12, <1>13, PartsTogether

LEMMA ExecKeeps ==
  ASSUME LinuxInv, NEW p \in Pid, Exec(p)
  PROVE  LinuxInv'
<1>1. ProcTypes /\ StopPhases /\ StopRestoresSystem /\ Places /\ Parents
  BY TypeParts DEF LinuxInv
<1>2. Event /\ p \in Live /\ UNCHANGED <<cg, parent, home, lost>>
  BY DEF Exec
<1>3. UNCHANGED <<assigned, original, chains, scan, seen, life, clean>>
  BY <1>2 DEF Event, trackVars, wallVars, scanVars
<1>4. /\ TrackTypes' /\ LifeTypes' /\ targets' \in TargetSet /\ ScanTypes' /\ BudgetTypes'
      /\ Tracked' /\ Walls'
  BY <1>2, EventKeeps
<1>5. PICK e \in Path : exe' = [exe EXCEPT ![p] = e]
  BY DEF Exec
<1>6. ProcTypes' /\ Live' = Live
  BY <1>1, <1>2, <1>5, NoneApart DEF ProcTypes, Live
<1>7. Places' /\ Parents'
  BY <1>1, <1>2, <1>3, <1>6 DEF Places, PlaceOf, Parents
<1>8. StopPhases' /\ StopRestoresSystem'
  BY <1>1, <1>2, <1>3, <1>6 DEF StopPhases, StopRestoresSystem, Managed, Nobody
<1>9. QED
  BY <1>4, <1>6, <1>7, <1>8, PartsTogether

LEMMA ExitKeeps ==
  ASSUME LinuxInv, NEW p \in Pid, Exit(p)
  PROVE  LinuxInv'
<1>1. ProcTypes /\ StopPhases /\ StopRestoresSystem /\ Places /\ Parents
  BY TypeParts DEF LinuxInv
<1>2. /\ Event /\ p \in Live /\ UNCHANGED <<cg, home, lost>>
      /\ exe' = [exe EXCEPT ![p] = None]
      /\ parent' = [q \in Pid |-> IF parent[q] = p \/ q = p THEN None ELSE parent[q]]
  BY DEF Exit
<1>3. UNCHANGED <<assigned, original, chains, scan, seen, life, clean>>
  BY <1>2 DEF Event, trackVars, wallVars, scanVars
<1>4. /\ TrackTypes' /\ LifeTypes' /\ targets' \in TargetSet /\ ScanTypes' /\ BudgetTypes'
      /\ Tracked' /\ Walls'
  BY <1>2, EventKeeps
<1>5. ProcTypes' /\ Live' = Live \ {p}
  BY <1>1, <1>2 DEF ProcTypes, Live
<1>6. Places'
  BY <1>1, <1>2, <1>3, <1>5 DEF Places, PlaceOf
<1>7. Parents'
  <2>1. ASSUME NEW q \in Pid, parent'[q] # None
        PROVE  parent'[q] \in Live' /\ home'[parent'[q]] = home'[q]
    <3>1. parent'[q] = parent[q] /\ parent[q] # p
      BY <1>2, <2>1
    <3>2. QED
      BY <1>1, <1>2, <1>5, <2>1, <3>1 DEF Parents
  <2>2. QED
    BY <2>1 DEF Parents
<1>8. StopPhases' /\ StopRestoresSystem'
  BY <1>1, <1>2, <1>3, <1>5 DEF StopPhases, StopRestoresSystem, Managed, Nobody
<1>9. QED
  BY <1>4, <1>5, <1>6, <1>7, <1>8, PartsTogether

LEMMA LinuxInvInit == Init => LinuxInv
<1> SUFFICES ASSUME Init PROVE LinuxInv
  OBVIOUS
<1>1. /\ exe \in [Pid -> Path \cup {None}] /\ home \in [Pid -> Home] /\ cg = home
  BY LinuxAssumption DEF Init
<1>2. ProcTypes /\ TrackTypes
  <2>1. cg \in [Pid -> Cgroup] /\ lost \in [Pid -> BOOLEAN]
    BY <1>1 DEF Init, Cgroup
  <2>2. QED
    BY <1>1, <2>1, NobodyType DEF Init, ProcTypes, TrackTypes
<1>3. LifeTypes /\ targets \in TargetSet /\ ScanTypes /\ BudgetTypes
  <2>1. LifeTypes /\ BudgetTypes
    <3>1. LifeTypes
      BY DEF Init, LifeTypes
    <3>2. MaxSends \in Nat /\ MaxFaults \in Nat /\ MaxEvents \in Nat /\ MaxCrashes \in Nat
      BY LinuxAssumption
    <3>3. BudgetTypes
      BY <3>2 DEF Init, BudgetTypes
    <3>4. QED
      BY <3>1, <3>3
  <2>2. targets \in TargetSet
    BY DEF Init, TargetSet
  <2>3. ScanTypes
    BY NobodyType DEF Init, ScanTypes
  <2>4. QED
    BY <2>1, <2>2, <2>3
<1>4. TypeOK
  BY <1>2, <1>3, TypeParts
<1>5. Tracked /\ Parents
  BY NobodyType, NoneApart DEF Init, Tracked, Parents
<1>6. Places
  <2>1. ASSUME NEW p \in Pid PROVE PlaceOf(p)
    <3>1. cg[p] = home[p] /\ home[p] \in Home /\ original[p] = None
      BY <1>1, NobodyType DEF Init
    <3>2. QED
      BY <3>1, NoneApart DEF PlaceOf
  <2>2. QED
    BY <2>1 DEF Places, Live
<1>7. StopPhases /\ Walls /\ StopRestoresSystem
  BY DEF Init, StopPhases, Walls, StopRestoresSystem
<1>8. QED
  BY <1>4, <1>5, <1>6, <1>7 DEF LinuxInv

LEMMA LinuxInvStep ==
  ASSUME LinuxInv, "silent" \notin Rare, "reuse" \notin Rare, [Next]_vars
  PROVE  LinuxInv'
<1>1. CASE UNCHANGED vars
  <2>1. Still
    BY <1>1 DEF vars, Still
  <2>2. ProcTypes' /\ TrackTypes' /\ Tracked' /\ Places' /\ Parents'
    BY <2>1, StillKeeps
  <2>3. LifeTypes /\ targets \in TargetSet /\ ScanTypes /\ BudgetTypes
    BY TypeParts DEF LinuxInv
  <2>4. LifeTypes' /\ targets' \in TargetSet /\ ScanTypes' /\ BudgetTypes'
    BY <1>1, <2>3 DEF vars, wallVars, scanVars, budgetVars, LifeTypes, ScanTypes, BudgetTypes
  <2>5. StopPhases' /\ Walls'
    BY <1>1 DEF LinuxInv, vars, procVars, trackVars, wallVars, scanVars, StopPhases, Walls, Nobody
  <2>6. StopRestoresSystem'
    BY <1>1 DEF LinuxInv, vars, procVars, wallVars, StopRestoresSystem, Live, Managed
  <2>7. QED
    BY <2>2, <2>4, <2>5, <2>6, PartsTogether
<1>2. ASSUME NEW p \in Pid, Spawn(p) PROVE LinuxInv'
  <2>1. PICK e \in Path, h \in Home : Born(p, e, h, h, None)
    BY <1>2 DEF Spawn
  <2>2. h \notin Group
    BY NoneApart
  <2>3. QED
    BY <2>1, <2>2, BornKeeps
<1>3. ASSUME NEW p \in Pid, NEW q \in Pid, Fork(p, q) PROVE LinuxInv'
  <2>1. q \in Live /\ Born(p, exe[q], cg[q], home[q], q)
    BY <1>3 DEF Fork
  <2>2. ProcTypes /\ PlaceOf(q) /\ StopRestoresSystem
    BY <2>1, TypeParts DEF LinuxInv, Places
  <2>3. exe[q] \in Path /\ home[q] \in Home /\ cg[q] \in Group \cup {Root, home[q]}
    BY <2>1, <2>2 DEF ProcTypes, PlaceOf, Live
  <2>4. life = "off" /\ clean => cg[q] \notin Group
    BY <2>1, <2>2 DEF StopRestoresSystem, Managed
  <2>5. q \in Pid \cup {None}
    OBVIOUS
  <2>6. QED
    BY <2>1, <2>3, <2>4, <2>5, BornKeeps
<1>4. QED
  BY <1>1, <1>2, <1>3, StartKeeps, SendRulesKeeps, MonitorSnapshotKeeps, MonitorLocksKeeps,
     ScanOneKeeps, ScanEndKeeps, StopStillKeeps, StopRestoresKeeps, StopEvictsKeeps,
     StopRemovesKeeps, CrashKeeps, ExecKeeps, ExitKeeps DEF Next, Scanning, Stopping

\* linuxNativeProcess, for any processes, control groups, rule lists and bounds,
\* whatever fails, forks, ends or crashes, if no PID that the router still
\* remembers is reused and the chains can be deleted in Stop: a process keeps to,
\* or is remembered to belong in, its own control group, commands run under
\* installed chains, and a Stop that reports success leaves nothing.
THEOREM RoutingAlwaysSound ==
  ASSUME "silent" \notin Rare, "reuse" \notin Rare
  PROVE  Spec => []RoutingSound
<1>1. Init => LinuxInv
  BY LinuxInvInit
<1>2. LinuxInv /\ [Next]_vars => LinuxInv'
  BY LinuxInvStep
<1>3. LinuxInv => RoutingSound
  BY LinuxInvSound
<1>4. QED
  BY <1>1, <1>2, <1>3, PTL DEF Spec

-----------------------------------------------------------------------------
(***************************************************************************)
(* The scan of a pattern (WildcardScan).                                   *)
(***************************************************************************)
InScan == verdict \in {"scan", "trail", "protected"}

ScanTyped ==
  /\ pattern \in Seq(Char) /\ names \subseteq Seq(Char \ {"*"}) /\ left \subseteq names
  /\ verdict \in {"next", "scan", "trail", "protected", "free"}
  /\ InScan => value \in names \ left
  /\ value \in Seq(Char \ {"*"})
  /\ patternIndex \in 0..Len(pattern) /\ valueIndex \in 0..Len(value)
  /\ starIndex \in 0..patternIndex /\ starValueIndex \in 0..valueIndex

\* Since the last star, or the beginning, characters were compared one by one.
Compared ==
  /\ IF starIndex = 0 THEN starValueIndex = 0 ELSE pattern[starIndex] = "*"
  /\ valueIndex = starValueIndex + (patternIndex - starIndex)
  /\ \A k \in 1..(patternIndex - starIndex) : pattern[starIndex + k] # "*"

\* What was consumed matches, up to the last star and up to where the scan is.
Consumed ==
  /\ Aligned(pattern, value, starIndex, starValueIndex)
  /\ Aligned(pattern, value, patternIndex, valueIndex)

\* All of a pattern matches all of a name in the way f says.
Match(pat, name, f) ==
  /\ f \in [0..Len(pat) -> 0..Len(name)]
  /\ Fits(pat, name, f, Len(pat)) /\ f[Len(pat)] = Len(name)

\* If there is a match at all, there is one in which the last star begins to
\* match where the scan has it begin, or later: nothing was passed over.
NothingMissed ==
  Matches(pattern, value) => \E f : Match(pattern, value, f) /\ f[starIndex] >= starValueIndex

\* The name is used up: a match leaves nothing for the rest of the pattern.
RestEmpty ==
  /\ valueIndex = Len(value) /\ Aligned(pattern, value, patternIndex, valueIndex)
  /\ Matches(pattern, value) => \E f : Match(pattern, value, f) /\ f[patternIndex] = Len(value)

\* Names that were dealt with do not match.
Excluded == \A name \in names \ left : (InScan /\ name = value) \/ ~Matches(pattern, name)

ScanInv ==
  /\ ScanTyped /\ Excluded
  /\ verdict = "scan" => Compared /\ Consumed /\ NothingMissed
  /\ verdict = "trail" => RestEmpty
  /\ verdict = "protected" => Matches(pattern, value)
  /\ verdict = "free" => left = {}

\* Where a pattern has no star, a match uses up one character for each of its.
StarlessRun(pat, name, f, s, d) ==
  /\ pat \in Seq(Char) /\ name \in Seq(Char) /\ Match(pat, name, f)
  /\ s \in 0..Len(pat) /\ d \in 0..(Len(pat) - s)
  /\ \A k \in 1..d : pat[s + k] # "*"

LEMMA RunOfMatch ==
  ASSUME NEW pat, NEW name, NEW f, NEW s, NEW d, StarlessRun(pat, name, f, s, d)
  PROVE  f[s + d] = f[s] + d
<1> USE DEF StarlessRun
<1> DEFINE Bad == {k \in 0..d : f[s + k] # f[s] + k}
<1>1. SUFFICES ASSUME Bad # {} PROVE FALSE
  <2>1. d \in 0..d
    OBVIOUS
  <2>2. QED
    BY <2>1
<1>2. Bad \in SUBSET Nat
  OBVIOUS
<1>3. PICK k \in Bad : \A j \in Bad : k <= j
  BY <1>1, <1>2, LeastExists
<1>4. k # 0
  <2>1. f[s] \in 0..Len(name)
    BY DEF Match
  <2>2. QED
    BY <2>1
<1>5. /\ k - 1 \in 0..d /\ k - 1 \notin Bad /\ k \in 1..d /\ s + k \in 1..Len(pat)
      /\ (s + k) - 1 = s + (k - 1)
  BY <1>2, <1>3, <1>4
<1>6. f[s + (k - 1)] = f[s] + (k - 1)
  BY <1>5
<1>7. f[s + k] = f[(s + k) - 1] + 1
  BY <1>5 DEF Match, Fits
<1>8. f[s] \in Nat
  <2>1. Len(name) \in Nat /\ f[s] \in 0..Len(name)
    BY DEF Match
  <2>2. QED
    BY <2>1
<1>9. f[s + k] = f[s] + k
  BY <1>5, <1>6, <1>7, <1>8
<1>10. QED
  BY <1>3, <1>9

\* One character more, or a star that stands for nothing yet.
LEMMA AlignMore ==
  ASSUME NEW pat \in Seq(Char), NEW name \in Seq(Char),
         NEW p \in 0..Len(pat), NEW v \in 0..Len(name), p < Len(pat),
         Aligned(pat, name, p, v)
  PROVE  /\ pat[p + 1] = "*" => Aligned(pat, name, p + 1, v)
         /\ pat[p + 1] # "*" /\ v < Len(name) /\ name[v + 1] = pat[p + 1]
              => Aligned(pat, name, p + 1, v + 1)
<1>1. PICK f \in [0..p -> 0..v] : Fits(pat, name, f, p) /\ f[p] = v
  BY DEF Aligned
<1>2. ASSUME NEW w \in {v, v + 1},
             IF pat[p + 1] = "*" THEN w = v ELSE w = v + 1 /\ name[w] = pat[p + 1]
      PROVE  Aligned(pat, name, p + 1, w)
  <2> DEFINE g == [i \in 0..(p + 1) |-> IF i = p + 1 THEN w ELSE f[i]]
  <2>1. g \in [0..(p + 1) -> 0..w]
    <3>1. \A i \in 0..(p + 1) : i # p + 1 => i \in 0..p
      OBVIOUS
    <3>2. QED
      BY <1>1, <1>2, <3>1
  <2>2. g[0] = 0 /\ g[p + 1] = w /\ g[p] = v
    BY <1>1 DEF Fits
  <2>3. ASSUME NEW i \in 1..(p + 1)
        PROVE  IF pat[i] = "*" THEN g[i] >= g[i - 1]
               ELSE g[i] = g[i - 1] + 1 /\ name[g[i]] = pat[i]
    <3>1. CASE i = p + 1
      BY <1>2, <2>2, <3>1
    <3>2. CASE i # p + 1
      <4>1. i \in 1..p /\ i - 1 \in 0..p /\ g[i] = f[i] /\ g[i - 1] = f[i - 1]
        BY <3>2
      <4>2. QED
        BY <1>1, <4>1 DEF Fits
    <3>3. QED
      BY <3>1, <3>2
  <2> HIDE DEF g
  <2>4. Fits(pat, name, g, p + 1)
    BY <2>2, <2>3 DEF Fits
  <2>5. QED
    BY <2>1, <2>2, <2>4 DEF Aligned
<1>3. CASE pat[p + 1] = "*"
  BY <1>2, <1>3
<1>4. CASE pat[p + 1] # "*" /\ v < Len(name) /\ name[v + 1] = pat[p + 1]
  BY <1>2, <1>4
<1>5. QED
  BY <1>3, <1>4

\* A star may stand for one character more.
LEMMA AlignLonger ==
  ASSUME NEW pat \in Seq(Char), NEW name \in Seq(Char),
         NEW p \in 1..Len(pat), NEW v \in 0..Len(name), pat[p] = "*",
         Aligned(pat, name, p, v)
  PROVE  Aligned(pat, name, p, v + 1)
<1>1. PICK f \in [0..p -> 0..v] : Fits(pat, name, f, p) /\ f[p] = v
  BY DEF Aligned
<1> DEFINE g == [i \in 0..p |-> IF i = p THEN v + 1 ELSE f[i]]
<1>2. g \in [0..p -> 0..(v + 1)] /\ g[p] = v + 1 /\ g[0] = 0
  BY <1>1 DEF Fits
<1>3. ASSUME NEW i \in 1..p
      PROVE  IF pat[i] = "*" THEN g[i] >= g[i - 1]
             ELSE g[i] = g[i - 1] + 1 /\ name[g[i]] = pat[i]
  <2>1. g[i - 1] = f[i - 1] /\ f[i - 1] \in 0..v
    BY <1>1
  <2>2. CASE i = p
    BY <1>2, <2>1, <2>2
  <2>3. CASE i # p
    <3>1. g[i] = f[i]
      BY <2>3
    <3>2. QED
      BY <1>1, <2>1, <3>1 DEF Fits
  <2>4. QED
    BY <2>2, <2>3
<1> HIDE DEF g
<1>4. QED
  BY <1>2, <1>3 DEF Aligned, Fits

LEMMA AlignNothing ==
  ASSUME NEW pat, NEW name
  PROVE  Aligned(pat, name, 0, 0)
<1> DEFINE f == [i \in 0..0 |-> 0]
<1>1. f \in [0..0 -> 0..0] /\ f[0] = 0
  OBVIOUS
<1>2. Fits(pat, name, f, 0)
  BY <1>1 DEF Fits
<1>3. QED
  BY <1>1, <1>2 DEF Aligned

LEMMA MatchExists ==
  \A pat, name : Matches(pat, name) <=> \E f : Match(pat, name, f)
BY DEF Matches, Aligned, Match

\* A step that goes on with the same name disturbs no other.
LEMMA ExcludedKept ==
  ASSUME Excluded, InScan, UNCHANGED <<pattern, names, left, value>>,
         InScan' \/ ~Matches(pattern, value)
  PROVE  Excluded'
<1> SUFFICES ASSUME NEW name \in names \ left
             PROVE  (InScan' /\ name = value) \/ ~Matches(pattern, name)
  BY DEF Excluded
<1>1. CASE name = value
  BY <1>1
<1>2. CASE name # value
  BY <1>2 DEF Excluded
<1>3. QED
  BY <1>1, <1>2

LEMMA NextNameKeeps == ASSUME ScanInv, NextName PROVE ScanInv'
<1>1. /\ value' \in left /\ left' = left \ {value'} /\ verdict' = "scan"
      /\ patternIndex' = 0 /\ valueIndex' = 0 /\ starIndex' = 0 /\ starValueIndex' = 0
      /\ pattern' = pattern /\ names' = names
  BY DEF NextName
<1>2. ScanTyped'
  <2>1. value' \in Seq(Char \ {"*"})
    BY <1>1 DEF ScanInv, ScanTyped
  <2>2. Len(pattern) \in Nat /\ Len(value') \in Nat
    BY <2>1 DEF ScanInv, ScanTyped
  <2>3. QED
    BY <1>1, <2>1, <2>2 DEF ScanInv, ScanTyped, InScan
<1>3. Excluded'
  <2>1. \A name \in names \ left : ~Matches(pattern, name)
    BY DEF ScanInv, Excluded, InScan, NextName
  <2>2. QED
    BY <1>1, <2>1 DEF Excluded, InScan
<1>4. Compared'
  BY <1>1 DEF Compared
<1>5. Consumed'
  BY <1>1, AlignNothing DEF Consumed
<1>6. NothingMissed'
  <2>1. SUFFICES ASSUME NEW f, Match(pattern, value', f)
                 PROVE  f[0] >= 0
    BY <1>1, MatchExists DEF NothingMissed
  <2>2. QED
    BY <2>1 DEF Match, Fits
<1>7. QED
  BY <1>1, <1>2, <1>3, <1>4, <1>5, <1>6 DEF ScanInv

LEMMA NoMoreNamesKeeps == ASSUME ScanInv, NoMoreNames PROVE ScanInv'
<1>1. /\ verdict = "next" /\ left = {} /\ verdict' = "free"
      /\ UNCHANGED <<pattern, names, left, value, patternIndex, valueIndex, starIndex,
                     starValueIndex>>
  BY DEF NoMoreNames, inputs
<1>2. ScanTyped'
  BY <1>1 DEF ScanInv, ScanTyped, InScan
<1>3. Excluded'
  BY <1>1 DEF ScanInv, Excluded, InScan
<1>4. QED
  BY <1>1, <1>2, <1>3 DEF ScanInv

\* The characters and indices that a step of the first loop looks at.
LEMMA ScanFacts ==
  ASSUME ScanInv, InName
  PROVE  /\ pattern \in Seq(Char) /\ value \in Seq(Char) /\ Len(pattern) \in Nat
         /\ Len(value) \in Nat /\ value[valueIndex + 1] # "*"
         /\ patternIndex \in 0..Len(pattern) /\ valueIndex \in 0..(Len(value) - 1)
         /\ starIndex \in 0..patternIndex /\ starValueIndex \in 0..valueIndex
         /\ Compared /\ Consumed /\ NothingMissed /\ InScan
<1>1. value \in Seq(Char \ {"*"}) /\ value \in Seq(Char)
  BY DEF ScanInv, ScanTyped
<1>2. Len(value) \in Nat /\ Len(pattern) \in Nat
  BY <1>1 DEF ScanInv, ScanTyped
<1>3. valueIndex + 1 \in 1..Len(value)
  BY <1>2 DEF ScanInv, ScanTyped, InName
<1>4. value[valueIndex + 1] \in Char \ {"*"}
  BY <1>1, <1>3, ElementOfSeq
<1>5. QED
  BY <1>1, <1>2, <1>3, <1>4 DEF ScanInv, ScanTyped, InName, InScan

LEMMA CompareEqualKeeps == ASSUME ScanInv, CompareEqual PROVE ScanInv'
<1> DEFINE p == patternIndex  v == valueIndex
<1>1. /\ InName /\ p < Len(pattern) /\ pattern[p + 1] = value[v + 1]
      /\ patternIndex' = p + 1 /\ valueIndex' = v + 1
      /\ UNCHANGED <<pattern, names, left, value, starIndex, starValueIndex, verdict>>
  BY DEF CompareEqual, Same, InPattern, inputs
<1>2. ScanTyped'
  <2>1. /\ p + 1 \in 0..Len(pattern) /\ v + 1 \in 0..Len(value)
        /\ starIndex \in 0..(p + 1) /\ starValueIndex \in 0..(v + 1)
    BY <1>1, ScanFacts
  <2>2. QED
    BY <1>1, <2>1 DEF ScanInv, ScanTyped, InScan
<1>3. Excluded'
  BY <1>1 DEF ScanInv, Excluded, InScan
<1>4. Compared'
  <2>1. \A k \in 1..((p + 1) - starIndex) : pattern[starIndex + k] # "*"
    <3> SUFFICES ASSUME NEW k \in 1..((p + 1) - starIndex) PROVE pattern[starIndex + k] # "*"
      OBVIOUS
    <3>1. CASE k \in 1..(p - starIndex)
      BY <1>1, <3>1, ScanFacts DEF Compared
    <3>2. CASE k \notin 1..(p - starIndex)
      <4>1. starIndex + k = p + 1
        BY <1>1, <3>2, ScanFacts
      <4>2. QED
        BY <1>1, <4>1, ScanFacts
    <3>3. QED
      BY <3>1, <3>2
  <2>2. v + 1 = starValueIndex + ((p + 1) - starIndex)
    BY <1>1, ScanFacts DEF Compared
  <2>3. QED
    BY <1>1, <2>1, <2>2, ScanFacts DEF Compared
<1>5. Consumed'
  <2>1. Aligned(pattern, value, p + 1, v + 1)
    BY <1>1, ScanFacts, AlignMore DEF Consumed
  <2>2. QED
    BY <1>1, <2>1, ScanFacts DEF Consumed
<1>6. NothingMissed'
  BY <1>1, ScanFacts DEF NothingMissed
<1>7. QED
  BY <1>1, <1>2, <1>3, <1>4, <1>5, <1>6 DEF ScanInv, InName

\* A match that begins the last star no earlier than the scan has, at the place
\* where the scan is, uses up at least as much.
LEMMA MatchGoesOn ==
  ASSUME ScanInv, InName, NEW f, Match(pattern, value, f), f[starIndex] >= starValueIndex
  PROVE  /\ f[patternIndex] = f[starIndex] + (patternIndex - starIndex)
         /\ f[patternIndex] >= valueIndex
         /\ f[patternIndex] \in 0..Len(value) /\ f[starIndex] \in 0..Len(value)
<1> DEFINE d == patternIndex - starIndex
<1>1. /\ starIndex \in 0..Len(pattern) /\ d \in 0..(Len(pattern) - starIndex)
      /\ \A k \in 1..d : pattern[starIndex + k] # "*"
      /\ starIndex + d = patternIndex
  BY ScanFacts DEF Compared
<1>2. f[starIndex + d] = f[starIndex] + d
  <2>1. pattern \in Seq(Char) /\ value \in Seq(Char)
    BY ScanFacts
  <2> HIDE DEF d
  <2>2. StarlessRun(pattern, value, f, starIndex, d)
    BY <1>1, <2>1 DEF StarlessRun
  <2>3. QED
    BY <2>2, RunOfMatch
<1>3. f[starIndex] \in 0..Len(value) /\ f[patternIndex] \in 0..Len(value)
  BY <1>1, ScanFacts DEF Match
<1>4. valueIndex = starValueIndex + d
  BY ScanFacts DEF Compared
<1>5. f[patternIndex] = f[starIndex] + d
  BY <1>1, <1>2
<1>6. f[patternIndex] >= valueIndex
  <2>1. starValueIndex \in Nat /\ d \in Nat /\ f[starIndex] \in Nat
    BY <1>1, <1>3, ScanFacts
  <2> HIDE DEF d
  <2>2. QED
    BY <1>4, <1>5, <2>1
<1>7. QED
  BY <1>3, <1>5, <1>6

LEMMA TakeStarKeeps == ASSUME ScanInv, TakeStar PROVE ScanInv'
<1> DEFINE p == patternIndex  v == valueIndex
<1>1. /\ InName /\ p < Len(pattern) /\ pattern[p + 1] = "*"
      /\ starIndex' = p + 1 /\ starValueIndex' = v /\ patternIndex' = p + 1
      /\ UNCHANGED <<pattern, names, left, value, valueIndex, verdict>>
  BY DEF TakeStar, AtStar, InPattern, inputs
<1>2. ScanTyped'
  <2>1. p + 1 \in 0..Len(pattern) /\ p + 1 \in 0..(p + 1) /\ v \in 0..v
    BY <1>1, ScanFacts
  <2>2. QED
    BY <1>1, <2>1 DEF ScanInv, ScanTyped, InScan
<1>3. Excluded'
  BY <1>1 DEF ScanInv, Excluded, InScan
<1>4. Compared'
  <2>1. p + 1 # 0 /\ (p + 1) - (p + 1) = 0 /\ v = v + 0
    BY <1>1, ScanFacts
  <2>2. QED
    BY <1>1, <2>1 DEF Compared
<1>5. Consumed'
  <2>1. Aligned(pattern, value, p + 1, v)
    BY <1>1, ScanFacts, AlignMore DEF Consumed
  <2>2. QED
    BY <1>1, <2>1 DEF Consumed
<1>6. NothingMissed'
  <2>1. SUFFICES ASSUME Matches(pattern, value)
                 PROVE  \E f : Match(pattern, value, f) /\ f[p + 1] >= v
    BY <1>1 DEF NothingMissed
  <2>2. PICK f : Match(pattern, value, f) /\ f[starIndex] >= starValueIndex
    BY <1>1, <2>1, ScanFacts DEF NothingMissed
  <2>3. f[p] >= v /\ f[p] \in 0..Len(value)
    BY <1>1, <2>2, MatchGoesOn
  <2>4. p + 1 \in 1..Len(pattern) /\ (p + 1) - 1 = p
    BY <1>1, ScanFacts
  <2>5. f[p + 1] >= f[p] /\ f[p + 1] \in 0..Len(value)
    BY <1>1, <2>2, <2>4 DEF Match, Fits
  <2>6. QED
    BY <1>1, <2>2, <2>3, <2>5, ScanFacts
<1>7. QED
  BY <1>1, <1>2, <1>3, <1>4, <1>5, <1>6 DEF ScanInv, InName

\* Where the scan fails no match goes on.
LEMMA NoMatchHere ==
  ASSUME ScanInv, InName, ~Same, ~AtStar, NEW f, Match(pattern, value, f),
         f[starIndex] >= starValueIndex
  PROVE  f[starIndex] >= starValueIndex + 1
<1> DEFINE p == patternIndex  v == valueIndex
<1>1. SUFFICES ASSUME f[starIndex] = starValueIndex PROVE FALSE
  BY ScanFacts, MatchGoesOn
<1>2. f[p] = v
  BY <1>1, ScanFacts, MatchGoesOn DEF Compared
<1>3. p < Len(pattern)
  <2>1. SUFFICES ASSUME p = Len(pattern) PROVE FALSE
    BY ScanFacts
  <2>2. QED
    BY <1>2, <2>1, ScanFacts DEF Match
<1>4. pattern[p + 1] # value[v + 1] /\ pattern[p + 1] # "*"
  BY <1>3 DEF Same, AtStar, InPattern
<1>5. p + 1 \in 1..Len(pattern) /\ (p + 1) - 1 = p
  BY <1>3, ScanFacts
<1>6. f[p + 1] = v + 1 /\ value[f[p + 1]] = pattern[p + 1]
  BY <1>2, <1>4, <1>5 DEF Match, Fits
<1>7. QED
  BY <1>4, <1>6

LEMMA BacktrackKeeps == ASSUME ScanInv, Backtrack PROVE ScanInv'
<1> DEFINE s == starIndex  w == starValueIndex + 1
<1>1. /\ InName /\ ~Same /\ ~AtStar /\ s # 0
      /\ patternIndex' = s /\ starValueIndex' = w /\ valueIndex' = w
      /\ UNCHANGED <<pattern, names, left, value, starIndex, verdict>>
  BY DEF Backtrack, inputs
<1>2. /\ s \in 1..Len(pattern) /\ w \in 0..Len(value) /\ s \in 0..s /\ w \in 0..w
      /\ pattern[s] = "*"
  BY <1>1, ScanFacts DEF Compared
<1>3. ScanTyped'
  BY <1>1, <1>2 DEF ScanInv, ScanTyped, InScan
<1>4. Excluded'
  BY <1>1 DEF ScanInv, Excluded, InScan
<1>5. Compared'
  BY <1>1, <1>2 DEF Compared
<1>6. Consumed'
  <2>1. starValueIndex \in 0..Len(value) /\ Aligned(pattern, value, s, starValueIndex)
    BY <1>1, ScanFacts DEF Consumed
  <2>2. Aligned(pattern, value, s, w)
    BY <1>1, <1>2, <2>1, ScanFacts, AlignLonger
  <2>3. QED
    BY <1>1, <2>2 DEF Consumed
<1>7. NothingMissed'
  <2>1. SUFFICES ASSUME Matches(pattern, value)
                 PROVE  \E f : Match(pattern, value, f) /\ f[s] >= w
    BY <1>1 DEF NothingMissed
  <2>2. PICK f : Match(pattern, value, f) /\ f[starIndex] >= starValueIndex
    BY <1>1, <2>1, ScanFacts DEF NothingMissed
  <2>3. QED
    BY <1>1, <2>2, NoMatchHere
<1>8. QED
  BY <1>1, <1>3, <1>4, <1>5, <1>6, <1>7 DEF ScanInv, InName

LEMMA MismatchKeeps == ASSUME ScanInv, Mismatch PROVE ScanInv'
<1>1. /\ InName /\ ~Same /\ ~AtStar /\ starIndex = 0 /\ verdict' = "next"
      /\ UNCHANGED <<pattern, names, left, value, patternIndex, valueIndex, starIndex,
                     starValueIndex>>
  BY DEF Mismatch, inputs
<1>2. ~Matches(pattern, value)
  <2>1. SUFFICES ASSUME Matches(pattern, value) PROVE FALSE
    OBVIOUS
  <2>2. PICK f : Match(pattern, value, f) /\ f[starIndex] >= starValueIndex
    BY <1>1, <2>1, ScanFacts DEF NothingMissed
  <2>3. f[0] >= starValueIndex + 1 /\ f[0] = 0
    BY <1>1, <2>2, NoMatchHere DEF Match, Fits
  <2>4. QED
    BY <1>1, <2>3, ScanFacts
<1>3. Excluded'
  BY <1>1, <1>2, ScanFacts, ExcludedKept DEF ScanInv
<1>4. ScanTyped'
  BY <1>1 DEF ScanInv, ScanTyped, InScan
<1>5. QED
  BY <1>1, <1>3, <1>4 DEF ScanInv

LEMMA NameUsedUpKeeps == ASSUME ScanInv, NameUsedUp PROVE ScanInv'
<1> DEFINE p == patternIndex  d == patternIndex - starIndex
<1>1. /\ verdict = "scan" /\ valueIndex = Len(value) /\ verdict' = "trail"
      /\ UNCHANGED <<pattern, names, left, value, patternIndex, valueIndex, starIndex,
                     starValueIndex>>
  BY DEF NameUsedUp, inputs
<1>2. /\ pattern \in Seq(Char) /\ value \in Seq(Char)
      /\ Len(pattern) \in Nat /\ Len(value) \in Nat
      /\ p \in 0..Len(pattern) /\ starIndex \in 0..p /\ starValueIndex \in 0..valueIndex
      /\ Compared /\ Consumed /\ NothingMissed
  BY <1>1 DEF ScanInv, ScanTyped
<1>3. RestEmpty'
  <2>1. SUFFICES ASSUME Matches(pattern, value)
                 PROVE  \E f : Match(pattern, value, f) /\ f[p] = Len(value)
    BY <1>1, <1>2 DEF RestEmpty, Consumed
  <2>2. PICK f : Match(pattern, value, f) /\ f[starIndex] >= starValueIndex
    BY <1>2, <2>1 DEF NothingMissed
  <2>3. /\ starIndex \in 0..Len(pattern) /\ d \in 0..(Len(pattern) - starIndex)
        /\ \A k \in 1..d : pattern[starIndex + k] # "*"
        /\ starIndex + d = p
    BY <1>2 DEF Compared
  <2>4. f[starIndex + d] = f[starIndex] + d
    <3> HIDE DEF d
    <3>1. StarlessRun(pattern, value, f, starIndex, d)
      BY <1>2, <2>2, <2>3 DEF StarlessRun
    <3>2. QED
      BY <3>1, RunOfMatch
  <2>5. f[starIndex] \in 0..Len(value) /\ f[p] \in 0..Len(value)
    BY <1>2, <2>2, <2>3 DEF Match
  <2>6. Len(value) = starValueIndex + d
    BY <1>1, <1>2 DEF Compared
  <2>7. f[p] = Len(value)
    BY <1>1, <1>2, <2>2, <2>3, <2>4, <2>5, <2>6
  <2>8. QED
    BY <2>2, <2>7
<1>4. ScanTyped' /\ Excluded'
  BY <1>1 DEF ScanInv, ScanTyped, Excluded, InScan
<1>5. QED
  BY <1>1, <1>3, <1>4 DEF ScanInv

LEMMA TrailFacts ==
  ASSUME ScanInv, verdict = "trail"
  PROVE  /\ pattern \in Seq(Char) /\ value \in Seq(Char)
         /\ Len(pattern) \in Nat /\ Len(value) \in Nat
         /\ patternIndex \in 0..Len(pattern) /\ valueIndex = Len(value)
         /\ starIndex \in 0..patternIndex
         /\ RestEmpty /\ InScan /\ value \in names
BY DEF ScanInv, ScanTyped, RestEmpty, InScan

LEMMA SkipStarKeeps == ASSUME ScanInv, SkipStar PROVE ScanInv'
<1> DEFINE p == patternIndex
<1>1. /\ verdict = "trail" /\ p < Len(pattern) /\ pattern[p + 1] = "*"
      /\ patternIndex' = p + 1
      /\ UNCHANGED <<pattern, names, left, value, valueIndex, starIndex, starValueIndex,
                     verdict>>
  BY DEF SkipStar, AtStar, InPattern, inputs
<1>2. p + 1 \in 1..Len(pattern) /\ (p + 1) - 1 = p /\ starIndex \in 0..(p + 1)
  BY <1>1, TrailFacts
<1>3. ScanTyped' /\ Excluded'
  BY <1>1, <1>2 DEF ScanInv, ScanTyped, Excluded, InScan
<1>4. RestEmpty'
  <2>1. Aligned(pattern, value, p + 1, valueIndex)
    BY <1>1, TrailFacts, AlignMore DEF RestEmpty
  <2>2. ASSUME NEW f, Match(pattern, value, f), f[p] = Len(value)
        PROVE  f[p + 1] = Len(value)
    <3>1. f[p + 1] >= f[p] /\ f[p + 1] \in 0..Len(value)
      BY <1>1, <1>2, <2>2 DEF Match, Fits
    <3>2. QED
      BY <1>1, <2>2, <3>1, TrailFacts
  <2>3. QED
    BY <1>1, <2>1, <2>2, TrailFacts DEF RestEmpty
<1>5. QED
  BY <1>1, <1>3, <1>4 DEF ScanInv

LEMMA AnswerKeeps == ASSUME ScanInv, Answer PROVE ScanInv'
<1> DEFINE p == patternIndex
<1>1. /\ verdict = "trail" /\ ~AtStar
      /\ verdict' = IF p = Len(pattern) THEN "protected" ELSE "next"
      /\ UNCHANGED <<pattern, names, left, value, patternIndex, valueIndex, starIndex,
                     starValueIndex>>
  BY DEF Answer, inputs
<1>2. p = Len(pattern) <=> Matches(pattern, value)
  <2>1. ASSUME p = Len(pattern) PROVE Matches(pattern, value)
    BY <1>1, <2>1, TrailFacts DEF RestEmpty, Matches
  <2>2. ASSUME Matches(pattern, value), p # Len(pattern) PROVE FALSE
    <3>1. PICK f : Match(pattern, value, f) /\ f[p] = Len(value)
      BY <1>1, <2>2, TrailFacts DEF RestEmpty
    <3>2. p + 1 \in 1..Len(pattern) /\ (p + 1) - 1 = p /\ pattern[p + 1] # "*"
      BY <1>1, <2>2, TrailFacts DEF AtStar, InPattern
    <3>3. f[p + 1] = Len(value) + 1 /\ f[p + 1] \in 0..Len(value)
      BY <3>1, <3>2 DEF Match, Fits
    <3>4. QED
      BY <1>1, <3>3, TrailFacts
  <2>3. QED
    BY <2>1, <2>2
<1>3. Excluded'
  BY <1>1, <1>2, TrailFacts, ExcludedKept DEF ScanInv, InScan
<1>4. ScanTyped'
  BY <1>1 DEF ScanInv, ScanTyped, InScan
<1>5. QED
  BY <1>1, <1>2, <1>3, <1>4 DEF ScanInv

LEMMA ScanInvInit == ScanInit => ScanInv
<1> SUFFICES ASSUME ScanInit PROVE ScanInv
  OBVIOUS
<1>1. ScanTyped
  <2>1. pattern \in Seq(Char) /\ names \subseteq Seq(Char \ {"*"})
    BY ScanAssumption DEF ScanInit
  <2>2. Len(pattern) \in Nat /\ value \in Seq(Char \ {"*"}) /\ Len(value) = 0
    BY <2>1 DEF ScanInit
  <2>3. QED
    BY <2>1, <2>2 DEF ScanInit, ScanTyped, InScan
<1>2. QED
  BY <1>1 DEF ScanInit, ScanInv, Excluded

LEMMA ScanInvStep == ScanInv /\ [ScanNext]_matchVars => ScanInv'
<1> SUFFICES ASSUME ScanInv, [ScanNext]_matchVars PROVE ScanInv'
  OBVIOUS
<1>1. CASE UNCHANGED matchVars
  BY <1>1 DEF matchVars, ScanInv, ScanTyped, Excluded, InScan, Compared, Consumed,
              NothingMissed, RestEmpty
<1>2. QED
  BY <1>1, NextNameKeeps, NoMoreNamesKeeps, CompareEqualKeeps, TakeStarKeeps,
     BacktrackKeeps, MismatchKeeps, NameUsedUpKeeps, SkipStarKeeps, AnswerKeeps DEF ScanNext

LEMMA ScanInvDecides == ScanInv => ProtectedDecided
BY DEF ScanInv, ScanTyped, Excluded, InScan, ProtectedDecided

-----------------------------------------------------------------------------
(***************************************************************************)
(* Rules from a request to the matching of a process (RuleStore).          *)
(***************************************************************************)
Accepted(q) ==
  Len(q) <= MaxRules /\ (\A i \in DOMAIN q : ValidRule(q[i])) /\ NoDuplicates(q)
Below(q, i) == {j \in DOMAIN q : q[j].priority < q[i].priority}

\* The rule that sorting puts at position k, and what becomes of it.
Sorted(q, k) == CHOOSE i \in DOMAIN q : Rank(q, i) = k
Renumbered(r, k) == [r EXCEPT !.priority = k, !.kind = KindOf(r)]

LEMMA NormalizedIs ==
  ASSUME NEW q, Accepted(q)
  PROVE  NormalizeRules(q) = [k \in DOMAIN q |-> Renumbered(q[Sorted(q, k)], k)]
BY DEF NormalizeRules, Accepted, Renumbered, Sorted

LEMMA RejectedOtherwise ==
  ASSUME NEW q, NormalizeRules(q) # Rejected
  PROVE  Accepted(q)
BY DEF NormalizeRules, Accepted

LEMMA RuleAt ==
  ASSUME NEW q \in Seq(Rule), NEW i \in DOMAIN q
  PROVE  q[i] \in Rule /\ q[i].priority \in Int
<1>1. q[i] \in Rule
  OBVIOUS
<1>2. QED
  BY <1>1 DEF Rule

LEMMA BelowFinite ==
  ASSUME NEW q \in Seq(Rule), NEW i \in DOMAIN q
  PROVE  /\ IsFiniteSet(Below(q, i)) /\ Cardinality(Below(q, i)) \in 0..(Len(q) - 1)
         /\ Rank(q, i) = 1 + Cardinality(Below(q, i))
<1>1. DOMAIN q = 1..Len(q) /\ Len(q) \in Nat /\ q[i] \in Rule
  OBVIOUS
<1>2. IsFiniteSet(DOMAIN q) /\ Cardinality(DOMAIN q) = Len(q)
  <2>1. IsFiniteSet(1..Len(q)) /\ Cardinality(1..Len(q)) = IF 1 > Len(q) THEN 0 ELSE Len(q) - 1 + 1
    BY <1>1, FS_Interval
  <2>2. QED
    BY <1>1, <2>1
<1>3. IsFiniteSet(DOMAIN q \ {i}) /\ Cardinality(DOMAIN q \ {i}) = Len(q) - 1
  BY <1>2, FS_RemoveElement
<1>4. q[i].priority \in Int
  BY <1>1 DEF Rule
<1>5. Below(q, i) \in SUBSET (DOMAIN q \ {i})
  BY <1>4 DEF Below
<1>6. IsFiniteSet(Below(q, i)) /\ Cardinality(Below(q, i)) <= Len(q) - 1
  BY <1>3, <1>5, FS_Subset
<1>7. Cardinality(Below(q, i)) \in Nat
  BY <1>6, FS_CardinalityType
<1>8. QED
  BY <1>1, <1>6, <1>7 DEF Rank, Below

LEMMA RankGrows ==
  ASSUME NEW q \in Seq(Rule), NEW i \in DOMAIN q, NEW j \in DOMAIN q,
         q[i].priority < q[j].priority
  PROVE  Rank(q, i) < Rank(q, j)
<1>1. \A k \in DOMAIN q : q[k].priority \in Int
  BY RuleAt
<1>2. Below(q, i) \cup {i} \in SUBSET Below(q, j) /\ i \notin Below(q, i)
  BY <1>1 DEF Below
<1>3. Cardinality(Below(q, i) \cup {i}) = Cardinality(Below(q, i)) + 1
  BY <1>2, BelowFinite, FS_AddElement
<1>4. IsFiniteSet(Below(q, j))
  BY BelowFinite
<1>5. Cardinality(Below(q, i) \cup {i}) <= Cardinality(Below(q, j))
  BY <1>2, <1>4, FS_Subset
<1>6. QED
  BY <1>3, <1>5, BelowFinite

\* Sorting orders rules as their priorities do.
LEMMA RankOrder ==
  ASSUME NEW q \in Seq(Rule), Accepted(q), NEW i \in DOMAIN q, NEW j \in DOMAIN q
  PROVE  /\ q[i].priority <= q[j].priority <=> Rank(q, i) <= Rank(q, j)
         /\ Rank(q, i) = Rank(q, j) => i = j
         /\ Rank(q, i) \in 1..Len(q)
<1>1. q[i].priority \in Int /\ q[j].priority \in Int
  BY RuleAt
<1>2. /\ Rank(q, i) \in 1..Len(q) /\ Rank(q, j) \in 1..Len(q)
  <2>1. Len(q) \in Nat
    OBVIOUS
  <2>2. QED
    BY <2>1, BelowFinite
<1>3. q[i].priority = q[j].priority => i = j
  BY DEF Accepted, NoDuplicates, Distinct
<1>4. /\ q[i].priority < q[j].priority => Rank(q, i) < Rank(q, j)
      /\ q[j].priority < q[i].priority => Rank(q, j) < Rank(q, i)
  BY RankGrows
<1>5. QED
  BY <1>1, <1>2, <1>3, <1>4

\* Every position gets a rule: ranks are distinct and as many as the rules.
LEMMA RankOnto ==
  ASSUME NEW q \in Seq(Rule), Accepted(q), NEW k \in DOMAIN q
  PROVE  Sorted(q, k) \in DOMAIN q /\ Rank(q, Sorted(q, k)) = k
<1> DEFINE f == [i \in DOMAIN q |-> Rank(q, i)]  D == DOMAIN q
<1>1. D = 1..Len(q) /\ Len(q) \in Nat /\ IsFiniteSet(D)
  <2>1. DOMAIN q = 1..Len(q) /\ Len(q) \in Nat
    OBVIOUS
  <2>2. QED
    BY <2>1, FS_Interval
<1>2. f \in Injection(D, D)
  <2>1. f \in [D -> D]
    BY <1>1, RankOrder
  <2>2. \A a, b \in D : f[a] = f[b] => a = b
    BY RankOrder
  <2> HIDE DEF f
  <2>3. QED
    BY <2>1, <2>2 DEF Injection, IsInjective
<1> HIDE DEF f
<1>3. f \in Surjection(D, D)
  BY <1>1, <1>2, FS_Injection
<1>4. \E i \in D : f[i] = k
  BY <1>3 DEF Surjection
<1>5. \E i \in DOMAIN q : Rank(q, i) = k
  BY <1>4 DEF f
<1>6. QED
  BY <1>5 DEF Sorted

\* What renumbering leaves of a rule.
LEMMA RenumberedIs ==
  ASSUME NEW r \in Rule, NEW k \in Int
  PROVE  /\ Renumbered(r, k) \in Rule /\ Renumbered(r, k).priority = k
         /\ Renumbered(r, k).kind = KindOf(r) /\ KindOf(Renumbered(r, k)) = KindOf(r)
         /\ Renumbered(r, k).id = r.id /\ Renumbered(r, k).path = r.path
         /\ Renumbered(r, k).name = r.name /\ Renumbered(r, k).protocol = r.protocol
         /\ Renumbered(r, k).action = r.action /\ Renumbered(r, k).enabled = r.enabled
         /\ Identifier(Renumbered(r, k)) = Identifier(r)
<1>1. KindOf(r) \in Kind /\ KindOf(r) # ""
  BY DEF KindOf, Rule, Kind
<1>2. /\ Renumbered(r, k) \in Rule /\ Renumbered(r, k).priority = k
      /\ Renumbered(r, k).kind = KindOf(r)
      /\ Renumbered(r, k).id = r.id /\ Renumbered(r, k).path = r.path
      /\ Renumbered(r, k).name = r.name /\ Renumbered(r, k).protocol = r.protocol
      /\ Renumbered(r, k).action = r.action /\ Renumbered(r, k).enabled = r.enabled
  BY <1>1 DEF Renumbered, Rule
<1>3. KindOf(Renumbered(r, k)) = KindOf(r)
  BY <1>1, <1>2 DEF KindOf
<1>4. QED
  BY <1>2, <1>3 DEF Identifier

\* A rule that has its number and its kind is not changed again.
LEMMA RenumberedAgain ==
  ASSUME NEW r \in Rule, r.kind = KindOf(r)
  PROVE  Renumbered(r, r.priority) = r
BY DEF Renumbered, Rule

\* The rules that normalization returns.
LEMMA NormalizedFacts ==
  ASSUME NEW q \in Seq(Rule), Accepted(q)
  PROVE  /\ NormalizeRules(q) \in Seq(Rule) /\ DOMAIN NormalizeRules(q) = DOMAIN q
         /\ Len(NormalizeRules(q)) = Len(q)
         /\ \A k \in DOMAIN q :
              /\ NormalizeRules(q)[k] = Renumbered(q[Sorted(q, k)], k)
              /\ Sorted(q, k) \in DOMAIN q /\ q[Sorted(q, k)] \in Rule /\ k \in Int
<1> DEFINE out == NormalizeRules(q)
<1>1. out = [k \in DOMAIN q |-> Renumbered(q[Sorted(q, k)], k)]
  BY NormalizedIs
<1>2. DOMAIN q = 1..Len(q) /\ Len(q) \in Nat
  OBVIOUS
<1>3. \A k \in DOMAIN q :
        Sorted(q, k) \in DOMAIN q /\ q[Sorted(q, k)] \in Rule /\ k \in Int
  BY <1>2, RankOnto, RuleAt
<1>4. \A k \in DOMAIN q : Renumbered(q[Sorted(q, k)], k) \in Rule
  BY <1>3, RenumberedIs
<1>5. out \in [1..Len(q) -> Rule]
  BY <1>1, <1>2, <1>4
<1>6. out \in Seq(Rule) /\ Len(out) = Len(q)
  BY <1>2, <1>5
<1>7. QED
  BY <1>1, <1>3, <1>6

\* Normalized rules are accepted: no rule becomes invalid or the copy of another.
LEMMA NormalizedAccepted ==
  ASSUME NEW q \in Seq(Rule), Accepted(q)
  PROVE  Accepted(NormalizeRules(q))
<1> DEFINE out == NormalizeRules(q)  From(k) == q[Sorted(q, k)]
<1>1. /\ DOMAIN out = DOMAIN q /\ Len(out) = Len(q)
      /\ Len(q) \in Nat /\ DOMAIN q = 1..Len(q) /\ Len(q) <= MaxRules /\ MaxRules \in Nat
  BY NormalizedFacts, StoreAssumption DEF Accepted
<1>2. ASSUME NEW k \in DOMAIN q
      PROVE  /\ out[k].priority = k /\ out[k].id = From(k).id
             /\ KindOf(out[k]) = KindOf(From(k)) /\ Identifier(out[k]) = Identifier(From(k))
             /\ out[k].path = From(k).path /\ out[k].name = From(k).name
             /\ out[k].protocol = From(k).protocol /\ out[k].action = From(k).action
             /\ Sorted(q, k) \in DOMAIN q
  <2>1. /\ out[k] = Renumbered(From(k), k) /\ From(k) \in Rule /\ k \in Int
        /\ Sorted(q, k) \in DOMAIN q
    BY NormalizedFacts
  <2> HIDE DEF out, From
  <2>2. QED
    BY <2>1, RenumberedIs
<1>3. ASSUME NEW k \in DOMAIN q PROVE ValidRule(out[k])
  <2>1. ValidRule(From(k))
    BY <1>2 DEF Accepted
  <2>2. k \in 1..MaxRules
    BY <1>1
  <2> HIDE DEF out, From
  <2>3. QED
    BY <1>2, <2>1, <2>2 DEF ValidRule
<1>4. ASSUME NEW k \in DOMAIN q, NEW l \in DOMAIN q, Sorted(q, k) = Sorted(q, l)
      PROVE  k = l
  BY <1>4, RankOnto
<1>5. ASSUME NEW k \in DOMAIN q, NEW l \in DOMAIN q
      PROVE  /\ out[k].id = out[l].id => k = l
             /\ Identifier(out[k]) = Identifier(out[l]) => k = l
             /\ out[k].priority = out[l].priority => k = l
  <2>1. /\ Sorted(q, k) \in DOMAIN q /\ Sorted(q, l) \in DOMAIN q
        /\ out[k].id = From(k).id /\ out[l].id = From(l).id
        /\ Identifier(out[k]) = Identifier(From(k))
        /\ Identifier(out[l]) = Identifier(From(l))
        /\ out[k].priority = k /\ out[l].priority = l
    BY <1>2
  <2>2. \A i, j \in DOMAIN q : /\ q[i].id = q[j].id => i = j
                               /\ Identifier(q[i]) = Identifier(q[j]) => i = j
    BY DEF Accepted, NoDuplicates, Distinct
  <2> HIDE DEF out
  <2>3. QED
    BY <1>4, <2>1, <2>2
<1> HIDE DEF out
<1>6. NoDuplicates(out)
  BY <1>1, <1>5 DEF NoDuplicates, Distinct
<1>7. QED
  BY <1>1, <1>3, <1>6 DEF Accepted, out

\* Rules that carry their own positions as priorities are sorted already.
LEMMA RankOfNumbered ==
  ASSUME NEW q \in Seq(Rule), \A k \in DOMAIN q : q[k].priority = k, NEW k \in DOMAIN q
  PROVE  Rank(q, k) = k
<1>1. DOMAIN q = 1..Len(q) /\ Len(q) \in Nat /\ k \in 1..Len(q) /\ k - 1 \in Int
  OBVIOUS
<1>2. {j \in DOMAIN q : q[j].priority < q[k].priority} = 1..(k - 1)
  BY <1>1
<1>3. Cardinality(1..(k - 1)) = k - 1
  <2> DEFINE b == k - 1
  <2>1. 1 \in Int /\ b \in Nat /\ b \in Int
    BY <1>1
  <2> HIDE DEF b
  <2>2. Cardinality(1..b) = IF 1 > b THEN 0 ELSE b - 1 + 1
    BY <2>1, FS_Interval
  <2>3. Cardinality(1..b) = b
    BY <2>1, <2>2
  <2>4. QED
    BY <2>3 DEF b
<1>4. Rank(q, k) = 1 + Cardinality(1..(k - 1))
  BY <1>2 DEF Rank
<1>5. QED
  BY <1>1, <1>3, <1>4

\* Normalized rules stay what they are when they are normalized again.
LEMMA NormalizedAgain ==
  ASSUME NEW q \in Seq(Rule), NormalizeRules(q) # Rejected
  PROVE  NormalizeRules(NormalizeRules(q)) = NormalizeRules(q)
<1> DEFINE out == NormalizeRules(q)
<1>1. /\ Accepted(q) /\ Accepted(out) /\ out \in Seq(Rule) /\ DOMAIN out = DOMAIN q
  BY RejectedOtherwise, NormalizedAccepted, NormalizedFacts
<1>2. ASSUME NEW k \in DOMAIN out
      PROVE  out[k] \in Rule /\ out[k].priority = k /\ out[k].kind = KindOf(out[k])
  <2> DEFINE r == q[Sorted(q, k)]
  <2>1. out[k] = Renumbered(r, k) /\ r \in Rule /\ k \in Int
    BY <1>1, NormalizedFacts
  <2> HIDE DEF out, r
  <2>2. /\ Renumbered(r, k) \in Rule /\ Renumbered(r, k).priority = k
        /\ Renumbered(r, k).kind = KindOf(Renumbered(r, k))
    BY <2>1, RenumberedIs
  <2>3. QED
    BY <2>1, <2>2
<1> HIDE DEF out
<1>3. NormalizeRules(out) = [k \in DOMAIN out |-> Renumbered(out[Sorted(out, k)], k)]
  BY <1>1, NormalizedIs
<1>4. ASSUME NEW k \in DOMAIN out PROVE Renumbered(out[Sorted(out, k)], k) = out[k]
  <2>1. Sorted(out, k) \in DOMAIN out /\ Rank(out, Sorted(out, k)) = k
    BY <1>1, RankOnto
  <2>2. Rank(out, Sorted(out, k)) = Sorted(out, k)
    BY <1>1, <1>2, <2>1, RankOfNumbered
  <2>3. Sorted(out, k) = k
    BY <2>1, <2>2
  <2>4. Renumbered(out[k], out[k].priority) = out[k]
    BY <1>2, RenumberedAgain
  <2>5. QED
    BY <1>2, <2>3, <2>4
<1>5. out = [k \in DOMAIN out |-> out[k]]
  BY <1>1
<1>6. QED
  BY <1>3, <1>4, <1>5 DEF out

Named(path) == {<<"path", path>>, <<"name", NameOf(path)>>}
Naming(q, path) == {k \in DOMAIN q : q[k].enabled /\ Identifier(q[k]) \in Named(path)}
Meant(r, up) == <<IF r.action = "proxy" /\ ~up THEN "block" ELSE r.action, r.protocol>>

\* What the router makes of a command, without the command.
LEMMA CommandGroup ==
  ASSUME NEW q \in Seq(Rule), NEW path, NEW up \in BOOLEAN
  PROVE  TargetGroup(Targets(RouterCommand(q, up)), path) =
           {Meant(q[k], up) : k \in {h \in Naming(q, path) : \A g \in Naming(q, path) : h <= g}}
<1> DEFINE c == RouterCommand(q, up)  t == Targets(c)  N == Naming(q, path)
           Hits == {k \in DOMAIN t : t[k].match \in Named(path)}
<1>1. /\ DOMAIN c = DOMAIN q
      /\ \A k \in DOMAIN q : /\ c[k].match = Identifier(q[k]) /\ c[k].enabled = q[k].enabled
                             /\ c[k].group = Meant(q[k], up)
  BY DEF RouterCommand, Meant
<1> HIDE DEF c
<1>2. /\ DOMAIN t = {i \in DOMAIN q : q[i].enabled}
      /\ \A k \in DOMAIN t : t[k] = c[k]
  BY <1>1 DEF Targets
<1>3. TargetGroup(t, path) = {t[k].group : k \in {h \in Hits : \A g \in Hits : h <= g}}
  BY DEF TargetGroup, Named
<1> HIDE DEF t
<1>4. Hits = N
  BY <1>1, <1>2 DEF Naming
<1>5. \A k \in N : t[k].group = Meant(q[k], up)
  BY <1>1, <1>2 DEF Naming
<1> HIDE DEF N, Hits
<1>6. {t[k].group : k \in {h \in N : \A g \in N : h <= g}}
        = {Meant(q[k], up) : k \in {h \in N : \A g \in N : h <= g}}
  BY <1>5
<1>7. QED
  BY <1>3, <1>4, <1>6 DEF N, t, c

LEMMA VerdictGroup ==
  ASSUME NEW q \in Seq(Rule), NEW path, NEW up \in BOOLEAN
  PROVE  Verdict(q, path, up) =
           {Meant(q[k], up) : k \in {h \in Naming(q, path) :
              \A g \in Naming(q, path) : q[h].priority <= q[g].priority}}
<1> DEFINE M == Naming(q, path)
           First == {h \in M : \A g \in M : q[h].priority <= q[g].priority}
           Said(r) == <<IF r.action # "proxy" \/ up THEN r.action ELSE "block", r.protocol>>
<1>1. Verdict(q, path, up) = {Said(q[k]) : k \in First}
  BY DEF Verdict, Naming, Named
<1>2. \A k \in First : Said(q[k]) = Meant(q[k], up)
  BY DEF Meant
<1> HIDE DEF First, Said
<1>3. {Said(q[k]) : k \in First} = {Meant(q[k], up) : k \in First}
  BY <1>2
<1>4. QED
  BY <1>1, <1>3 DEF First

\* Sorted and renumbered rules decide about a process as the request does.
LEMMA VerdictKept ==
  ASSUME NEW q \in Seq(Rule), NormalizeRules(q) # Rejected, NEW path, NEW up \in BOOLEAN
  PROVE  TargetGroup(Targets(RouterCommand(NormalizeRules(q), up)), path) = Verdict(q, path, up)
<1> DEFINE out == NormalizeRules(q)  S(k) == Sorted(q, k)
           N == Naming(out, path)    M == Naming(q, path)
           FirstOut == {h \in N : \A g \in N : h <= g}
           First == {h \in M : \A g \in M : q[h].priority <= q[g].priority}
<1>1. Accepted(q) /\ out \in Seq(Rule) /\ DOMAIN out = DOMAIN q
  BY RejectedOtherwise, NormalizedFacts
<1>2. ASSUME NEW k \in DOMAIN q
      PROVE  /\ S(k) \in DOMAIN q /\ Rank(q, S(k)) = k
             /\ out[k].enabled = q[S(k)].enabled
             /\ Identifier(out[k]) = Identifier(q[S(k)]) /\ Meant(out[k], up) = Meant(q[S(k)], up)
  <2> DEFINE r == q[S(k)]
  <2>1. out[k] = Renumbered(r, k) /\ r \in Rule /\ k \in Int
    BY <1>1, NormalizedFacts
  <2>2. S(k) \in DOMAIN q /\ Rank(q, S(k)) = k
    BY <1>1, RankOnto
  <2> HIDE DEF out, r
  <2>3. /\ Renumbered(r, k).enabled = r.enabled /\ Identifier(Renumbered(r, k)) = Identifier(r)
        /\ Renumbered(r, k).action = r.action /\ Renumbered(r, k).protocol = r.protocol
    BY <2>1, RenumberedIs
  <2>4. Meant(out[k], up) = Meant(r, up)
    BY <2>1, <2>3 DEF Meant
  <2>5. QED
    BY <2>1, <2>2, <2>3, <2>4 DEF r
<1>3. ASSUME NEW i \in DOMAIN q
      PROVE  Rank(q, i) \in DOMAIN q /\ S(Rank(q, i)) = i
  <2>1. Rank(q, i) \in DOMAIN q
    BY <1>1, RankOrder
  <2>2. S(Rank(q, i)) \in DOMAIN q /\ Rank(q, S(Rank(q, i))) = Rank(q, i)
    BY <1>2, <2>1
  <2>3. QED
    BY <1>1, <2>1, <2>2, RankOrder
<1>4. \A k \in DOMAIN q : k \in N <=> S(k) \in M
  <2> HIDE DEF out, S
  <2>1. QED
    BY <1>1, <1>2 DEF Naming
<1>5. \A k, l \in DOMAIN q : k <= l <=> q[S(k)].priority <= q[S(l)].priority
  BY <1>1, <1>2, RankOrder
<1>6. N \subseteq DOMAIN q /\ M \subseteq DOMAIN q
  BY <1>1 DEF Naming
<1> HIDE DEF out, S, N, M
<1>7. \A k \in DOMAIN q : k \in FirstOut <=> S(k) \in First
  <2> SUFFICES ASSUME NEW k \in DOMAIN q PROVE k \in FirstOut <=> S(k) \in First
    OBVIOUS
  <2>1. ASSUME k \in FirstOut, NEW g \in M PROVE q[S(k)].priority <= q[g].priority
    BY <1>3, <1>4, <1>5, <1>6, <2>1
  <2>2. ASSUME S(k) \in First, NEW g \in N PROVE k <= g
    BY <1>2, <1>4, <1>5, <1>6, <2>2
  <2>3. QED
    BY <1>4, <2>1, <2>2
<1>8. {Meant(out[k], up) : k \in FirstOut} = {Meant(q[k], up) : k \in First}
  <2>0. FirstOut \subseteq DOMAIN q /\ First \subseteq DOMAIN q
    BY <1>6
  <2> HIDE DEF FirstOut, First
  <2>1. ASSUME NEW k \in FirstOut PROVE \E i \in First : Meant(out[k], up) = Meant(q[i], up)
    BY <1>2, <1>7, <2>0
  <2>2. ASSUME NEW i \in First PROVE \E k \in FirstOut : Meant(out[k], up) = Meant(q[i], up)
    <3>1. Rank(q, i) \in DOMAIN q /\ S(Rank(q, i)) = i
      BY <1>3, <2>0
    <3>2. Rank(q, i) \in FirstOut /\ Meant(out[Rank(q, i)], up) = Meant(q[i], up)
      BY <1>2, <1>7, <3>1
    <3>3. QED
      BY <3>2
  <2>3. QED
    BY <2>1, <2>2
<1>9. TargetGroup(Targets(RouterCommand(out, up)), path) = {Meant(out[k], up) : k \in FirstOut}
  BY <1>1, CommandGroup DEF N
<1>10. Verdict(q, path, up) = {Meant(q[k], up) : k \in First}
  BY VerdictGroup DEF M
<1>11. QED
  BY <1>8, <1>9, <1>10 DEF out

-----------------------------------------------------------------------------
\* What is in memory and on disk are normalized requests.
StoreInv ==
  /\ asked \in Seq(Rule) /\ askedConfig \in Seq(Rule)
  /\ rules = NormalizeRules(asked) /\ rules # Rejected
  /\ config # NoFile => config = NormalizeRules(askedConfig) /\ config # Rejected

LEMMA NothingNormalized == NormalizeRules(<<>>) = <<>> /\ <<>> \in Seq(Rule) /\ <<>> # Rejected
<1>1. <<>> \in Seq(Rule) /\ <<>> # Rejected /\ DOMAIN <<>> = {} /\ Len(<<>>) = 0
  <2>1. <<>> \in Seq(Rule) /\ Len(<<>>) = 0 /\ DOMAIN <<>> = {}
    OBVIOUS
  <2>2. QED
    BY <2>1, StoreAssumption
<1>2. Accepted(<<>>)
  BY <1>1, StoreAssumption DEF Accepted, NoDuplicates, Distinct
<1>3. NormalizeRules(<<>>) \in Seq(Rule) /\ Len(NormalizeRules(<<>>)) = 0
  BY <1>1, <1>2, NormalizedFacts
<1>4. QED
  BY <1>1, <1>3

LEMMA StoreInvInit == StoreInit => StoreInv
<1> SUFFICES ASSUME StoreInit PROVE StoreInv
  OBVIOUS
<1>1. askedConfig \in Seq(Rule)
  BY NothingNormalized, StoreAssumption DEF StoreInit
<1>2. QED
  BY <1>1, NothingNormalized DEF StoreInit, StoreInv

LEMMA StoreInvStep == StoreInv /\ [StoreNext]_storeVars => StoreInv'
<1> SUFFICES ASSUME StoreInv, [StoreNext]_storeVars PROVE StoreInv'
  OBVIOUS
<1>1. ASSUME NEW request \in Requests, ReplaceRules(request) PROVE StoreInv'
  <2>1. request \in Seq(Rule)
    BY StoreAssumption
  <2>2. QED
    BY <1>1, <2>1 DEF ReplaceRules, Persists, PersistFails, StoreInv
<1>2. CASE SaveRules
  BY <1>2 DEF SaveRules, Persists, PersistFails, StoreInv
<1>3. CASE RestoreRules
  <2>1. config # NoFile => NormalizeRules(config) = NormalizeRules(askedConfig)
    BY NormalizedAgain DEF StoreInv
  <2>2. QED
    BY <1>3, <2>1, NothingNormalized DEF RestoreRules, StoreInv
<1>4. CASE CleanupRules
  BY <1>4, NothingNormalized DEF CleanupRules, PersistFails, StoreInv
<1>5. CASE UNCHANGED storeVars
  BY <1>5 DEF storeVars, StoreInv
<1>6. QED
  BY <1>1, <1>2, <1>3, <1>4, <1>5 DEF StoreNext

LEMMA StoreInvSays == StoreInv => FirstRuleDecides /\ StoredAccepted
<1> SUFFICES ASSUME StoreInv PROVE FirstRuleDecides /\ StoredAccepted
  OBVIOUS
<1>1. FirstRuleDecides
  BY VerdictKept DEF StoreInv, FirstRuleDecides
<1>2. StoredAccepted
  BY NormalizedAgain DEF StoreInv, StoredAccepted
<1>3. QED
  BY <1>1, <1>2

\* For every set of requests, patterns and protected names, with writes that
\* fail and processes that start again: a process falls under the rule that the
\* request gives it, stored rules are accepted unchanged, and a pattern is
\* refused exactly if it reaches a protected name (normalizeRulesRequest,
\* loadLocked, buildRouterCommand, isProtectedProcessPattern).
THEOREM RulesAlwaysCorrect == RulesSpec => []RulesCorrect
<1>1. RulesInit => StoreInv /\ ScanInv
  BY StoreInvInit, ScanInvInit DEF RulesInit
<1>2. StoreInv /\ ScanInv /\ [RulesNext]_<<storeVars, matchVars>> => StoreInv' /\ ScanInv'
  <2> SUFFICES ASSUME StoreInv, ScanInv, [RulesNext]_<<storeVars, matchVars>>
               PROVE  StoreInv' /\ ScanInv'
    OBVIOUS
  <2>1. [StoreNext]_storeVars /\ [ScanNext]_matchVars
    BY DEF RulesNext
  <2>2. QED
    BY <2>1, StoreInvStep, ScanInvStep
<1>3. StoreInv /\ ScanInv => RulesCorrect
  BY StoreInvSays, ScanInvDecides DEF RulesCorrect
<1>4. QED
  BY <1>1, <1>2, <1>3, PTL DEF RulesSpec
=============================================================================
