------------------------ MODULE SysproxyLeaseProofs ------------------------
(***************************************************************************)
(* Proofs about SysproxyLease for any settings, guards, durations and      *)
(* bounds: why a lease always has a timer, a record and no stray guard.    *)
(***************************************************************************)
EXTENDS SysproxyLease, TLAPS

(***************************************************************************)
(* The inductive invariant.                                                *)
(***************************************************************************)
GuardPc == {"off", "query", "lock", "mutating", "wait"}

\* Every variable has its type; records have their fields.
WorldType == /\ os \in Setting /\ put \in Setting \cup {Nothing}
             /\ disk \in Setting \cup {Nothing}
             /\ net \in Network /\ edits \in Nat
LeaseType == /\ DOMAIN lease = {"on", "gen", "target", "expected", "sig"}
             /\ lease.gen \in 0..MaxGen
             /\ lease.expected \in Setting \cup {Nothing}
             /\ left \in 0..LeaseTime /\ timer \in 0..LeaseTime
             /\ generation \in 0..MaxGen
FireType  == /\ orphans \subseteq Gen \X (1..LeaseTime)
             /\ waiting \subseteq Gen /\ reconWait \subseteq Gen
             /\ recWait \subseteq {"current", "stale"}
GuardType == /\ active \in Guard \cup {NoGuard} /\ DOMAIN guard = Guard
             /\ \A g \in Guard :
                  /\ DOMAIN guard[g] = {"pc", "want", "expected", "changed"}
                  /\ guard[g].pc \in GuardPc
HolderType == /\ pc \in {"free", "down"} \cup HolderPc
              /\ DOMAIN op = {"kind", "target", "guard", "guarded", "seen", "sig"}
BoolType  == /\ lease.on \in BOOLEAN /\ recon \in BOOLEAN
             /\ recovery \in BOOLEAN
Types == BoolType /\ WorldType /\ LeaseType /\ FireType /\ GuardType /\ HolderType

\* What the holder of the mutex has made sure of before it reaches a step.
HolderKnows ==
  /\ pc \in {"setApply", "setCapture", "setPersist", "adoptQuery",
             "adoptPersist", "guardQuery"} => op.target \in Target
  /\ pc \in {"setApply", "setCapture", "setPersist", "adoptQuery",
             "adoptPersist"} => generation < MaxGen
  /\ pc \in {"setPersist", "adoptPersist"} => op.seen \in Setting
  /\ pc \in {"guardApply", "guardVerify"} =>
       /\ op.guard \in Guard /\ active = op.guard
       /\ guard[op.guard].pc = "mutating"

\* A guard that runs has something to defend.
GuardHasTarget == \A g \in Guard : guard[g].pc # "off" => guard[g].want \in Setting

\* The steps during which there is a lease, and those during which none is.
LeasePc   == {"guardQuery", "netApply", "netVerify", "release", "releaseDisable"}
NoLeasePc == {"setUndo", "remove", "recover", "recQuery", "recDisable",
              "recRemove", "down"}

\* A lease is complete, and its timers and its guard exist only with it.
LeaseComplete ==
  /\ lease.on => /\ lease.gen \in Gen /\ lease.target \in Target
                 /\ lease.expected \in Setting
  /\ recon \/ timer > 0 => lease.on
  /\ active # NoGuard => lease.on
  /\ pc \in LeasePc => lease.on
  /\ pc \in NoLeasePc => ~lease.on
  /\ pc \in {"release", "releaseDisable"} => active = NoGuard

\* Something ends a lease at every step, except while it is being ended.
TimerPending ==
  lease.on /\ pc \notin {"release", "releaseDisable"} =>
    timer > 0 \/ lease.gen \in waiting

\* The record names what the lease expects at every step.
RecordKept == lease.on => disk = lease.expected

ProxyInv == Types /\ HolderKnows /\ GuardHasTarget /\ LeaseComplete
              /\ TimerPending /\ NotReleasedEarly

\* A write of the setting by the service, and who may do it.
LeasedWrite ==
  os' # os /\ os' # Disabled /\ edits' = edits => lease.on \/ pc = "setApply"

(***************************************************************************)
(* Steps.                                                                  *)
(***************************************************************************)
\* Dropping and replacing the lease keep the Booleans.
LEMMA ClearBooleans ==
  ASSUME ClearLease
  PROVE  lease'.on \in BOOLEAN /\ recon' \in BOOLEAN
<1>1. NoLease.on = FALSE
  BY DEF NoLease
<1>2. lease'.on = FALSE /\ recon' = FALSE
  BY <1>1, Zenon DEF ClearLease
<1>3. QED
  BY <1>2, Zenon

LEMMA ReplaceBooleans ==
  ASSUME NEW t, NEW e, ReplaceLease(t, e)
  PROVE  lease'.on \in BOOLEAN /\ recon' \in BOOLEAN /\ recovery' \in BOOLEAN
<1>1. lease'.on = TRUE
  BY DEF ReplaceLease
<1>2. recon' = Darwin /\ recovery' = FALSE
  BY Zenon DEF ReplaceLease, StopRecovery
<1>3. QED
  BY <1>1, <1>2, SysproxyAssumption, Zenon

\* The Booleans stay Booleans.
LEMMA BoolTypeStep ==
  ASSUME BoolType, LeaseType, [Next]_vars
  PROVE  BoolType'
<1> USE ClearBooleans, ReplaceBooleans, SysproxyAssumption DEF BoolType,
        LeaseType, Setting
<1>1. ASSUME NEW t \in Target, NEW b \in BOOLEAN, NEW k \in {"set", "adopt"}, BeginLease(k, t, b)
       PROVE  BoolType'
  BY <1>1
     DEF BeginLease, NoOp, Request, fireVars, guardVars, leaseVars, recVars,
         worldVars, NoNetwork, Free
<1>2. CASE BeginDisable
  BY <1>2
     DEF BeginDisable, NoOp, Request, fireVars, guardVars, leaseVars, recVars,
         worldVars, NoNetwork, Free
<1>3. CASE Renew
  BY <1>3 DEF Renew, Request, fireVars, guardVars, recVars, worldVars, Free
<1>4. CASE Prepare
  BY <1>4
     DEF Prepare, NoOp, Request, StopGuard, StopRecovery, fireVars, worldVars,
         NoNetwork, Free
<1>5. CASE BeginShutdown
  BY <1>5
     DEF BeginShutdown, Free, NoOp, StopGuard, StopRecovery, fireVars,
         leaseVars, worldVars, NoNetwork
<1>6. CASE SetApply
  BY <1>6
     DEF SetApply, Goto, Miswritten, Notified, Unlock, Written, fireVars,
         leaseVars, recVars, runVars, worldVars, Fails, NoOp, Ok, NoNetwork
<1>7. CASE SetCapture
  BY <1>7
     DEF SetCapture, Fails, Ok, SetFails, fireVars, leaseVars, recVars,
         runVars, worldVars, Goto, StopGuard
<1>8. CASE SetPersist
  BY <1>8
     DEF SetPersist, Goto, NotPersisted, Persisted, SetFails, StopGuard,
         Unlock, fireVars, runVars, worldVars, Fails, Ok, recVars, NoOp,
         NoNetwork
<1>9. CASE SetUndo
  BY <1>9
     DEF SetUndo, Goto, Miswritten, Notified, Unlock, Written, fireVars,
         leaseVars, recVars, runVars, worldVars, Fails, NoOp, Ok, NoNetwork
<1>10. CASE Remove
  BY <1>10
     DEF Remove, Fails, Ok, Unlock, fireVars, guardVars, leaseVars, recVars,
         runVars, worldVars, NoOp, NoNetwork
<1>11. CASE StartGuard
  BY <1>11
     DEF StartGuard, Fails, Ok, Unlock, fireVars, guardVars, leaseVars,
         recVars, runVars, worldVars, NoOp, NoNetwork
<1>12. CASE Disable
  BY <1>12
     DEF Disable, Goto, Miswritten, Notified, StopGuard, Unlock, Written,
         fireVars, leaseVars, recVars, runVars, worldVars, Fails, NoOp, Ok,
         NoNetwork
<1>13. CASE AdoptQuery
  BY <1>13
     DEF AdoptQuery, Fails, Ok, Unlock, fireVars, guardVars, leaseVars,
         recVars, runVars, worldVars, NoOp, NoNetwork
<1>14. CASE AdoptPersist
  BY <1>14
     DEF AdoptPersist, Goto, NotPersisted, Persisted, StopGuard, Unlock,
         fireVars, leaseVars, recVars, runVars, worldVars, Fails, Ok, NoOp,
         NoNetwork
<1>15. CASE ReleaseQuery
  BY <1>15
     DEF ReleaseQuery, Fails, Goto, Ok, ReleaseFails, guardVars, leaseVars,
         recVars, runVars, worldVars, Rearm, Unlock, NoOp, NoNetwork
<1>16. CASE ReleaseDisable
  BY <1>16
     DEF ReleaseDisable, Goto, Miswritten, Notified, ReleaseFails, Written,
         recVars, runVars, worldVars, Fails, Rearm, Unlock, Ok, NoOp,
         NoNetwork
<1>17. CASE RecoverRead
  BY <1>17
     DEF RecoverRead, Fails, Goto, Ok, RecoverFails, Unlock, fireVars,
         guardVars, leaseVars, recVars, runVars, worldVars, NoOp, NoNetwork
<1>18. CASE RecoverQuery
  BY <1>18
     DEF RecoverQuery, Fails, Goto, Ok, RecoverFails, fireVars, guardVars,
         leaseVars, recVars, runVars, worldVars, Unlock, NoOp, NoNetwork
<1>19. CASE RecoverDisable
  BY <1>19
     DEF RecoverDisable, Goto, Miswritten, Notified, RecoverFails, Written,
         fireVars, leaseVars, recVars, runVars, worldVars, Fails, Unlock, Ok,
         NoOp, NoNetwork
<1>20. CASE RecoverRemove
  BY <1>20
     DEF RecoverRemove, Fails, Ok, RecoverFails, Unlock, fireVars, guardVars,
         leaseVars, recVars, runVars, worldVars, NoOp, NoNetwork
<1>21. CASE ReconcileApply
  BY <1>21
     DEF ReconcileApply, Goto, Miswritten, Notified, Unlock, Written,
         fireVars, recVars, runVars, worldVars, Fails, NoOp, Ok, NoNetwork
<1>22. CASE ReconcileVerify
  BY <1>22
     DEF ReconcileVerify, Fails, Ok, Unlock, fireVars, guardVars, recVars,
         runVars, worldVars, NoOp, NoNetwork
<1>23. CASE GuardApply
  BY <1>23
     DEF GuardApply, Goto, Miswritten, Notified, Unlock, Written, fireVars,
         leaseVars, recVars, runVars, worldVars, Fails, NoOp, Ok, NoNetwork
<1>24. CASE GuardVerify
  BY <1>24
     DEF GuardVerify, Fails, GuardGoto, Ok, Unlock, fireVars, leaseVars,
         recVars, runVars, worldVars, NoOp, NoNetwork
<1>25. ASSUME NEW n \in Gen, Expire(n)
        PROVE  BoolType'
  BY <1>25
     DEF Expire, Free, NoOp, Overdue, Rearm, StopGuard, recVars, runVars,
         worldVars, NoNetwork
<1>26. ASSUME NEW n \in Gen, Reconcile(n)
        PROVE  BoolType'
  BY <1>26
     DEF Reconcile, Fails, Free, NoNetwork, NoOp, Ok, guardVars, recVars,
         runVars, worldVars
<1>27. ASSUME NEW g \in Guard, GuardCheck(g)
        PROVE  BoolType'
  BY <1>27
     DEF GuardCheck, Fails, GuardGoto, Ok, fireVars, leaseVars, recVars,
         runVars, worldVars
<1>28. ASSUME NEW g \in Guard, GuardLock(g)
        PROVE  BoolType'
  BY <1>28
     DEF GuardLock, Current, Free, GuardGoto, NoOp, fireVars, leaseVars,
         recVars, runVars, worldVars, NoNetwork
<1>29. ASSUME NEW g \in Guard, GuardWakes(g)
        PROVE  BoolType'
  BY <1>29
     DEF GuardWakes, Fails, Ok, fireVars, leaseVars, recVars, runVars,
         worldVars
<1>30. ASSUME NEW g \in Guard, GuardEnds(g)
        PROVE  BoolType'
  BY <1>30
     DEF GuardEnds, GuardOff, fireVars, leaseVars, recVars, runVars, worldVars
<1>31. CASE RecoveryFires
  BY <1>31
     DEF RecoveryFires, fireVars, guardVars, leaseVars, runVars, worldVars
<1>32. ASSUME NEW k \in {"current", "stale"}, RecoveryRetry(k)
        PROVE  BoolType'
  BY <1>32
     DEF RecoveryRetry, Free, NoOp, fireVars, guardVars, leaseVars, runVars,
         worldVars, NoNetwork
<1>33. CASE ReconcileFires
  BY <1>33 DEF ReconcileFires, guardVars, recVars, runVars, worldVars
<1>34. CASE Tick
  BY <1>34 DEF Tick, Down, guardVars, recVars, runVars, worldVars
<1>35. CASE ServiceStart
  BY <1>35
     DEF ServiceStart, NoOp, fireVars, guardVars, leaseVars, recVars, runVars,
         worldVars, NoNetwork
<1>36. CASE Exit
  BY <1>36
     DEF Exit, Free, ProcessEnds, GuardOff, NoLease, NoOp, worldVars,
         NoNetwork
<1>37. CASE Crash
  BY <1>37
     DEF Crash, ProcessEnds, GuardOff, NoLease, NoOp, worldVars, NoNetwork
<1>38. CASE UserEdit
  BY <1>38 DEF UserEdit, Notified, fireVars, leaseVars, recVars, runVars
<1>39. CASE NetworkSwitch
  BY <1>39 DEF NetworkSwitch, Notified, fireVars, leaseVars, recVars, runVars
<1>40. CASE UNCHANGED vars
  BY <1>40
     DEF vars, fireVars, guardVars, leaseVars, recVars, runVars, worldVars
<1> HIDE DEF BoolType, LeaseType, Setting
<1>41. QED
  BY <1>1, <1>2, <1>3, <1>4, <1>5, <1>6, <1>7, <1>8, <1>9, <1>10, <1>11,
     <1>12, <1>13, <1>14, <1>15, <1>16, <1>17, <1>18, <1>19, <1>20, <1>21,
     <1>22, <1>23, <1>24, <1>25, <1>26, <1>27, <1>28, <1>29, <1>30, <1>31,
     <1>32, <1>33, <1>34, <1>35, <1>36, <1>37, <1>38, <1>39, <1>40
     DEF Next, HolderStep, GuardStep

\* Whatever is written to the system and to the record is a setting.
LEMMA WorldTypeStep ==
  ASSUME WorldType, HolderKnows, GuardHasTarget, LeaseComplete, HolderType,
         GuardType, LeaseType, [Next]_vars
  PROVE  WorldType'
<1> USE SysproxyAssumption DEF WorldType, HolderKnows, GuardHasTarget,
        LeaseComplete, HolderType, GuardType, LeaseType, Network, Setting,
        Gen, LeasePc, NoLeasePc, HolderPc, GuardPc
<1>1. ASSUME NEW t \in Target, NEW b \in BOOLEAN, NEW k \in {"set", "adopt"}, BeginLease(k, t, b)
       PROVE  WorldType'
  BY <1>1
     DEF BeginLease, NoOp, Request, fireVars, guardVars, leaseVars, recVars,
         worldVars, NoNetwork, Free
<1>2. CASE BeginDisable
  BY <1>2
     DEF BeginDisable, NoOp, Request, fireVars, guardVars, leaseVars, recVars,
         worldVars, NoNetwork, Free
<1>3. CASE Renew
  BY <1>3 DEF Renew, Request, fireVars, guardVars, recVars, worldVars, Free
<1>4. CASE Prepare
  BY <1>4
     DEF Prepare, ClearLease, NoOp, Request, StopGuard, StopRecovery,
         fireVars, worldVars, NoLease, NoNetwork, Free
<1>5. CASE BeginShutdown
  BY <1>5
     DEF BeginShutdown, Free, NoOp, StopGuard, StopRecovery, fireVars,
         leaseVars, worldVars, NoNetwork
<1>6. CASE SetApply
  BY <1>6
     DEF SetApply, Goto, Miswritten, Notified, Unlock, Written, fireVars,
         leaseVars, recVars, runVars, worldVars, Fails, NoOp, Ok, NoNetwork
<1>7. CASE SetCapture
  BY <1>7
     DEF SetCapture, Fails, Ok, SetFails, fireVars, leaseVars, recVars,
         runVars, worldVars, ClearLease, Goto, StopGuard, NoLease, NoNetwork
<1>8. CASE SetPersist
  BY <1>8
     DEF SetPersist, Goto, NotPersisted, Persisted, ReplaceLease, SetFails,
         StopGuard, Unlock, fireVars, runVars, worldVars, Fails, Ok,
         NoNetwork, StopRecovery, ClearLease, recVars, NoOp, NoLease
<1>9. CASE SetUndo
  BY <1>9
     DEF SetUndo, Goto, Miswritten, Notified, Unlock, Written, fireVars,
         leaseVars, recVars, runVars, worldVars, Fails, NoOp, Ok, NoNetwork
<1>10. CASE Remove
  BY <1>10
     DEF Remove, Fails, Ok, Unlock, fireVars, guardVars, leaseVars, recVars,
         runVars, worldVars, NoOp, NoNetwork
<1>11. CASE StartGuard
  BY <1>11
     DEF StartGuard, Fails, Ok, Unlock, fireVars, guardVars, leaseVars,
         recVars, runVars, worldVars, NoOp, NoNetwork
<1>12. CASE Disable
  BY <1>12
     DEF Disable, ClearLease, Goto, Miswritten, Notified, StopGuard, Unlock,
         Written, fireVars, leaseVars, recVars, runVars, worldVars, NoLease,
         Fails, NoOp, Ok, NoNetwork
<1>13. CASE AdoptQuery
  BY <1>13
     DEF AdoptQuery, Fails, Ok, Unlock, fireVars, guardVars, leaseVars,
         recVars, runVars, worldVars, NoOp, NoNetwork
<1>14. CASE AdoptPersist
  BY <1>14
     DEF AdoptPersist, Goto, NotPersisted, Persisted, ReplaceLease, StopGuard,
         Unlock, fireVars, leaseVars, recVars, runVars, worldVars, Fails, Ok,
         NoNetwork, StopRecovery, NoOp
<1>15. CASE ReleaseQuery
  BY <1>15
     DEF ReleaseQuery, ClearLease, Fails, Goto, Ok, ReleaseFails, guardVars,
         leaseVars, recVars, runVars, worldVars, NoLease, Rearm, Unlock,
         NoNetwork, NoOp
<1>16. CASE ReleaseDisable
  BY <1>16
     DEF ReleaseDisable, ClearLease, Goto, Miswritten, Notified, ReleaseFails,
         Written, recVars, runVars, worldVars, NoLease, Fails, Rearm, Unlock,
         Ok, NoNetwork, NoOp
<1>17. CASE RecoverRead
  BY <1>17
     DEF RecoverRead, Fails, Goto, Ok, RecoverFails, Unlock, fireVars,
         guardVars, leaseVars, recVars, runVars, worldVars, NoOp, NoNetwork
<1>18. CASE RecoverQuery
  BY <1>18
     DEF RecoverQuery, Fails, Goto, Ok, RecoverFails, fireVars, guardVars,
         leaseVars, recVars, runVars, worldVars, Unlock, NoOp, NoNetwork
<1>19. CASE RecoverDisable
  BY <1>19
     DEF RecoverDisable, Goto, Miswritten, Notified, RecoverFails, Written,
         fireVars, leaseVars, recVars, runVars, worldVars, Fails, Unlock, Ok,
         NoOp, NoNetwork
<1>20. CASE RecoverRemove
  BY <1>20
     DEF RecoverRemove, Fails, Ok, RecoverFails, Unlock, fireVars, guardVars,
         leaseVars, recVars, runVars, worldVars, NoOp, NoNetwork
<1>21. CASE ReconcileApply
  BY <1>21
     DEF ReconcileApply, Goto, Miswritten, Notified, Unlock, Written,
         fireVars, recVars, runVars, worldVars, Fails, NoOp, Ok, NoNetwork
<1>22. CASE ReconcileVerify
  BY <1>22
     DEF ReconcileVerify, Fails, Ok, Unlock, fireVars, guardVars, recVars,
         runVars, worldVars, NoOp, NoNetwork
<1>23. CASE GuardApply
  BY <1>23
     DEF GuardApply, Goto, Miswritten, Notified, Unlock, Written, fireVars,
         leaseVars, recVars, runVars, worldVars, Fails, NoOp, Ok, NoNetwork
<1>24. CASE GuardVerify
  BY <1>24
     DEF GuardVerify, Fails, GuardGoto, Ok, Unlock, fireVars, leaseVars,
         recVars, runVars, worldVars, NoOp, NoNetwork
<1>25. ASSUME NEW n \in Gen, Expire(n)
        PROVE  WorldType'
  BY <1>25
     DEF Expire, Free, NoOp, Overdue, Rearm, StopGuard, recVars, runVars,
         worldVars, NoNetwork
<1>26. ASSUME NEW n \in Gen, Reconcile(n)
        PROVE  WorldType'
  BY <1>26
     DEF Reconcile, Fails, Free, NoNetwork, NoOp, Ok, guardVars, recVars,
         runVars, worldVars
<1>27. ASSUME NEW g \in Guard, GuardCheck(g)
        PROVE  WorldType'
  BY <1>27
     DEF GuardCheck, Fails, GuardGoto, Ok, fireVars, leaseVars, recVars,
         runVars, worldVars
<1>28. ASSUME NEW g \in Guard, GuardLock(g)
        PROVE  WorldType'
  BY <1>28
     DEF GuardLock, Current, Free, GuardGoto, NoOp, fireVars, leaseVars,
         recVars, runVars, worldVars, NoNetwork
<1>29. ASSUME NEW g \in Guard, GuardWakes(g)
        PROVE  WorldType'
  BY <1>29
     DEF GuardWakes, Fails, Ok, fireVars, leaseVars, recVars, runVars,
         worldVars
<1>30. ASSUME NEW g \in Guard, GuardEnds(g)
        PROVE  WorldType'
  BY <1>30
     DEF GuardEnds, GuardOff, fireVars, leaseVars, recVars, runVars, worldVars
<1>31. CASE RecoveryFires
  BY <1>31
     DEF RecoveryFires, fireVars, guardVars, leaseVars, runVars, worldVars
<1>32. ASSUME NEW k \in {"current", "stale"}, RecoveryRetry(k)
        PROVE  WorldType'
  BY <1>32
     DEF RecoveryRetry, Free, NoOp, fireVars, guardVars, leaseVars, runVars,
         worldVars, NoNetwork
<1>33. CASE ReconcileFires
  BY <1>33 DEF ReconcileFires, guardVars, recVars, runVars, worldVars
<1>34. CASE Tick
  BY <1>34 DEF Tick, Down, guardVars, recVars, runVars, worldVars
<1>35. CASE ServiceStart
  BY <1>35
     DEF ServiceStart, NoOp, fireVars, guardVars, leaseVars, recVars, runVars,
         worldVars, NoNetwork
<1>36. CASE Exit
  BY <1>36
     DEF Exit, Free, ProcessEnds, GuardOff, NoLease, NoOp, worldVars,
         NoNetwork
<1>37. CASE Crash
  BY <1>37
     DEF Crash, ProcessEnds, GuardOff, NoLease, NoOp, worldVars, NoNetwork
<1>38. CASE UserEdit
  BY <1>38 DEF UserEdit, Notified, fireVars, leaseVars, recVars, runVars
<1>39. CASE NetworkSwitch
  BY <1>39 DEF NetworkSwitch, Notified, fireVars, leaseVars, recVars, runVars
<1>40. CASE UNCHANGED vars
  BY <1>40
     DEF vars, fireVars, guardVars, leaseVars, recVars, runVars, worldVars
<1> HIDE DEF WorldType, HolderKnows, GuardHasTarget, LeaseComplete,
         HolderType, GuardType, LeaseType, Network, Setting, Gen, LeasePc,
         NoLeasePc, HolderPc, GuardPc
<1>41. QED
  BY <1>1, <1>2, <1>3, <1>4, <1>5, <1>6, <1>7, <1>8, <1>9, <1>10, <1>11,
     <1>12, <1>13, <1>14, <1>15, <1>16, <1>17, <1>18, <1>19, <1>20, <1>21,
     <1>22, <1>23, <1>24, <1>25, <1>26, <1>27, <1>28, <1>29, <1>30, <1>31,
     <1>32, <1>33, <1>34, <1>35, <1>36, <1>37, <1>38, <1>39, <1>40
     DEF Next, HolderStep, GuardStep

\* The fields of the lease and of its timers keep their types.
LEMMA LeaseTypeStep ==
  ASSUME LeaseType, HolderKnows, WorldType, HolderType, LeaseComplete,
         [Next]_vars
  PROVE  LeaseType'
<1> USE SysproxyAssumption DEF LeaseType, HolderKnows, WorldType, HolderType,
        LeaseComplete, Setting, Network, HolderPc, Gen, LeasePc, NoLeasePc
<1>1. ASSUME NEW t \in Target, NEW b \in BOOLEAN, NEW k \in {"set", "adopt"}, BeginLease(k, t, b)
       PROVE  LeaseType'
  BY <1>1
     DEF BeginLease, NoOp, Request, fireVars, guardVars, leaseVars, recVars,
         worldVars, NoNetwork, Free
<1>2. CASE BeginDisable
  BY <1>2
     DEF BeginDisable, NoOp, Request, fireVars, guardVars, leaseVars, recVars,
         worldVars, NoNetwork, Free
<1>3. CASE Renew
  BY <1>3 DEF Renew, Request, fireVars, guardVars, recVars, worldVars, Free
<1>4. CASE Prepare
  BY <1>4
     DEF Prepare, ClearLease, NoOp, Request, StopGuard, StopRecovery,
         fireVars, worldVars, NoLease, NoNetwork, Free
<1>5. CASE BeginShutdown
  BY <1>5
     DEF BeginShutdown, Free, NoOp, StopGuard, StopRecovery, fireVars,
         leaseVars, worldVars, NoNetwork
<1>6. CASE SetApply
  BY <1>6
     DEF SetApply, Goto, Miswritten, Notified, Unlock, Written, fireVars,
         leaseVars, recVars, runVars, worldVars, Fails, NoOp, Ok, NoNetwork
<1>7. CASE SetCapture
  BY <1>7
     DEF SetCapture, Fails, Ok, SetFails, fireVars, leaseVars, recVars,
         runVars, worldVars, ClearLease, Goto, StopGuard, NoLease, NoNetwork
<1>8. CASE SetPersist
  BY <1>8
     DEF SetPersist, Goto, NotPersisted, Persisted, ReplaceLease, SetFails,
         StopGuard, Unlock, fireVars, runVars, worldVars, Fails, Ok,
         NoNetwork, StopRecovery, ClearLease, recVars, NoOp, NoLease
<1>9. CASE SetUndo
  BY <1>9
     DEF SetUndo, Goto, Miswritten, Notified, Unlock, Written, fireVars,
         leaseVars, recVars, runVars, worldVars, Fails, NoOp, Ok, NoNetwork
<1>10. CASE Remove
  BY <1>10
     DEF Remove, Fails, Ok, Unlock, fireVars, guardVars, leaseVars, recVars,
         runVars, worldVars, NoOp, NoNetwork
<1>11. CASE StartGuard
  BY <1>11
     DEF StartGuard, Fails, Ok, Unlock, fireVars, guardVars, leaseVars,
         recVars, runVars, worldVars, NoOp, NoNetwork
<1>12. CASE Disable
  BY <1>12
     DEF Disable, ClearLease, Goto, Miswritten, Notified, StopGuard, Unlock,
         Written, fireVars, leaseVars, recVars, runVars, worldVars, NoLease,
         Fails, NoOp, Ok, NoNetwork
<1>13. CASE AdoptQuery
  BY <1>13
     DEF AdoptQuery, Fails, Ok, Unlock, fireVars, guardVars, leaseVars,
         recVars, runVars, worldVars, NoOp, NoNetwork
<1>14. CASE AdoptPersist
  BY <1>14
     DEF AdoptPersist, Goto, NotPersisted, Persisted, ReplaceLease, StopGuard,
         Unlock, fireVars, leaseVars, recVars, runVars, worldVars, Fails, Ok,
         NoNetwork, StopRecovery, NoOp
<1>15. CASE ReleaseQuery
  BY <1>15
     DEF ReleaseQuery, ClearLease, Fails, Goto, Ok, ReleaseFails, guardVars,
         leaseVars, recVars, runVars, worldVars, NoLease, Rearm, Unlock,
         NoNetwork, NoOp
<1>16. CASE ReleaseDisable
  BY <1>16
     DEF ReleaseDisable, ClearLease, Goto, Miswritten, Notified, ReleaseFails,
         Written, recVars, runVars, worldVars, NoLease, Fails, Rearm, Unlock,
         Ok, NoNetwork, NoOp
<1>17. CASE RecoverRead
  BY <1>17
     DEF RecoverRead, Fails, Goto, Ok, RecoverFails, Unlock, fireVars,
         guardVars, leaseVars, recVars, runVars, worldVars, NoOp, NoNetwork
<1>18. CASE RecoverQuery
  BY <1>18
     DEF RecoverQuery, Fails, Goto, Ok, RecoverFails, fireVars, guardVars,
         leaseVars, recVars, runVars, worldVars, Unlock, NoOp, NoNetwork
<1>19. CASE RecoverDisable
  BY <1>19
     DEF RecoverDisable, Goto, Miswritten, Notified, RecoverFails, Written,
         fireVars, leaseVars, recVars, runVars, worldVars, Fails, Unlock, Ok,
         NoOp, NoNetwork
<1>20. CASE RecoverRemove
  BY <1>20
     DEF RecoverRemove, Fails, Ok, RecoverFails, Unlock, fireVars, guardVars,
         leaseVars, recVars, runVars, worldVars, NoOp, NoNetwork
<1>21. CASE ReconcileApply
  BY <1>21
     DEF ReconcileApply, Goto, Miswritten, Notified, Unlock, Written,
         fireVars, recVars, runVars, worldVars, Fails, NoOp, Ok, NoNetwork
<1>22. CASE ReconcileVerify
  BY <1>22
     DEF ReconcileVerify, Fails, Ok, Unlock, fireVars, guardVars, recVars,
         runVars, worldVars, NoOp, NoNetwork
<1>23. CASE GuardApply
  BY <1>23
     DEF GuardApply, Goto, Miswritten, Notified, Unlock, Written, fireVars,
         leaseVars, recVars, runVars, worldVars, Fails, NoOp, Ok, NoNetwork
<1>24. CASE GuardVerify
  BY <1>24
     DEF GuardVerify, Fails, GuardGoto, Ok, Unlock, fireVars, leaseVars,
         recVars, runVars, worldVars, NoOp, NoNetwork
<1>25. ASSUME NEW n \in Gen, Expire(n)
        PROVE  LeaseType'
  BY <1>25
     DEF Expire, Free, NoOp, Overdue, Rearm, StopGuard, recVars, runVars,
         worldVars, NoNetwork
<1>26. ASSUME NEW n \in Gen, Reconcile(n)
        PROVE  LeaseType'
  BY <1>26
     DEF Reconcile, Fails, Free, NoNetwork, NoOp, Ok, guardVars, recVars,
         runVars, worldVars
<1>27. ASSUME NEW g \in Guard, GuardCheck(g)
        PROVE  LeaseType'
  BY <1>27
     DEF GuardCheck, Fails, GuardGoto, Ok, fireVars, leaseVars, recVars,
         runVars, worldVars
<1>28. ASSUME NEW g \in Guard, GuardLock(g)
        PROVE  LeaseType'
  BY <1>28
     DEF GuardLock, Current, Free, GuardGoto, NoOp, fireVars, leaseVars,
         recVars, runVars, worldVars, NoNetwork
<1>29. ASSUME NEW g \in Guard, GuardWakes(g)
        PROVE  LeaseType'
  BY <1>29
     DEF GuardWakes, Fails, Ok, fireVars, leaseVars, recVars, runVars,
         worldVars
<1>30. ASSUME NEW g \in Guard, GuardEnds(g)
        PROVE  LeaseType'
  BY <1>30
     DEF GuardEnds, GuardOff, fireVars, leaseVars, recVars, runVars, worldVars
<1>31. CASE RecoveryFires
  BY <1>31
     DEF RecoveryFires, fireVars, guardVars, leaseVars, runVars, worldVars
<1>32. ASSUME NEW k \in {"current", "stale"}, RecoveryRetry(k)
        PROVE  LeaseType'
  BY <1>32
     DEF RecoveryRetry, Free, NoOp, fireVars, guardVars, leaseVars, runVars,
         worldVars, NoNetwork
<1>33. CASE ReconcileFires
  BY <1>33 DEF ReconcileFires, guardVars, recVars, runVars, worldVars
<1>34. CASE Tick
  BY <1>34 DEF Tick, Down, guardVars, recVars, runVars, worldVars
<1>35. CASE ServiceStart
  BY <1>35
     DEF ServiceStart, NoOp, fireVars, guardVars, leaseVars, recVars, runVars,
         worldVars, NoNetwork
<1>36. CASE Exit
  BY <1>36
     DEF Exit, Free, ProcessEnds, GuardOff, NoLease, NoOp, worldVars,
         NoNetwork
<1>37. CASE Crash
  BY <1>37
     DEF Crash, ProcessEnds, GuardOff, NoLease, NoOp, worldVars, NoNetwork
<1>38. CASE UserEdit
  BY <1>38 DEF UserEdit, Notified, fireVars, leaseVars, recVars, runVars
<1>39. CASE NetworkSwitch
  BY <1>39 DEF NetworkSwitch, Notified, fireVars, leaseVars, recVars, runVars
<1>40. CASE UNCHANGED vars
  BY <1>40
     DEF vars, fireVars, guardVars, leaseVars, recVars, runVars, worldVars
<1> HIDE DEF LeaseType, HolderKnows, WorldType, HolderType, LeaseComplete,
         Setting, Network, HolderPc, Gen, LeasePc, NoLeasePc
<1>41. QED
  BY <1>1, <1>2, <1>3, <1>4, <1>5, <1>6, <1>7, <1>8, <1>9, <1>10, <1>11,
     <1>12, <1>13, <1>14, <1>15, <1>16, <1>17, <1>18, <1>19, <1>20, <1>21,
     <1>22, <1>23, <1>24, <1>25, <1>26, <1>27, <1>28, <1>29, <1>30, <1>31,
     <1>32, <1>33, <1>34, <1>35, <1>36, <1>37, <1>38, <1>39, <1>40
     DEF Next, HolderStep, GuardStep

\* Only timers of a lease fire.
LEMMA FireTypeStep ==
  ASSUME FireType, LeaseType, LeaseComplete, [Next]_vars
  PROVE  FireType'
<1> USE SysproxyAssumption DEF FireType, LeaseType, LeaseComplete, Gen,
        Setting, LeasePc, NoLeasePc
<1>1. ASSUME NEW t \in Target, NEW b \in BOOLEAN, NEW k \in {"set", "adopt"}, BeginLease(k, t, b)
       PROVE  FireType'
  BY <1>1
     DEF BeginLease, NoOp, Request, fireVars, guardVars, leaseVars, recVars,
         worldVars, NoNetwork, Free
<1>2. CASE BeginDisable
  BY <1>2
     DEF BeginDisable, NoOp, Request, fireVars, guardVars, leaseVars, recVars,
         worldVars, NoNetwork, Free
<1>3. CASE Renew
  BY <1>3 DEF Renew, Request, fireVars, guardVars, recVars, worldVars, Free
<1>4. CASE Prepare
  BY <1>4
     DEF Prepare, ClearLease, NoOp, Request, StopGuard, StopRecovery,
         fireVars, worldVars, NoLease, NoNetwork, Free
<1>5. CASE BeginShutdown
  BY <1>5
     DEF BeginShutdown, Free, NoOp, StopGuard, StopRecovery, fireVars,
         leaseVars, worldVars, NoNetwork
<1>6. CASE SetApply
  BY <1>6
     DEF SetApply, Goto, Miswritten, Notified, Unlock, Written, fireVars,
         leaseVars, recVars, runVars, worldVars, Fails, NoOp, Ok, NoNetwork
<1>7. CASE SetCapture
  BY <1>7
     DEF SetCapture, Fails, Ok, SetFails, fireVars, leaseVars, recVars,
         runVars, worldVars, ClearLease, Goto, StopGuard, NoLease, NoNetwork
<1>8. CASE SetPersist
  BY <1>8
     DEF SetPersist, Goto, NotPersisted, Persisted, ReplaceLease, SetFails,
         StopGuard, Unlock, fireVars, runVars, worldVars, Fails, Ok,
         NoNetwork, StopRecovery, ClearLease, recVars, NoOp, NoLease
<1>9. CASE SetUndo
  BY <1>9
     DEF SetUndo, Goto, Miswritten, Notified, Unlock, Written, fireVars,
         leaseVars, recVars, runVars, worldVars, Fails, NoOp, Ok, NoNetwork
<1>10. CASE Remove
  BY <1>10
     DEF Remove, Fails, Ok, Unlock, fireVars, guardVars, leaseVars, recVars,
         runVars, worldVars, NoOp, NoNetwork
<1>11. CASE StartGuard
  BY <1>11
     DEF StartGuard, Fails, Ok, Unlock, fireVars, guardVars, leaseVars,
         recVars, runVars, worldVars, NoOp, NoNetwork
<1>12. CASE Disable
  BY <1>12
     DEF Disable, ClearLease, Goto, Miswritten, Notified, StopGuard, Unlock,
         Written, fireVars, leaseVars, recVars, runVars, worldVars, NoLease,
         Fails, NoOp, Ok, NoNetwork
<1>13. CASE AdoptQuery
  BY <1>13
     DEF AdoptQuery, Fails, Ok, Unlock, fireVars, guardVars, leaseVars,
         recVars, runVars, worldVars, NoOp, NoNetwork
<1>14. CASE AdoptPersist
  BY <1>14
     DEF AdoptPersist, Goto, NotPersisted, Persisted, ReplaceLease, StopGuard,
         Unlock, fireVars, leaseVars, recVars, runVars, worldVars, Fails, Ok,
         NoNetwork, StopRecovery, NoOp
<1>15. CASE ReleaseQuery
  BY <1>15
     DEF ReleaseQuery, ClearLease, Fails, Goto, Ok, ReleaseFails, guardVars,
         leaseVars, recVars, runVars, worldVars, NoLease, Rearm, Unlock,
         NoNetwork, NoOp
<1>16. CASE ReleaseDisable
  BY <1>16
     DEF ReleaseDisable, ClearLease, Goto, Miswritten, Notified, ReleaseFails,
         Written, recVars, runVars, worldVars, NoLease, Fails, Rearm, Unlock,
         Ok, NoNetwork, NoOp
<1>17. CASE RecoverRead
  BY <1>17
     DEF RecoverRead, Fails, Goto, Ok, RecoverFails, Unlock, fireVars,
         guardVars, leaseVars, recVars, runVars, worldVars, NoOp, NoNetwork
<1>18. CASE RecoverQuery
  BY <1>18
     DEF RecoverQuery, Fails, Goto, Ok, RecoverFails, fireVars, guardVars,
         leaseVars, recVars, runVars, worldVars, Unlock, NoOp, NoNetwork
<1>19. CASE RecoverDisable
  BY <1>19
     DEF RecoverDisable, Goto, Miswritten, Notified, RecoverFails, Written,
         fireVars, leaseVars, recVars, runVars, worldVars, Fails, Unlock, Ok,
         NoOp, NoNetwork
<1>20. CASE RecoverRemove
  BY <1>20
     DEF RecoverRemove, Fails, Ok, RecoverFails, Unlock, fireVars, guardVars,
         leaseVars, recVars, runVars, worldVars, NoOp, NoNetwork
<1>21. CASE ReconcileApply
  BY <1>21
     DEF ReconcileApply, Goto, Miswritten, Notified, Unlock, Written,
         fireVars, recVars, runVars, worldVars, Fails, NoOp, Ok, NoNetwork
<1>22. CASE ReconcileVerify
  BY <1>22
     DEF ReconcileVerify, Fails, Ok, Unlock, fireVars, guardVars, recVars,
         runVars, worldVars, NoOp, NoNetwork
<1>23. CASE GuardApply
  BY <1>23
     DEF GuardApply, Goto, Miswritten, Notified, Unlock, Written, fireVars,
         leaseVars, recVars, runVars, worldVars, Fails, NoOp, Ok, NoNetwork
<1>24. CASE GuardVerify
  BY <1>24
     DEF GuardVerify, Fails, GuardGoto, Ok, Unlock, fireVars, leaseVars,
         recVars, runVars, worldVars, NoOp, NoNetwork
<1>25. ASSUME NEW n \in Gen, Expire(n)
        PROVE  FireType'
  BY <1>25
     DEF Expire, Free, NoOp, Overdue, Rearm, StopGuard, recVars, runVars,
         worldVars, NoNetwork
<1>26. ASSUME NEW n \in Gen, Reconcile(n)
        PROVE  FireType'
  BY <1>26
     DEF Reconcile, Fails, Free, NoNetwork, NoOp, Ok, guardVars, recVars,
         runVars, worldVars
<1>27. ASSUME NEW g \in Guard, GuardCheck(g)
        PROVE  FireType'
  BY <1>27
     DEF GuardCheck, Fails, GuardGoto, Ok, fireVars, leaseVars, recVars,
         runVars, worldVars
<1>28. ASSUME NEW g \in Guard, GuardLock(g)
        PROVE  FireType'
  BY <1>28
     DEF GuardLock, Current, Free, GuardGoto, NoOp, fireVars, leaseVars,
         recVars, runVars, worldVars, NoNetwork
<1>29. ASSUME NEW g \in Guard, GuardWakes(g)
        PROVE  FireType'
  BY <1>29
     DEF GuardWakes, Fails, Ok, fireVars, leaseVars, recVars, runVars,
         worldVars
<1>30. ASSUME NEW g \in Guard, GuardEnds(g)
        PROVE  FireType'
  BY <1>30
     DEF GuardEnds, GuardOff, fireVars, leaseVars, recVars, runVars, worldVars
<1>31. CASE RecoveryFires
  BY <1>31
     DEF RecoveryFires, fireVars, guardVars, leaseVars, runVars, worldVars
<1>32. ASSUME NEW k \in {"current", "stale"}, RecoveryRetry(k)
        PROVE  FireType'
  BY <1>32
     DEF RecoveryRetry, Free, NoOp, fireVars, guardVars, leaseVars, runVars,
         worldVars, NoNetwork
<1>33. CASE ReconcileFires
  BY <1>33 DEF ReconcileFires, guardVars, recVars, runVars, worldVars
<1>34. CASE Tick
  <2>1. orphans' \subseteq Gen \X (1..LeaseTime)
    <3> SUFFICES ASSUME NEW p \in orphans, p[2] > 1
                 PROVE  <<p[1], p[2] - 1>> \in Gen \X (1..LeaseTime)
      BY <1>34 DEF Tick
    <3>1. p[1] \in Gen /\ p[2] \in 1..LeaseTime
      BY DEF FireType
    <3>2. QED
      BY <3>1
  <2>2. waiting' \subseteq Gen
    <3>1. \A p \in orphans : p[1] \in Gen
      BY DEF FireType
    <3>2. timer = 1 => lease.gen \in Gen
      BY DEF LeaseComplete
    <3>3. QED
      BY <1>34, <3>1, <3>2 DEF Tick, FireType
  <2>3. QED
    BY <1>34, <2>1, <2>2 DEF Tick, recVars
<1>35. CASE ServiceStart
  BY <1>35
     DEF ServiceStart, NoOp, fireVars, guardVars, leaseVars, recVars, runVars,
         worldVars, NoNetwork
<1>36. CASE Exit
  BY <1>36
     DEF Exit, Free, ProcessEnds, GuardOff, NoLease, NoOp, worldVars,
         NoNetwork
<1>37. CASE Crash
  BY <1>37
     DEF Crash, ProcessEnds, GuardOff, NoLease, NoOp, worldVars, NoNetwork
<1>38. CASE UserEdit
  BY <1>38 DEF UserEdit, Notified, fireVars, leaseVars, recVars, runVars
<1>39. CASE NetworkSwitch
  BY <1>39 DEF NetworkSwitch, Notified, fireVars, leaseVars, recVars, runVars
<1>40. CASE UNCHANGED vars
  BY <1>40
     DEF vars, fireVars, guardVars, leaseVars, recVars, runVars, worldVars
<1> HIDE DEF FireType, LeaseType, LeaseComplete, Gen, Setting, LeasePc,
         NoLeasePc
<1>41. QED
  BY <1>1, <1>2, <1>3, <1>4, <1>5, <1>6, <1>7, <1>8, <1>9, <1>10, <1>11,
     <1>12, <1>13, <1>14, <1>15, <1>16, <1>17, <1>18, <1>19, <1>20, <1>21,
     <1>22, <1>23, <1>24, <1>25, <1>26, <1>27, <1>28, <1>29, <1>30, <1>31,
     <1>32, <1>33, <1>34, <1>35, <1>36, <1>37, <1>38, <1>39, <1>40
     DEF Next, HolderStep, GuardStep

\* Guards keep their fields.
LEMMA GuardTypeStep ==
  ASSUME GuardType, WorldType, HolderKnows, HolderType, [Next]_vars
  PROVE  GuardType'
<1> USE SysproxyAssumption DEF GuardType, WorldType, HolderKnows, HolderType,
        GuardPc, Network, Setting, HolderPc
<1>1. ASSUME NEW t \in Target, NEW b \in BOOLEAN, NEW k \in {"set", "adopt"}, BeginLease(k, t, b)
       PROVE  GuardType'
  BY <1>1
     DEF BeginLease, NoOp, Request, fireVars, guardVars, leaseVars, recVars,
         worldVars, NoNetwork, Free
<1>2. CASE BeginDisable
  BY <1>2
     DEF BeginDisable, NoOp, Request, fireVars, guardVars, leaseVars, recVars,
         worldVars, NoNetwork, Free
<1>3. CASE Renew
  BY <1>3 DEF Renew, Request, fireVars, guardVars, recVars, worldVars, Free
<1>4. CASE Prepare
  BY <1>4
     DEF Prepare, ClearLease, NoOp, Request, StopGuard, StopRecovery,
         fireVars, worldVars, NoLease, NoNetwork, Free
<1>5. CASE BeginShutdown
  BY <1>5
     DEF BeginShutdown, Free, NoOp, StopGuard, StopRecovery, fireVars,
         leaseVars, worldVars, NoNetwork
<1>6. CASE SetApply
  BY <1>6
     DEF SetApply, Goto, Miswritten, Notified, Unlock, Written, fireVars,
         leaseVars, recVars, runVars, worldVars, Fails, NoOp, Ok, NoNetwork
<1>7. CASE SetCapture
  BY <1>7
     DEF SetCapture, Fails, Ok, SetFails, fireVars, leaseVars, recVars,
         runVars, worldVars, ClearLease, Goto, StopGuard, NoLease, NoNetwork
<1>8. CASE SetPersist
  BY <1>8
     DEF SetPersist, Goto, NotPersisted, Persisted, ReplaceLease, SetFails,
         StopGuard, Unlock, fireVars, runVars, worldVars, Fails, Ok,
         NoNetwork, StopRecovery, ClearLease, recVars, NoOp, NoLease
<1>9. CASE SetUndo
  BY <1>9
     DEF SetUndo, Goto, Miswritten, Notified, Unlock, Written, fireVars,
         leaseVars, recVars, runVars, worldVars, Fails, NoOp, Ok, NoNetwork
<1>10. CASE Remove
  BY <1>10
     DEF Remove, Fails, Ok, Unlock, fireVars, guardVars, leaseVars, recVars,
         runVars, worldVars, NoOp, NoNetwork
<1>11. CASE StartGuard
  BY <1>11
     DEF StartGuard, Fails, Ok, Unlock, fireVars, guardVars, leaseVars,
         recVars, runVars, worldVars, NoOp, NoNetwork
<1>12. CASE Disable
  BY <1>12
     DEF Disable, ClearLease, Goto, Miswritten, Notified, StopGuard, Unlock,
         Written, fireVars, leaseVars, recVars, runVars, worldVars, NoLease,
         Fails, NoOp, Ok, NoNetwork
<1>13. CASE AdoptQuery
  BY <1>13
     DEF AdoptQuery, Fails, Ok, Unlock, fireVars, guardVars, leaseVars,
         recVars, runVars, worldVars, NoOp, NoNetwork
<1>14. CASE AdoptPersist
  BY <1>14
     DEF AdoptPersist, Goto, NotPersisted, Persisted, ReplaceLease, StopGuard,
         Unlock, fireVars, leaseVars, recVars, runVars, worldVars, Fails, Ok,
         NoNetwork, StopRecovery, NoOp
<1>15. CASE ReleaseQuery
  BY <1>15
     DEF ReleaseQuery, ClearLease, Fails, Goto, Ok, ReleaseFails, guardVars,
         leaseVars, recVars, runVars, worldVars, NoLease, Rearm, Unlock,
         NoNetwork, NoOp
<1>16. CASE ReleaseDisable
  BY <1>16
     DEF ReleaseDisable, ClearLease, Goto, Miswritten, Notified, ReleaseFails,
         Written, recVars, runVars, worldVars, NoLease, Fails, Rearm, Unlock,
         Ok, NoNetwork, NoOp
<1>17. CASE RecoverRead
  BY <1>17
     DEF RecoverRead, Fails, Goto, Ok, RecoverFails, Unlock, fireVars,
         guardVars, leaseVars, recVars, runVars, worldVars, NoOp, NoNetwork
<1>18. CASE RecoverQuery
  BY <1>18
     DEF RecoverQuery, Fails, Goto, Ok, RecoverFails, fireVars, guardVars,
         leaseVars, recVars, runVars, worldVars, Unlock, NoOp, NoNetwork
<1>19. CASE RecoverDisable
  BY <1>19
     DEF RecoverDisable, Goto, Miswritten, Notified, RecoverFails, Written,
         fireVars, leaseVars, recVars, runVars, worldVars, Fails, Unlock, Ok,
         NoOp, NoNetwork
<1>20. CASE RecoverRemove
  BY <1>20
     DEF RecoverRemove, Fails, Ok, RecoverFails, Unlock, fireVars, guardVars,
         leaseVars, recVars, runVars, worldVars, NoOp, NoNetwork
<1>21. CASE ReconcileApply
  BY <1>21
     DEF ReconcileApply, Goto, Miswritten, Notified, Unlock, Written,
         fireVars, recVars, runVars, worldVars, Fails, NoOp, Ok, NoNetwork
<1>22. CASE ReconcileVerify
  BY <1>22
     DEF ReconcileVerify, Fails, Ok, Unlock, fireVars, guardVars, recVars,
         runVars, worldVars, NoOp, NoNetwork
<1>23. CASE GuardApply
  BY <1>23
     DEF GuardApply, Goto, Miswritten, Notified, Unlock, Written, fireVars,
         leaseVars, recVars, runVars, worldVars, Fails, NoOp, Ok, NoNetwork
<1>24. CASE GuardVerify
  BY <1>24
     DEF GuardVerify, Fails, GuardGoto, Ok, Unlock, fireVars, leaseVars,
         recVars, runVars, worldVars, NoOp, NoNetwork
<1>25. ASSUME NEW n \in Gen, Expire(n)
        PROVE  GuardType'
  BY <1>25
     DEF Expire, Free, NoOp, Overdue, Rearm, StopGuard, recVars, runVars,
         worldVars, NoNetwork
<1>26. ASSUME NEW n \in Gen, Reconcile(n)
        PROVE  GuardType'
  BY <1>26
     DEF Reconcile, Fails, Free, NoNetwork, NoOp, Ok, guardVars, recVars,
         runVars, worldVars
<1>27. ASSUME NEW g \in Guard, GuardCheck(g)
        PROVE  GuardType'
  BY <1>27
     DEF GuardCheck, Fails, GuardGoto, Ok, fireVars, leaseVars, recVars,
         runVars, worldVars
<1>28. ASSUME NEW g \in Guard, GuardLock(g)
        PROVE  GuardType'
  BY <1>28
     DEF GuardLock, Current, Free, GuardGoto, NoOp, fireVars, leaseVars,
         recVars, runVars, worldVars, NoNetwork
<1>29. ASSUME NEW g \in Guard, GuardWakes(g)
        PROVE  GuardType'
  BY <1>29
     DEF GuardWakes, Fails, Ok, fireVars, leaseVars, recVars, runVars,
         worldVars
<1>30. ASSUME NEW g \in Guard, GuardEnds(g)
        PROVE  GuardType'
  BY <1>30
     DEF GuardEnds, GuardOff, fireVars, leaseVars, recVars, runVars, worldVars
<1>31. CASE RecoveryFires
  BY <1>31
     DEF RecoveryFires, fireVars, guardVars, leaseVars, runVars, worldVars
<1>32. ASSUME NEW k \in {"current", "stale"}, RecoveryRetry(k)
        PROVE  GuardType'
  BY <1>32
     DEF RecoveryRetry, Free, NoOp, fireVars, guardVars, leaseVars, runVars,
         worldVars, NoNetwork
<1>33. CASE ReconcileFires
  BY <1>33 DEF ReconcileFires, guardVars, recVars, runVars, worldVars
<1>34. CASE Tick
  BY <1>34 DEF Tick, Down, guardVars, recVars, runVars, worldVars
<1>35. CASE ServiceStart
  BY <1>35
     DEF ServiceStart, NoOp, fireVars, guardVars, leaseVars, recVars, runVars,
         worldVars, NoNetwork
<1>36. CASE Exit
  BY <1>36
     DEF Exit, Free, ProcessEnds, GuardOff, NoLease, NoOp, worldVars,
         NoNetwork
<1>37. CASE Crash
  BY <1>37
     DEF Crash, ProcessEnds, GuardOff, NoLease, NoOp, worldVars, NoNetwork
<1>38. CASE UserEdit
  BY <1>38 DEF UserEdit, Notified, fireVars, leaseVars, recVars, runVars
<1>39. CASE NetworkSwitch
  BY <1>39 DEF NetworkSwitch, Notified, fireVars, leaseVars, recVars, runVars
<1>40. CASE UNCHANGED vars
  BY <1>40
     DEF vars, fireVars, guardVars, leaseVars, recVars, runVars, worldVars
<1> HIDE DEF GuardType, WorldType, HolderKnows, HolderType, GuardPc, Network,
         Setting, HolderPc
<1>41. QED
  BY <1>1, <1>2, <1>3, <1>4, <1>5, <1>6, <1>7, <1>8, <1>9, <1>10, <1>11,
     <1>12, <1>13, <1>14, <1>15, <1>16, <1>17, <1>18, <1>19, <1>20, <1>21,
     <1>22, <1>23, <1>24, <1>25, <1>26, <1>27, <1>28, <1>29, <1>30, <1>31,
     <1>32, <1>33, <1>34, <1>35, <1>36, <1>37, <1>38, <1>39, <1>40
     DEF Next, HolderStep, GuardStep

\* The holder of the mutex is at a step.
LEMMA HolderTypeStep ==
  ASSUME HolderType, WorldType, GuardType, [Next]_vars
  PROVE  HolderType'
<1> USE SysproxyAssumption DEF HolderType, WorldType, GuardType, HolderPc,
        Network, Setting, GuardPc
<1>1. ASSUME NEW t \in Target, NEW b \in BOOLEAN, NEW k \in {"set", "adopt"}, BeginLease(k, t, b)
       PROVE  HolderType'
  BY <1>1
     DEF BeginLease, NoOp, Request, fireVars, guardVars, leaseVars, recVars,
         worldVars, NoNetwork, Free
<1>2. CASE BeginDisable
  BY <1>2
     DEF BeginDisable, NoOp, Request, fireVars, guardVars, leaseVars, recVars,
         worldVars, NoNetwork, Free
<1>3. CASE Renew
  BY <1>3 DEF Renew, Request, fireVars, guardVars, recVars, worldVars, Free
<1>4. CASE Prepare
  BY <1>4
     DEF Prepare, ClearLease, NoOp, Request, StopGuard, StopRecovery,
         fireVars, worldVars, NoLease, NoNetwork, Free
<1>5. CASE BeginShutdown
  BY <1>5
     DEF BeginShutdown, Free, NoOp, StopGuard, StopRecovery, fireVars,
         leaseVars, worldVars, NoNetwork
<1>6. CASE SetApply
  BY <1>6
     DEF SetApply, Goto, Miswritten, Notified, Unlock, Written, fireVars,
         leaseVars, recVars, runVars, worldVars, Fails, NoOp, Ok, NoNetwork
<1>7. CASE SetCapture
  BY <1>7
     DEF SetCapture, Fails, Ok, SetFails, fireVars, leaseVars, recVars,
         runVars, worldVars, ClearLease, Goto, StopGuard, NoLease, NoNetwork
<1>8. CASE SetPersist
  BY <1>8
     DEF SetPersist, Goto, NotPersisted, Persisted, ReplaceLease, SetFails,
         StopGuard, Unlock, fireVars, runVars, worldVars, Fails, Ok,
         NoNetwork, StopRecovery, ClearLease, recVars, NoOp, NoLease
<1>9. CASE SetUndo
  BY <1>9
     DEF SetUndo, Goto, Miswritten, Notified, Unlock, Written, fireVars,
         leaseVars, recVars, runVars, worldVars, Fails, NoOp, Ok, NoNetwork
<1>10. CASE Remove
  BY <1>10
     DEF Remove, Fails, Ok, Unlock, fireVars, guardVars, leaseVars, recVars,
         runVars, worldVars, NoOp, NoNetwork
<1>11. CASE StartGuard
  BY <1>11
     DEF StartGuard, Fails, Ok, Unlock, fireVars, guardVars, leaseVars,
         recVars, runVars, worldVars, NoOp, NoNetwork
<1>12. CASE Disable
  BY <1>12
     DEF Disable, ClearLease, Goto, Miswritten, Notified, StopGuard, Unlock,
         Written, fireVars, leaseVars, recVars, runVars, worldVars, NoLease,
         Fails, NoOp, Ok, NoNetwork
<1>13. CASE AdoptQuery
  BY <1>13
     DEF AdoptQuery, Fails, Ok, Unlock, fireVars, guardVars, leaseVars,
         recVars, runVars, worldVars, NoOp, NoNetwork
<1>14. CASE AdoptPersist
  BY <1>14
     DEF AdoptPersist, Goto, NotPersisted, Persisted, ReplaceLease, StopGuard,
         Unlock, fireVars, leaseVars, recVars, runVars, worldVars, Fails, Ok,
         NoNetwork, StopRecovery, NoOp
<1>15. CASE ReleaseQuery
  BY <1>15
     DEF ReleaseQuery, ClearLease, Fails, Goto, Ok, ReleaseFails, guardVars,
         leaseVars, recVars, runVars, worldVars, NoLease, Rearm, Unlock,
         NoNetwork, NoOp
<1>16. CASE ReleaseDisable
  BY <1>16
     DEF ReleaseDisable, ClearLease, Goto, Miswritten, Notified, ReleaseFails,
         Written, recVars, runVars, worldVars, NoLease, Fails, Rearm, Unlock,
         Ok, NoNetwork, NoOp
<1>17. CASE RecoverRead
  BY <1>17
     DEF RecoverRead, Fails, Goto, Ok, RecoverFails, Unlock, fireVars,
         guardVars, leaseVars, recVars, runVars, worldVars, NoOp, NoNetwork
<1>18. CASE RecoverQuery
  BY <1>18
     DEF RecoverQuery, Fails, Goto, Ok, RecoverFails, fireVars, guardVars,
         leaseVars, recVars, runVars, worldVars, Unlock, NoOp, NoNetwork
<1>19. CASE RecoverDisable
  BY <1>19
     DEF RecoverDisable, Goto, Miswritten, Notified, RecoverFails, Written,
         fireVars, leaseVars, recVars, runVars, worldVars, Fails, Unlock, Ok,
         NoOp, NoNetwork
<1>20. CASE RecoverRemove
  BY <1>20
     DEF RecoverRemove, Fails, Ok, RecoverFails, Unlock, fireVars, guardVars,
         leaseVars, recVars, runVars, worldVars, NoOp, NoNetwork
<1>21. CASE ReconcileApply
  BY <1>21
     DEF ReconcileApply, Goto, Miswritten, Notified, Unlock, Written,
         fireVars, recVars, runVars, worldVars, Fails, NoOp, Ok, NoNetwork
<1>22. CASE ReconcileVerify
  BY <1>22
     DEF ReconcileVerify, Fails, Ok, Unlock, fireVars, guardVars, recVars,
         runVars, worldVars, NoOp, NoNetwork
<1>23. CASE GuardApply
  BY <1>23
     DEF GuardApply, Goto, Miswritten, Notified, Unlock, Written, fireVars,
         leaseVars, recVars, runVars, worldVars, Fails, NoOp, Ok, NoNetwork
<1>24. CASE GuardVerify
  BY <1>24
     DEF GuardVerify, Fails, GuardGoto, Ok, Unlock, fireVars, leaseVars,
         recVars, runVars, worldVars, NoOp, NoNetwork
<1>25. ASSUME NEW n \in Gen, Expire(n)
        PROVE  HolderType'
  BY <1>25
     DEF Expire, Free, NoOp, Overdue, Rearm, StopGuard, recVars, runVars,
         worldVars, NoNetwork
<1>26. ASSUME NEW n \in Gen, Reconcile(n)
        PROVE  HolderType'
  BY <1>26
     DEF Reconcile, Fails, Free, NoNetwork, NoOp, Ok, guardVars, recVars,
         runVars, worldVars
<1>27. ASSUME NEW g \in Guard, GuardCheck(g)
        PROVE  HolderType'
  BY <1>27
     DEF GuardCheck, Fails, GuardGoto, Ok, fireVars, leaseVars, recVars,
         runVars, worldVars
<1>28. ASSUME NEW g \in Guard, GuardLock(g)
        PROVE  HolderType'
  BY <1>28
     DEF GuardLock, Current, Free, GuardGoto, NoOp, fireVars, leaseVars,
         recVars, runVars, worldVars, NoNetwork
<1>29. ASSUME NEW g \in Guard, GuardWakes(g)
        PROVE  HolderType'
  BY <1>29
     DEF GuardWakes, Fails, Ok, fireVars, leaseVars, recVars, runVars,
         worldVars
<1>30. ASSUME NEW g \in Guard, GuardEnds(g)
        PROVE  HolderType'
  BY <1>30
     DEF GuardEnds, GuardOff, fireVars, leaseVars, recVars, runVars, worldVars
<1>31. CASE RecoveryFires
  BY <1>31
     DEF RecoveryFires, fireVars, guardVars, leaseVars, runVars, worldVars
<1>32. ASSUME NEW k \in {"current", "stale"}, RecoveryRetry(k)
        PROVE  HolderType'
  BY <1>32
     DEF RecoveryRetry, Free, NoOp, fireVars, guardVars, leaseVars, runVars,
         worldVars, NoNetwork
<1>33. CASE ReconcileFires
  BY <1>33 DEF ReconcileFires, guardVars, recVars, runVars, worldVars
<1>34. CASE Tick
  BY <1>34 DEF Tick, Down, guardVars, recVars, runVars, worldVars
<1>35. CASE ServiceStart
  BY <1>35
     DEF ServiceStart, NoOp, fireVars, guardVars, leaseVars, recVars, runVars,
         worldVars, NoNetwork
<1>36. CASE Exit
  BY <1>36
     DEF Exit, Free, ProcessEnds, GuardOff, NoLease, NoOp, worldVars,
         NoNetwork
<1>37. CASE Crash
  BY <1>37
     DEF Crash, ProcessEnds, GuardOff, NoLease, NoOp, worldVars, NoNetwork
<1>38. CASE UserEdit
  BY <1>38 DEF UserEdit, Notified, fireVars, leaseVars, recVars, runVars
<1>39. CASE NetworkSwitch
  BY <1>39 DEF NetworkSwitch, Notified, fireVars, leaseVars, recVars, runVars
<1>40. CASE UNCHANGED vars
  BY <1>40
     DEF vars, fireVars, guardVars, leaseVars, recVars, runVars, worldVars
<1> HIDE DEF HolderType, WorldType, GuardType, HolderPc, Network, Setting,
         GuardPc
<1>41. QED
  BY <1>1, <1>2, <1>3, <1>4, <1>5, <1>6, <1>7, <1>8, <1>9, <1>10, <1>11,
     <1>12, <1>13, <1>14, <1>15, <1>16, <1>17, <1>18, <1>19, <1>20, <1>21,
     <1>22, <1>23, <1>24, <1>25, <1>26, <1>27, <1>28, <1>29, <1>30, <1>31,
     <1>32, <1>33, <1>34, <1>35, <1>36, <1>37, <1>38, <1>39, <1>40
     DEF Next, HolderStep, GuardStep

\* A step of the holder finds what the steps before it have made sure of.
LEMMA HolderKnowsStep ==
  ASSUME HolderKnows, HolderType, WorldType, GuardType, LeaseType, [Next]_vars
  PROVE  HolderKnows'
<1> USE SysproxyAssumption DEF HolderKnows, HolderType, WorldType, GuardType,
        LeaseType, Setting, HolderPc, Network, GuardPc
<1>1. ASSUME NEW t \in Target, NEW b \in BOOLEAN, NEW k \in {"set", "adopt"}, BeginLease(k, t, b)
       PROVE  HolderKnows'
  BY <1>1
     DEF BeginLease, NoOp, Request, fireVars, guardVars, leaseVars, recVars,
         worldVars, NoNetwork, Free
<1>2. CASE BeginDisable
  BY <1>2
     DEF BeginDisable, NoOp, Request, fireVars, guardVars, leaseVars, recVars,
         worldVars, NoNetwork, Free
<1>3. CASE Renew
  BY <1>3 DEF Renew, Request, fireVars, guardVars, recVars, worldVars, Free
<1>4. CASE Prepare
  BY <1>4
     DEF Prepare, ClearLease, NoOp, Request, StopGuard, StopRecovery,
         fireVars, worldVars, NoLease, NoNetwork, Free
<1>5. CASE BeginShutdown
  BY <1>5
     DEF BeginShutdown, Free, NoOp, StopGuard, StopRecovery, fireVars,
         leaseVars, worldVars, NoNetwork
<1>6. CASE SetApply
  BY <1>6
     DEF SetApply, Goto, Miswritten, Notified, Unlock, Written, fireVars,
         leaseVars, recVars, runVars, worldVars, Fails, NoOp, Ok, NoNetwork
<1>7. CASE SetCapture
  BY <1>7
     DEF SetCapture, Fails, Ok, SetFails, fireVars, leaseVars, recVars,
         runVars, worldVars, ClearLease, Goto, StopGuard, NoLease, NoNetwork
<1>8. CASE SetPersist
  BY <1>8
     DEF SetPersist, Goto, NotPersisted, Persisted, ReplaceLease, SetFails,
         StopGuard, Unlock, fireVars, runVars, worldVars, Fails, Ok,
         NoNetwork, StopRecovery, ClearLease, recVars, NoOp, NoLease
<1>9. CASE SetUndo
  BY <1>9
     DEF SetUndo, Goto, Miswritten, Notified, Unlock, Written, fireVars,
         leaseVars, recVars, runVars, worldVars, Fails, NoOp, Ok, NoNetwork
<1>10. CASE Remove
  BY <1>10
     DEF Remove, Fails, Ok, Unlock, fireVars, guardVars, leaseVars, recVars,
         runVars, worldVars, NoOp, NoNetwork
<1>11. CASE StartGuard
  BY <1>11
     DEF StartGuard, Fails, Ok, Unlock, fireVars, guardVars, leaseVars,
         recVars, runVars, worldVars, NoOp, NoNetwork
<1>12. CASE Disable
  BY <1>12
     DEF Disable, ClearLease, Goto, Miswritten, Notified, StopGuard, Unlock,
         Written, fireVars, leaseVars, recVars, runVars, worldVars, NoLease,
         Fails, NoOp, Ok, NoNetwork
<1>13. CASE AdoptQuery
  BY <1>13
     DEF AdoptQuery, Fails, Ok, Unlock, fireVars, guardVars, leaseVars,
         recVars, runVars, worldVars, NoOp, NoNetwork
<1>14. CASE AdoptPersist
  BY <1>14
     DEF AdoptPersist, Goto, NotPersisted, Persisted, ReplaceLease, StopGuard,
         Unlock, fireVars, leaseVars, recVars, runVars, worldVars, Fails, Ok,
         NoNetwork, StopRecovery, NoOp
<1>15. CASE ReleaseQuery
  BY <1>15
     DEF ReleaseQuery, ClearLease, Fails, Goto, Ok, ReleaseFails, guardVars,
         leaseVars, recVars, runVars, worldVars, NoLease, Rearm, Unlock,
         NoNetwork, NoOp
<1>16. CASE ReleaseDisable
  BY <1>16
     DEF ReleaseDisable, ClearLease, Goto, Miswritten, Notified, ReleaseFails,
         Written, recVars, runVars, worldVars, NoLease, Fails, Rearm, Unlock,
         Ok, NoNetwork, NoOp
<1>17. CASE RecoverRead
  BY <1>17
     DEF RecoverRead, Fails, Goto, Ok, RecoverFails, Unlock, fireVars,
         guardVars, leaseVars, recVars, runVars, worldVars, NoOp, NoNetwork
<1>18. CASE RecoverQuery
  BY <1>18
     DEF RecoverQuery, Fails, Goto, Ok, RecoverFails, fireVars, guardVars,
         leaseVars, recVars, runVars, worldVars, Unlock, NoOp, NoNetwork
<1>19. CASE RecoverDisable
  BY <1>19
     DEF RecoverDisable, Goto, Miswritten, Notified, RecoverFails, Written,
         fireVars, leaseVars, recVars, runVars, worldVars, Fails, Unlock, Ok,
         NoOp, NoNetwork
<1>20. CASE RecoverRemove
  BY <1>20
     DEF RecoverRemove, Fails, Ok, RecoverFails, Unlock, fireVars, guardVars,
         leaseVars, recVars, runVars, worldVars, NoOp, NoNetwork
<1>21. CASE ReconcileApply
  BY <1>21
     DEF ReconcileApply, Goto, Miswritten, Notified, Unlock, Written,
         fireVars, recVars, runVars, worldVars, Fails, NoOp, Ok, NoNetwork
<1>22. CASE ReconcileVerify
  BY <1>22
     DEF ReconcileVerify, Fails, Ok, Unlock, fireVars, guardVars, recVars,
         runVars, worldVars, NoOp, NoNetwork
<1>23. CASE GuardApply
  BY <1>23
     DEF GuardApply, Goto, Miswritten, Notified, Unlock, Written, fireVars,
         leaseVars, recVars, runVars, worldVars, Fails, NoOp, Ok, NoNetwork
<1>24. CASE GuardVerify
  BY <1>24
     DEF GuardVerify, Fails, GuardGoto, Ok, Unlock, fireVars, leaseVars,
         recVars, runVars, worldVars, NoOp, NoNetwork
<1>25. ASSUME NEW n \in Gen, Expire(n)
        PROVE  HolderKnows'
  BY <1>25
     DEF Expire, Free, NoOp, Overdue, Rearm, StopGuard, recVars, runVars,
         worldVars, NoNetwork
<1>26. ASSUME NEW n \in Gen, Reconcile(n)
        PROVE  HolderKnows'
  BY <1>26
     DEF Reconcile, Fails, Free, NoNetwork, NoOp, Ok, guardVars, recVars,
         runVars, worldVars
<1>27. ASSUME NEW g \in Guard, GuardCheck(g)
        PROVE  HolderKnows'
  BY <1>27
     DEF GuardCheck, Fails, GuardGoto, Ok, fireVars, leaseVars, recVars,
         runVars, worldVars
<1>28. ASSUME NEW g \in Guard, GuardLock(g)
        PROVE  HolderKnows'
  <2>1. CASE Current(g)
    <3>1. pc' = "guardApply" /\ op'.guard = g /\ active' = g
      BY <1>28, <2>1 DEF GuardLock, Current, NoOp
    <3>2. guard'[g].pc = "mutating"
      BY <1>28, <2>1 DEF GuardLock, GuardGoto
    <3>3. QED
      BY <3>1, <3>2
  <2>2. CASE ~Current(g)
    BY <1>28, <2>2 DEF GuardLock, Free
  <2>3. QED
    BY <2>1, <2>2
<1>29. ASSUME NEW g \in Guard, GuardWakes(g)
        PROVE  HolderKnows'
  BY <1>29
     DEF GuardWakes, Fails, Ok, fireVars, leaseVars, recVars, runVars,
         worldVars
<1>30. ASSUME NEW g \in Guard, GuardEnds(g)
        PROVE  HolderKnows'
  BY <1>30
     DEF GuardEnds, GuardOff, fireVars, leaseVars, recVars, runVars, worldVars
<1>31. CASE RecoveryFires
  BY <1>31
     DEF RecoveryFires, fireVars, guardVars, leaseVars, runVars, worldVars
<1>32. ASSUME NEW k \in {"current", "stale"}, RecoveryRetry(k)
        PROVE  HolderKnows'
  BY <1>32
     DEF RecoveryRetry, Free, NoOp, fireVars, guardVars, leaseVars, runVars,
         worldVars, NoNetwork
<1>33. CASE ReconcileFires
  BY <1>33 DEF ReconcileFires, guardVars, recVars, runVars, worldVars
<1>34. CASE Tick
  BY <1>34 DEF Tick, Down, guardVars, recVars, runVars, worldVars
<1>35. CASE ServiceStart
  BY <1>35
     DEF ServiceStart, NoOp, fireVars, guardVars, leaseVars, recVars, runVars,
         worldVars, NoNetwork
<1>36. CASE Exit
  BY <1>36
     DEF Exit, Free, ProcessEnds, GuardOff, NoLease, NoOp, worldVars,
         NoNetwork
<1>37. CASE Crash
  BY <1>37
     DEF Crash, ProcessEnds, GuardOff, NoLease, NoOp, worldVars, NoNetwork
<1>38. CASE UserEdit
  BY <1>38 DEF UserEdit, Notified, fireVars, leaseVars, recVars, runVars
<1>39. CASE NetworkSwitch
  BY <1>39 DEF NetworkSwitch, Notified, fireVars, leaseVars, recVars, runVars
<1>40. CASE UNCHANGED vars
  BY <1>40
     DEF vars, fireVars, guardVars, leaseVars, recVars, runVars, worldVars
<1> HIDE DEF HolderKnows, HolderType, WorldType, GuardType, LeaseType,
         Setting, HolderPc, Network, GuardPc
<1>41. QED
  BY <1>1, <1>2, <1>3, <1>4, <1>5, <1>6, <1>7, <1>8, <1>9, <1>10, <1>11,
     <1>12, <1>13, <1>14, <1>15, <1>16, <1>17, <1>18, <1>19, <1>20, <1>21,
     <1>22, <1>23, <1>24, <1>25, <1>26, <1>27, <1>28, <1>29, <1>30, <1>31,
     <1>32, <1>33, <1>34, <1>35, <1>36, <1>37, <1>38, <1>39, <1>40
     DEF Next, HolderStep, GuardStep

\* A guard is started with a setting to defend.
LEMMA GuardHasTargetStep ==
  ASSUME GuardHasTarget, GuardType, WorldType, HolderKnows, HolderType,
         [Next]_vars
  PROVE  GuardHasTarget'
<1> USE SysproxyAssumption DEF GuardHasTarget, GuardType, WorldType,
        HolderKnows, HolderType, Setting, GuardPc, Network, HolderPc
<1>1. ASSUME NEW t \in Target, NEW b \in BOOLEAN, NEW k \in {"set", "adopt"}, BeginLease(k, t, b)
       PROVE  GuardHasTarget'
  BY <1>1
     DEF BeginLease, NoOp, Request, fireVars, guardVars, leaseVars, recVars,
         worldVars, NoNetwork, Free
<1>2. CASE BeginDisable
  BY <1>2
     DEF BeginDisable, NoOp, Request, fireVars, guardVars, leaseVars, recVars,
         worldVars, NoNetwork, Free
<1>3. CASE Renew
  BY <1>3 DEF Renew, Request, fireVars, guardVars, recVars, worldVars, Free
<1>4. CASE Prepare
  BY <1>4
     DEF Prepare, ClearLease, NoOp, Request, StopGuard, StopRecovery,
         fireVars, worldVars, NoLease, NoNetwork, Free
<1>5. CASE BeginShutdown
  BY <1>5
     DEF BeginShutdown, Free, NoOp, StopGuard, StopRecovery, fireVars,
         leaseVars, worldVars, NoNetwork
<1>6. CASE SetApply
  BY <1>6
     DEF SetApply, Goto, Miswritten, Notified, Unlock, Written, fireVars,
         leaseVars, recVars, runVars, worldVars, Fails, NoOp, Ok, NoNetwork
<1>7. CASE SetCapture
  BY <1>7
     DEF SetCapture, Fails, Ok, SetFails, fireVars, leaseVars, recVars,
         runVars, worldVars, ClearLease, Goto, StopGuard, NoLease, NoNetwork
<1>8. CASE SetPersist
  BY <1>8
     DEF SetPersist, Goto, NotPersisted, Persisted, ReplaceLease, SetFails,
         StopGuard, Unlock, fireVars, runVars, worldVars, Fails, Ok,
         NoNetwork, StopRecovery, ClearLease, recVars, NoOp, NoLease
<1>9. CASE SetUndo
  BY <1>9
     DEF SetUndo, Goto, Miswritten, Notified, Unlock, Written, fireVars,
         leaseVars, recVars, runVars, worldVars, Fails, NoOp, Ok, NoNetwork
<1>10. CASE Remove
  BY <1>10
     DEF Remove, Fails, Ok, Unlock, fireVars, guardVars, leaseVars, recVars,
         runVars, worldVars, NoOp, NoNetwork
<1>11. CASE StartGuard
  BY <1>11
     DEF StartGuard, Fails, Ok, Unlock, fireVars, guardVars, leaseVars,
         recVars, runVars, worldVars, NoOp, NoNetwork
<1>12. CASE Disable
  BY <1>12
     DEF Disable, ClearLease, Goto, Miswritten, Notified, StopGuard, Unlock,
         Written, fireVars, leaseVars, recVars, runVars, worldVars, NoLease,
         Fails, NoOp, Ok, NoNetwork
<1>13. CASE AdoptQuery
  BY <1>13
     DEF AdoptQuery, Fails, Ok, Unlock, fireVars, guardVars, leaseVars,
         recVars, runVars, worldVars, NoOp, NoNetwork
<1>14. CASE AdoptPersist
  BY <1>14
     DEF AdoptPersist, Goto, NotPersisted, Persisted, ReplaceLease, StopGuard,
         Unlock, fireVars, leaseVars, recVars, runVars, worldVars, Fails, Ok,
         NoNetwork, StopRecovery, NoOp
<1>15. CASE ReleaseQuery
  BY <1>15
     DEF ReleaseQuery, ClearLease, Fails, Goto, Ok, ReleaseFails, guardVars,
         leaseVars, recVars, runVars, worldVars, NoLease, Rearm, Unlock,
         NoNetwork, NoOp
<1>16. CASE ReleaseDisable
  BY <1>16
     DEF ReleaseDisable, ClearLease, Goto, Miswritten, Notified, ReleaseFails,
         Written, recVars, runVars, worldVars, NoLease, Fails, Rearm, Unlock,
         Ok, NoNetwork, NoOp
<1>17. CASE RecoverRead
  BY <1>17
     DEF RecoverRead, Fails, Goto, Ok, RecoverFails, Unlock, fireVars,
         guardVars, leaseVars, recVars, runVars, worldVars, NoOp, NoNetwork
<1>18. CASE RecoverQuery
  BY <1>18
     DEF RecoverQuery, Fails, Goto, Ok, RecoverFails, fireVars, guardVars,
         leaseVars, recVars, runVars, worldVars, Unlock, NoOp, NoNetwork
<1>19. CASE RecoverDisable
  BY <1>19
     DEF RecoverDisable, Goto, Miswritten, Notified, RecoverFails, Written,
         fireVars, leaseVars, recVars, runVars, worldVars, Fails, Unlock, Ok,
         NoOp, NoNetwork
<1>20. CASE RecoverRemove
  BY <1>20
     DEF RecoverRemove, Fails, Ok, RecoverFails, Unlock, fireVars, guardVars,
         leaseVars, recVars, runVars, worldVars, NoOp, NoNetwork
<1>21. CASE ReconcileApply
  BY <1>21
     DEF ReconcileApply, Goto, Miswritten, Notified, Unlock, Written,
         fireVars, recVars, runVars, worldVars, Fails, NoOp, Ok, NoNetwork
<1>22. CASE ReconcileVerify
  BY <1>22
     DEF ReconcileVerify, Fails, Ok, Unlock, fireVars, guardVars, recVars,
         runVars, worldVars, NoOp, NoNetwork
<1>23. CASE GuardApply
  BY <1>23
     DEF GuardApply, Goto, Miswritten, Notified, Unlock, Written, fireVars,
         leaseVars, recVars, runVars, worldVars, Fails, NoOp, Ok, NoNetwork
<1>24. CASE GuardVerify
  BY <1>24
     DEF GuardVerify, Fails, GuardGoto, Ok, Unlock, fireVars, leaseVars,
         recVars, runVars, worldVars, NoOp, NoNetwork
<1>25. ASSUME NEW n \in Gen, Expire(n)
        PROVE  GuardHasTarget'
  BY <1>25
     DEF Expire, Free, NoOp, Overdue, Rearm, StopGuard, recVars, runVars,
         worldVars, NoNetwork
<1>26. ASSUME NEW n \in Gen, Reconcile(n)
        PROVE  GuardHasTarget'
  BY <1>26
     DEF Reconcile, Fails, Free, NoNetwork, NoOp, Ok, guardVars, recVars,
         runVars, worldVars
<1>27. ASSUME NEW g \in Guard, GuardCheck(g)
        PROVE  GuardHasTarget'
  BY <1>27
     DEF GuardCheck, Fails, GuardGoto, Ok, fireVars, leaseVars, recVars,
         runVars, worldVars
<1>28. ASSUME NEW g \in Guard, GuardLock(g)
        PROVE  GuardHasTarget'
  BY <1>28
     DEF GuardLock, Current, Free, GuardGoto, NoOp, fireVars, leaseVars,
         recVars, runVars, worldVars, NoNetwork
<1>29. ASSUME NEW g \in Guard, GuardWakes(g)
        PROVE  GuardHasTarget'
  BY <1>29
     DEF GuardWakes, Fails, Ok, fireVars, leaseVars, recVars, runVars,
         worldVars
<1>30. ASSUME NEW g \in Guard, GuardEnds(g)
        PROVE  GuardHasTarget'
  BY <1>30
     DEF GuardEnds, GuardOff, fireVars, leaseVars, recVars, runVars, worldVars
<1>31. CASE RecoveryFires
  BY <1>31
     DEF RecoveryFires, fireVars, guardVars, leaseVars, runVars, worldVars
<1>32. ASSUME NEW k \in {"current", "stale"}, RecoveryRetry(k)
        PROVE  GuardHasTarget'
  BY <1>32
     DEF RecoveryRetry, Free, NoOp, fireVars, guardVars, leaseVars, runVars,
         worldVars, NoNetwork
<1>33. CASE ReconcileFires
  BY <1>33 DEF ReconcileFires, guardVars, recVars, runVars, worldVars
<1>34. CASE Tick
  BY <1>34 DEF Tick, Down, guardVars, recVars, runVars, worldVars
<1>35. CASE ServiceStart
  BY <1>35
     DEF ServiceStart, NoOp, fireVars, guardVars, leaseVars, recVars, runVars,
         worldVars, NoNetwork
<1>36. CASE Exit
  BY <1>36
     DEF Exit, Free, ProcessEnds, GuardOff, NoLease, NoOp, worldVars,
         NoNetwork
<1>37. CASE Crash
  BY <1>37
     DEF Crash, ProcessEnds, GuardOff, NoLease, NoOp, worldVars, NoNetwork
<1>38. CASE UserEdit
  BY <1>38 DEF UserEdit, Notified, fireVars, leaseVars, recVars, runVars
<1>39. CASE NetworkSwitch
  BY <1>39 DEF NetworkSwitch, Notified, fireVars, leaseVars, recVars, runVars
<1>40. CASE UNCHANGED vars
  BY <1>40
     DEF vars, fireVars, guardVars, leaseVars, recVars, runVars, worldVars
<1> HIDE DEF GuardHasTarget, GuardType, WorldType, HolderKnows, HolderType,
         Setting, GuardPc, Network, HolderPc
<1>41. QED
  BY <1>1, <1>2, <1>3, <1>4, <1>5, <1>6, <1>7, <1>8, <1>9, <1>10, <1>11,
     <1>12, <1>13, <1>14, <1>15, <1>16, <1>17, <1>18, <1>19, <1>20, <1>21,
     <1>22, <1>23, <1>24, <1>25, <1>26, <1>27, <1>28, <1>29, <1>30, <1>31,
     <1>32, <1>33, <1>34, <1>35, <1>36, <1>37, <1>38, <1>39, <1>40
     DEF Next, HolderStep, GuardStep

\* Timers and guards come and go with the lease.
LEMMA LeaseCompleteStep ==
  ASSUME LeaseComplete, LeaseType, HolderKnows, WorldType, GuardType,
         HolderType, [Next]_vars
  PROVE  LeaseComplete'
<1> USE SysproxyAssumption DEF LeaseComplete, LeaseType, HolderKnows,
        WorldType, GuardType, HolderType, Gen, LeasePc, NoLeasePc, Setting,
        Network, GuardPc, HolderPc
<1>1. ASSUME NEW t \in Target, NEW b \in BOOLEAN, NEW k \in {"set", "adopt"}, BeginLease(k, t, b)
       PROVE  LeaseComplete'
  BY <1>1
     DEF BeginLease, NoOp, Request, fireVars, guardVars, leaseVars, recVars,
         worldVars, NoNetwork, Free
<1>2. CASE BeginDisable
  BY <1>2
     DEF BeginDisable, NoOp, Request, fireVars, guardVars, leaseVars, recVars,
         worldVars, NoNetwork, Free
<1>3. CASE Renew
  BY <1>3 DEF Renew, Request, fireVars, guardVars, recVars, worldVars, Free
<1>4. CASE Prepare
  BY <1>4
     DEF Prepare, ClearLease, NoOp, Request, StopGuard, StopRecovery,
         fireVars, worldVars, NoLease, NoNetwork, Free
<1>5. CASE BeginShutdown
  BY <1>5
     DEF BeginShutdown, Free, NoOp, StopGuard, StopRecovery, fireVars,
         leaseVars, worldVars, NoNetwork
<1>6. CASE SetApply
  BY <1>6
     DEF SetApply, Goto, Miswritten, Notified, Unlock, Written, fireVars,
         leaseVars, recVars, runVars, worldVars, Fails, NoOp, Ok, NoNetwork
<1>7. CASE SetCapture
  BY <1>7
     DEF SetCapture, Fails, Ok, SetFails, fireVars, leaseVars, recVars,
         runVars, worldVars, ClearLease, Goto, StopGuard, NoLease, NoNetwork
<1>8. CASE SetPersist
  BY <1>8
     DEF SetPersist, Goto, NotPersisted, Persisted, ReplaceLease, SetFails,
         StopGuard, Unlock, fireVars, runVars, worldVars, Fails, Ok,
         NoNetwork, StopRecovery, ClearLease, recVars, NoOp, NoLease
<1>9. CASE SetUndo
  BY <1>9
     DEF SetUndo, Goto, Miswritten, Notified, Unlock, Written, fireVars,
         leaseVars, recVars, runVars, worldVars, Fails, NoOp, Ok, NoNetwork
<1>10. CASE Remove
  BY <1>10
     DEF Remove, Fails, Ok, Unlock, fireVars, guardVars, leaseVars, recVars,
         runVars, worldVars, NoOp, NoNetwork
<1>11. CASE StartGuard
  BY <1>11
     DEF StartGuard, Fails, Ok, Unlock, fireVars, guardVars, leaseVars,
         recVars, runVars, worldVars, NoOp, NoNetwork
<1>12. CASE Disable
  BY <1>12
     DEF Disable, ClearLease, Goto, Miswritten, Notified, StopGuard, Unlock,
         Written, fireVars, leaseVars, recVars, runVars, worldVars, NoLease,
         Fails, NoOp, Ok, NoNetwork
<1>13. CASE AdoptQuery
  BY <1>13
     DEF AdoptQuery, Fails, Ok, Unlock, fireVars, guardVars, leaseVars,
         recVars, runVars, worldVars, NoOp, NoNetwork
<1>14. CASE AdoptPersist
  BY <1>14
     DEF AdoptPersist, Goto, NotPersisted, Persisted, ReplaceLease, StopGuard,
         Unlock, fireVars, leaseVars, recVars, runVars, worldVars, Fails, Ok,
         NoNetwork, StopRecovery, NoOp
<1>15. CASE ReleaseQuery
  BY <1>15
     DEF ReleaseQuery, ClearLease, Fails, Goto, Ok, ReleaseFails, guardVars,
         leaseVars, recVars, runVars, worldVars, NoLease, Rearm, Unlock,
         NoNetwork, NoOp
<1>16. CASE ReleaseDisable
  BY <1>16
     DEF ReleaseDisable, ClearLease, Goto, Miswritten, Notified, ReleaseFails,
         Written, recVars, runVars, worldVars, NoLease, Fails, Rearm, Unlock,
         Ok, NoNetwork, NoOp
<1>17. CASE RecoverRead
  BY <1>17
     DEF RecoverRead, Fails, Goto, Ok, RecoverFails, Unlock, fireVars,
         guardVars, leaseVars, recVars, runVars, worldVars, NoOp, NoNetwork
<1>18. CASE RecoverQuery
  BY <1>18
     DEF RecoverQuery, Fails, Goto, Ok, RecoverFails, fireVars, guardVars,
         leaseVars, recVars, runVars, worldVars, Unlock, NoOp, NoNetwork
<1>19. CASE RecoverDisable
  BY <1>19
     DEF RecoverDisable, Goto, Miswritten, Notified, RecoverFails, Written,
         fireVars, leaseVars, recVars, runVars, worldVars, Fails, Unlock, Ok,
         NoOp, NoNetwork
<1>20. CASE RecoverRemove
  BY <1>20
     DEF RecoverRemove, Fails, Ok, RecoverFails, Unlock, fireVars, guardVars,
         leaseVars, recVars, runVars, worldVars, NoOp, NoNetwork
<1>21. CASE ReconcileApply
  BY <1>21
     DEF ReconcileApply, Goto, Miswritten, Notified, Unlock, Written,
         fireVars, recVars, runVars, worldVars, Fails, NoOp, Ok, NoNetwork
<1>22. CASE ReconcileVerify
  BY <1>22
     DEF ReconcileVerify, Fails, Ok, Unlock, fireVars, guardVars, recVars,
         runVars, worldVars, NoOp, NoNetwork
<1>23. CASE GuardApply
  BY <1>23
     DEF GuardApply, Goto, Miswritten, Notified, Unlock, Written, fireVars,
         leaseVars, recVars, runVars, worldVars, Fails, NoOp, Ok, NoNetwork
<1>24. CASE GuardVerify
  BY <1>24
     DEF GuardVerify, Fails, GuardGoto, Ok, Unlock, fireVars, leaseVars,
         recVars, runVars, worldVars, NoOp, NoNetwork
<1>25. ASSUME NEW n \in Gen, Expire(n)
        PROVE  LeaseComplete'
  BY <1>25
     DEF Expire, Free, NoOp, Overdue, Rearm, StopGuard, recVars, runVars,
         worldVars, NoNetwork
<1>26. ASSUME NEW n \in Gen, Reconcile(n)
        PROVE  LeaseComplete'
  BY <1>26
     DEF Reconcile, Fails, Free, NoNetwork, NoOp, Ok, guardVars, recVars,
         runVars, worldVars
<1>27. ASSUME NEW g \in Guard, GuardCheck(g)
        PROVE  LeaseComplete'
  BY <1>27
     DEF GuardCheck, Fails, GuardGoto, Ok, fireVars, leaseVars, recVars,
         runVars, worldVars
<1>28. ASSUME NEW g \in Guard, GuardLock(g)
        PROVE  LeaseComplete'
  BY <1>28
     DEF GuardLock, Current, Free, GuardGoto, NoOp, fireVars, leaseVars,
         recVars, runVars, worldVars, NoNetwork
<1>29. ASSUME NEW g \in Guard, GuardWakes(g)
        PROVE  LeaseComplete'
  BY <1>29
     DEF GuardWakes, Fails, Ok, fireVars, leaseVars, recVars, runVars,
         worldVars
<1>30. ASSUME NEW g \in Guard, GuardEnds(g)
        PROVE  LeaseComplete'
  BY <1>30
     DEF GuardEnds, GuardOff, fireVars, leaseVars, recVars, runVars, worldVars
<1>31. CASE RecoveryFires
  BY <1>31
     DEF RecoveryFires, fireVars, guardVars, leaseVars, runVars, worldVars
<1>32. ASSUME NEW k \in {"current", "stale"}, RecoveryRetry(k)
        PROVE  LeaseComplete'
  BY <1>32
     DEF RecoveryRetry, Free, NoOp, fireVars, guardVars, leaseVars, runVars,
         worldVars, NoNetwork
<1>33. CASE ReconcileFires
  BY <1>33 DEF ReconcileFires, guardVars, recVars, runVars, worldVars
<1>34. CASE Tick
  BY <1>34 DEF Tick, Down, guardVars, recVars, runVars, worldVars
<1>35. CASE ServiceStart
  BY <1>35
     DEF ServiceStart, NoOp, fireVars, guardVars, leaseVars, recVars, runVars,
         worldVars, NoNetwork
<1>36. CASE Exit
  BY <1>36
     DEF Exit, Free, ProcessEnds, GuardOff, NoLease, NoOp, worldVars,
         NoNetwork
<1>37. CASE Crash
  BY <1>37
     DEF Crash, ProcessEnds, GuardOff, NoLease, NoOp, worldVars, NoNetwork
<1>38. CASE UserEdit
  BY <1>38 DEF UserEdit, Notified, fireVars, leaseVars, recVars, runVars
<1>39. CASE NetworkSwitch
  BY <1>39 DEF NetworkSwitch, Notified, fireVars, leaseVars, recVars, runVars
<1>40. CASE UNCHANGED vars
  BY <1>40
     DEF vars, fireVars, guardVars, leaseVars, recVars, runVars, worldVars
<1> HIDE DEF LeaseComplete, LeaseType, HolderKnows, WorldType, GuardType,
         HolderType, Gen, LeasePc, NoLeasePc, Setting, Network, GuardPc,
         HolderPc
<1>41. QED
  BY <1>1, <1>2, <1>3, <1>4, <1>5, <1>6, <1>7, <1>8, <1>9, <1>10, <1>11,
     <1>12, <1>13, <1>14, <1>15, <1>16, <1>17, <1>18, <1>19, <1>20, <1>21,
     <1>22, <1>23, <1>24, <1>25, <1>26, <1>27, <1>28, <1>29, <1>30, <1>31,
     <1>32, <1>33, <1>34, <1>35, <1>36, <1>37, <1>38, <1>39, <1>40
     DEF Next, HolderStep, GuardStep

\* A renewal, an expiry that finds the lease renewed and a failed release
\* leave a timer.
LEMMA TimerPendingStep ==
  ASSUME TimerPending, LeaseComplete, LeaseType, FireType, [Next]_vars
  PROVE  TimerPending'
<1> USE SysproxyAssumption DEF TimerPending, LeaseComplete, LeaseType,
        FireType, Gen, LeasePc, NoLeasePc, Setting
<1>1. ASSUME NEW t \in Target, NEW b \in BOOLEAN, NEW k \in {"set", "adopt"}, BeginLease(k, t, b)
       PROVE  TimerPending'
  BY <1>1
     DEF BeginLease, NoOp, Request, fireVars, guardVars, leaseVars, recVars,
         worldVars, NoNetwork, Free
<1>2. CASE BeginDisable
  BY <1>2
     DEF BeginDisable, NoOp, Request, fireVars, guardVars, leaseVars, recVars,
         worldVars, NoNetwork, Free
<1>3. CASE Renew
  BY <1>3 DEF Renew, Request, fireVars, guardVars, recVars, worldVars, Free
<1>4. CASE Prepare
  BY <1>4
     DEF Prepare, ClearLease, NoOp, Request, StopGuard, StopRecovery,
         fireVars, worldVars, NoLease, NoNetwork, Free
<1>5. CASE BeginShutdown
  BY <1>5
     DEF BeginShutdown, Free, NoOp, StopGuard, StopRecovery, fireVars,
         leaseVars, worldVars, NoNetwork
<1>6. CASE SetApply
  BY <1>6
     DEF SetApply, Goto, Miswritten, Notified, Unlock, Written, fireVars,
         leaseVars, recVars, runVars, worldVars, Fails, NoOp, Ok, NoNetwork
<1>7. CASE SetCapture
  BY <1>7
     DEF SetCapture, Fails, Ok, SetFails, fireVars, leaseVars, recVars,
         runVars, worldVars, ClearLease, Goto, StopGuard, NoLease, NoNetwork
<1>8. CASE SetPersist
  BY <1>8
     DEF SetPersist, Goto, NotPersisted, Persisted, ReplaceLease, SetFails,
         StopGuard, Unlock, fireVars, runVars, worldVars, Fails, Ok,
         NoNetwork, StopRecovery, ClearLease, recVars, NoOp, NoLease
<1>9. CASE SetUndo
  BY <1>9
     DEF SetUndo, Goto, Miswritten, Notified, Unlock, Written, fireVars,
         leaseVars, recVars, runVars, worldVars, Fails, NoOp, Ok, NoNetwork
<1>10. CASE Remove
  BY <1>10
     DEF Remove, Fails, Ok, Unlock, fireVars, guardVars, leaseVars, recVars,
         runVars, worldVars, NoOp, NoNetwork
<1>11. CASE StartGuard
  BY <1>11
     DEF StartGuard, Fails, Ok, Unlock, fireVars, guardVars, leaseVars,
         recVars, runVars, worldVars, NoOp, NoNetwork
<1>12. CASE Disable
  BY <1>12
     DEF Disable, ClearLease, Goto, Miswritten, Notified, StopGuard, Unlock,
         Written, fireVars, leaseVars, recVars, runVars, worldVars, NoLease,
         Fails, NoOp, Ok, NoNetwork
<1>13. CASE AdoptQuery
  BY <1>13
     DEF AdoptQuery, Fails, Ok, Unlock, fireVars, guardVars, leaseVars,
         recVars, runVars, worldVars, NoOp, NoNetwork
<1>14. CASE AdoptPersist
  BY <1>14
     DEF AdoptPersist, Goto, NotPersisted, Persisted, ReplaceLease, StopGuard,
         Unlock, fireVars, leaseVars, recVars, runVars, worldVars, Fails, Ok,
         NoNetwork, StopRecovery, NoOp
<1>15. CASE ReleaseQuery
  BY <1>15
     DEF ReleaseQuery, ClearLease, Fails, Goto, Ok, ReleaseFails, guardVars,
         leaseVars, recVars, runVars, worldVars, NoLease, Rearm, Unlock,
         NoNetwork, NoOp
<1>16. CASE ReleaseDisable
  BY <1>16
     DEF ReleaseDisable, ClearLease, Goto, Miswritten, Notified, ReleaseFails,
         Written, recVars, runVars, worldVars, NoLease, Fails, Rearm, Unlock,
         Ok, NoNetwork, NoOp
<1>17. CASE RecoverRead
  BY <1>17
     DEF RecoverRead, Fails, Goto, Ok, RecoverFails, Unlock, fireVars,
         guardVars, leaseVars, recVars, runVars, worldVars, NoOp, NoNetwork
<1>18. CASE RecoverQuery
  BY <1>18
     DEF RecoverQuery, Fails, Goto, Ok, RecoverFails, fireVars, guardVars,
         leaseVars, recVars, runVars, worldVars, Unlock, NoOp, NoNetwork
<1>19. CASE RecoverDisable
  BY <1>19
     DEF RecoverDisable, Goto, Miswritten, Notified, RecoverFails, Written,
         fireVars, leaseVars, recVars, runVars, worldVars, Fails, Unlock, Ok,
         NoOp, NoNetwork
<1>20. CASE RecoverRemove
  BY <1>20
     DEF RecoverRemove, Fails, Ok, RecoverFails, Unlock, fireVars, guardVars,
         leaseVars, recVars, runVars, worldVars, NoOp, NoNetwork
<1>21. CASE ReconcileApply
  BY <1>21
     DEF ReconcileApply, Goto, Miswritten, Notified, Unlock, Written,
         fireVars, recVars, runVars, worldVars, Fails, NoOp, Ok, NoNetwork
<1>22. CASE ReconcileVerify
  BY <1>22
     DEF ReconcileVerify, Fails, Ok, Unlock, fireVars, guardVars, recVars,
         runVars, worldVars, NoOp, NoNetwork
<1>23. CASE GuardApply
  BY <1>23
     DEF GuardApply, Goto, Miswritten, Notified, Unlock, Written, fireVars,
         leaseVars, recVars, runVars, worldVars, Fails, NoOp, Ok, NoNetwork
<1>24. CASE GuardVerify
  BY <1>24
     DEF GuardVerify, Fails, GuardGoto, Ok, Unlock, fireVars, leaseVars,
         recVars, runVars, worldVars, NoOp, NoNetwork
<1>25. ASSUME NEW n \in Gen, Expire(n)
        PROVE  TimerPending'
  BY <1>25
     DEF Expire, Free, NoOp, Overdue, Rearm, StopGuard, recVars, runVars,
         worldVars, NoNetwork
<1>26. ASSUME NEW n \in Gen, Reconcile(n)
        PROVE  TimerPending'
  BY <1>26
     DEF Reconcile, Fails, Free, NoNetwork, NoOp, Ok, guardVars, recVars,
         runVars, worldVars
<1>27. ASSUME NEW g \in Guard, GuardCheck(g)
        PROVE  TimerPending'
  BY <1>27
     DEF GuardCheck, Fails, GuardGoto, Ok, fireVars, leaseVars, recVars,
         runVars, worldVars
<1>28. ASSUME NEW g \in Guard, GuardLock(g)
        PROVE  TimerPending'
  BY <1>28
     DEF GuardLock, Current, Free, GuardGoto, NoOp, fireVars, leaseVars,
         recVars, runVars, worldVars, NoNetwork
<1>29. ASSUME NEW g \in Guard, GuardWakes(g)
        PROVE  TimerPending'
  BY <1>29
     DEF GuardWakes, Fails, Ok, fireVars, leaseVars, recVars, runVars,
         worldVars
<1>30. ASSUME NEW g \in Guard, GuardEnds(g)
        PROVE  TimerPending'
  BY <1>30
     DEF GuardEnds, GuardOff, fireVars, leaseVars, recVars, runVars, worldVars
<1>31. CASE RecoveryFires
  BY <1>31
     DEF RecoveryFires, fireVars, guardVars, leaseVars, runVars, worldVars
<1>32. ASSUME NEW k \in {"current", "stale"}, RecoveryRetry(k)
        PROVE  TimerPending'
  BY <1>32
     DEF RecoveryRetry, Free, NoOp, fireVars, guardVars, leaseVars, runVars,
         worldVars, NoNetwork
<1>33. CASE ReconcileFires
  BY <1>33 DEF ReconcileFires, guardVars, recVars, runVars, worldVars
<1>34. CASE Tick
  BY <1>34 DEF Tick, Down, guardVars, recVars, runVars, worldVars
<1>35. CASE ServiceStart
  BY <1>35
     DEF ServiceStart, NoOp, fireVars, guardVars, leaseVars, recVars, runVars,
         worldVars, NoNetwork
<1>36. CASE Exit
  BY <1>36
     DEF Exit, Free, ProcessEnds, GuardOff, NoLease, NoOp, worldVars,
         NoNetwork
<1>37. CASE Crash
  BY <1>37
     DEF Crash, ProcessEnds, GuardOff, NoLease, NoOp, worldVars, NoNetwork
<1>38. CASE UserEdit
  BY <1>38 DEF UserEdit, Notified, fireVars, leaseVars, recVars, runVars
<1>39. CASE NetworkSwitch
  BY <1>39 DEF NetworkSwitch, Notified, fireVars, leaseVars, recVars, runVars
<1>40. CASE UNCHANGED vars
  BY <1>40
     DEF vars, fireVars, guardVars, leaseVars, recVars, runVars, worldVars
<1> HIDE DEF TimerPending, LeaseComplete, LeaseType, FireType, Gen, LeasePc,
         NoLeasePc, Setting
<1>41. QED
  BY <1>1, <1>2, <1>3, <1>4, <1>5, <1>6, <1>7, <1>8, <1>9, <1>10, <1>11,
     <1>12, <1>13, <1>14, <1>15, <1>16, <1>17, <1>18, <1>19, <1>20, <1>21,
     <1>22, <1>23, <1>24, <1>25, <1>26, <1>27, <1>28, <1>29, <1>30, <1>31,
     <1>32, <1>33, <1>34, <1>35, <1>36, <1>37, <1>38, <1>39, <1>40
     DEF Next, HolderStep, GuardStep

\* Nothing renews a lease that is being released.
LEMMA NotReleasedEarlyStep ==
  ASSUME NotReleasedEarly, LeaseType, HolderType, [Next]_vars
  PROVE  NotReleasedEarly'
<1> USE SysproxyAssumption DEF NotReleasedEarly, LeaseType, HolderType,
        Setting, HolderPc
<1>1. ASSUME NEW t \in Target, NEW b \in BOOLEAN, NEW k \in {"set", "adopt"}, BeginLease(k, t, b)
       PROVE  NotReleasedEarly'
  BY <1>1
     DEF BeginLease, NoOp, Request, fireVars, guardVars, leaseVars, recVars,
         worldVars, NoNetwork, Free
<1>2. CASE BeginDisable
  BY <1>2
     DEF BeginDisable, NoOp, Request, fireVars, guardVars, leaseVars, recVars,
         worldVars, NoNetwork, Free
<1>3. CASE Renew
  BY <1>3 DEF Renew, Request, fireVars, guardVars, recVars, worldVars, Free
<1>4. CASE Prepare
  BY <1>4
     DEF Prepare, ClearLease, NoOp, Request, StopGuard, StopRecovery,
         fireVars, worldVars, NoLease, NoNetwork, Free
<1>5. CASE BeginShutdown
  BY <1>5
     DEF BeginShutdown, Free, NoOp, StopGuard, StopRecovery, fireVars,
         leaseVars, worldVars, NoNetwork
<1>6. CASE SetApply
  BY <1>6
     DEF SetApply, Goto, Miswritten, Notified, Unlock, Written, fireVars,
         leaseVars, recVars, runVars, worldVars, Fails, NoOp, Ok, NoNetwork
<1>7. CASE SetCapture
  BY <1>7
     DEF SetCapture, Fails, Ok, SetFails, fireVars, leaseVars, recVars,
         runVars, worldVars, ClearLease, Goto, StopGuard, NoLease, NoNetwork
<1>8. CASE SetPersist
  BY <1>8
     DEF SetPersist, Goto, NotPersisted, Persisted, ReplaceLease, SetFails,
         StopGuard, Unlock, fireVars, runVars, worldVars, Fails, Ok,
         NoNetwork, StopRecovery, ClearLease, recVars, NoOp, NoLease
<1>9. CASE SetUndo
  BY <1>9
     DEF SetUndo, Goto, Miswritten, Notified, Unlock, Written, fireVars,
         leaseVars, recVars, runVars, worldVars, Fails, NoOp, Ok, NoNetwork
<1>10. CASE Remove
  BY <1>10
     DEF Remove, Fails, Ok, Unlock, fireVars, guardVars, leaseVars, recVars,
         runVars, worldVars, NoOp, NoNetwork
<1>11. CASE StartGuard
  BY <1>11
     DEF StartGuard, Fails, Ok, Unlock, fireVars, guardVars, leaseVars,
         recVars, runVars, worldVars, NoOp, NoNetwork
<1>12. CASE Disable
  BY <1>12
     DEF Disable, ClearLease, Goto, Miswritten, Notified, StopGuard, Unlock,
         Written, fireVars, leaseVars, recVars, runVars, worldVars, NoLease,
         Fails, NoOp, Ok, NoNetwork
<1>13. CASE AdoptQuery
  BY <1>13
     DEF AdoptQuery, Fails, Ok, Unlock, fireVars, guardVars, leaseVars,
         recVars, runVars, worldVars, NoOp, NoNetwork
<1>14. CASE AdoptPersist
  BY <1>14
     DEF AdoptPersist, Goto, NotPersisted, Persisted, ReplaceLease, StopGuard,
         Unlock, fireVars, leaseVars, recVars, runVars, worldVars, Fails, Ok,
         NoNetwork, StopRecovery, NoOp
<1>15. CASE ReleaseQuery
  BY <1>15
     DEF ReleaseQuery, ClearLease, Fails, Goto, Ok, ReleaseFails, guardVars,
         leaseVars, recVars, runVars, worldVars, NoLease, Rearm, Unlock,
         NoNetwork, NoOp
<1>16. CASE ReleaseDisable
  BY <1>16
     DEF ReleaseDisable, ClearLease, Goto, Miswritten, Notified, ReleaseFails,
         Written, recVars, runVars, worldVars, NoLease, Fails, Rearm, Unlock,
         Ok, NoNetwork, NoOp
<1>17. CASE RecoverRead
  BY <1>17
     DEF RecoverRead, Fails, Goto, Ok, RecoverFails, Unlock, fireVars,
         guardVars, leaseVars, recVars, runVars, worldVars, NoOp, NoNetwork
<1>18. CASE RecoverQuery
  BY <1>18
     DEF RecoverQuery, Fails, Goto, Ok, RecoverFails, fireVars, guardVars,
         leaseVars, recVars, runVars, worldVars, Unlock, NoOp, NoNetwork
<1>19. CASE RecoverDisable
  BY <1>19
     DEF RecoverDisable, Goto, Miswritten, Notified, RecoverFails, Written,
         fireVars, leaseVars, recVars, runVars, worldVars, Fails, Unlock, Ok,
         NoOp, NoNetwork
<1>20. CASE RecoverRemove
  BY <1>20
     DEF RecoverRemove, Fails, Ok, RecoverFails, Unlock, fireVars, guardVars,
         leaseVars, recVars, runVars, worldVars, NoOp, NoNetwork
<1>21. CASE ReconcileApply
  BY <1>21
     DEF ReconcileApply, Goto, Miswritten, Notified, Unlock, Written,
         fireVars, recVars, runVars, worldVars, Fails, NoOp, Ok, NoNetwork
<1>22. CASE ReconcileVerify
  BY <1>22
     DEF ReconcileVerify, Fails, Ok, Unlock, fireVars, guardVars, recVars,
         runVars, worldVars, NoOp, NoNetwork
<1>23. CASE GuardApply
  BY <1>23
     DEF GuardApply, Goto, Miswritten, Notified, Unlock, Written, fireVars,
         leaseVars, recVars, runVars, worldVars, Fails, NoOp, Ok, NoNetwork
<1>24. CASE GuardVerify
  BY <1>24
     DEF GuardVerify, Fails, GuardGoto, Ok, Unlock, fireVars, leaseVars,
         recVars, runVars, worldVars, NoOp, NoNetwork
<1>25. ASSUME NEW n \in Gen, Expire(n)
        PROVE  NotReleasedEarly'
  BY <1>25
     DEF Expire, Free, NoOp, Overdue, Rearm, StopGuard, recVars, runVars,
         worldVars, NoNetwork
<1>26. ASSUME NEW n \in Gen, Reconcile(n)
        PROVE  NotReleasedEarly'
  BY <1>26
     DEF Reconcile, Fails, Free, NoNetwork, NoOp, Ok, guardVars, recVars,
         runVars, worldVars
<1>27. ASSUME NEW g \in Guard, GuardCheck(g)
        PROVE  NotReleasedEarly'
  BY <1>27
     DEF GuardCheck, Fails, GuardGoto, Ok, fireVars, leaseVars, recVars,
         runVars, worldVars
<1>28. ASSUME NEW g \in Guard, GuardLock(g)
        PROVE  NotReleasedEarly'
  BY <1>28
     DEF GuardLock, Current, Free, GuardGoto, NoOp, fireVars, leaseVars,
         recVars, runVars, worldVars, NoNetwork
<1>29. ASSUME NEW g \in Guard, GuardWakes(g)
        PROVE  NotReleasedEarly'
  BY <1>29
     DEF GuardWakes, Fails, Ok, fireVars, leaseVars, recVars, runVars,
         worldVars
<1>30. ASSUME NEW g \in Guard, GuardEnds(g)
        PROVE  NotReleasedEarly'
  BY <1>30
     DEF GuardEnds, GuardOff, fireVars, leaseVars, recVars, runVars, worldVars
<1>31. CASE RecoveryFires
  BY <1>31
     DEF RecoveryFires, fireVars, guardVars, leaseVars, runVars, worldVars
<1>32. ASSUME NEW k \in {"current", "stale"}, RecoveryRetry(k)
        PROVE  NotReleasedEarly'
  BY <1>32
     DEF RecoveryRetry, Free, NoOp, fireVars, guardVars, leaseVars, runVars,
         worldVars, NoNetwork
<1>33. CASE ReconcileFires
  BY <1>33 DEF ReconcileFires, guardVars, recVars, runVars, worldVars
<1>34. CASE Tick
  BY <1>34 DEF Tick, Down, guardVars, recVars, runVars, worldVars
<1>35. CASE ServiceStart
  BY <1>35
     DEF ServiceStart, NoOp, fireVars, guardVars, leaseVars, recVars, runVars,
         worldVars, NoNetwork
<1>36. CASE Exit
  BY <1>36
     DEF Exit, Free, ProcessEnds, GuardOff, NoLease, NoOp, worldVars,
         NoNetwork
<1>37. CASE Crash
  BY <1>37
     DEF Crash, ProcessEnds, GuardOff, NoLease, NoOp, worldVars, NoNetwork
<1>38. CASE UserEdit
  BY <1>38 DEF UserEdit, Notified, fireVars, leaseVars, recVars, runVars
<1>39. CASE NetworkSwitch
  BY <1>39 DEF NetworkSwitch, Notified, fireVars, leaseVars, recVars, runVars
<1>40. CASE UNCHANGED vars
  BY <1>40
     DEF vars, fireVars, guardVars, leaseVars, recVars, runVars, worldVars
<1> HIDE DEF NotReleasedEarly, LeaseType, HolderType, Setting, HolderPc
<1>41. QED
  BY <1>1, <1>2, <1>3, <1>4, <1>5, <1>6, <1>7, <1>8, <1>9, <1>10, <1>11,
     <1>12, <1>13, <1>14, <1>15, <1>16, <1>17, <1>18, <1>19, <1>20, <1>21,
     <1>22, <1>23, <1>24, <1>25, <1>26, <1>27, <1>28, <1>29, <1>30, <1>31,
     <1>32, <1>33, <1>34, <1>35, <1>36, <1>37, <1>38, <1>39, <1>40
     DEF Next, HolderStep, GuardStep

\* The lease and its record change together, if a write of the record that
\* fails leaves it alone.
LEMMA RecordKeptStep ==
  ASSUME RecordKept, LeaseComplete, LeaseType, HolderType, "sync" \notin Rare,
         [Next]_vars
  PROVE  RecordKept'
<1> USE SysproxyAssumption DEF RecordKept, LeaseComplete, LeaseType,
        HolderType, Gen, LeasePc, NoLeasePc, Setting, HolderPc
<1>1. ASSUME NEW t \in Target, NEW b \in BOOLEAN, NEW k \in {"set", "adopt"}, BeginLease(k, t, b)
       PROVE  RecordKept'
  BY <1>1
     DEF BeginLease, NoOp, Request, fireVars, guardVars, leaseVars, recVars,
         worldVars, NoNetwork, Free
<1>2. CASE BeginDisable
  BY <1>2
     DEF BeginDisable, NoOp, Request, fireVars, guardVars, leaseVars, recVars,
         worldVars, NoNetwork, Free
<1>3. CASE Renew
  BY <1>3 DEF Renew, Request, fireVars, guardVars, recVars, worldVars, Free
<1>4. CASE Prepare
  BY <1>4
     DEF Prepare, ClearLease, NoOp, Request, StopGuard, StopRecovery,
         fireVars, worldVars, NoLease, NoNetwork, Free
<1>5. CASE BeginShutdown
  BY <1>5
     DEF BeginShutdown, Free, NoOp, StopGuard, StopRecovery, fireVars,
         leaseVars, worldVars, NoNetwork
<1>6. CASE SetApply
  BY <1>6
     DEF SetApply, Goto, Miswritten, Notified, Unlock, Written, fireVars,
         leaseVars, recVars, runVars, worldVars, Fails, NoOp, Ok, NoNetwork
<1>7. CASE SetCapture
  BY <1>7
     DEF SetCapture, Fails, Ok, SetFails, fireVars, leaseVars, recVars,
         runVars, worldVars, ClearLease, Goto, StopGuard, NoLease, NoNetwork
<1>8. CASE SetPersist
  BY <1>8
     DEF SetPersist, Goto, NotPersisted, Persisted, ReplaceLease, SetFails,
         StopGuard, Unlock, fireVars, runVars, worldVars, Fails, Ok,
         NoNetwork, StopRecovery, ClearLease, recVars, NoOp, NoLease
<1>9. CASE SetUndo
  BY <1>9
     DEF SetUndo, Goto, Miswritten, Notified, Unlock, Written, fireVars,
         leaseVars, recVars, runVars, worldVars, Fails, NoOp, Ok, NoNetwork
<1>10. CASE Remove
  BY <1>10
     DEF Remove, Fails, Ok, Unlock, fireVars, guardVars, leaseVars, recVars,
         runVars, worldVars, NoOp, NoNetwork
<1>11. CASE StartGuard
  BY <1>11
     DEF StartGuard, Fails, Ok, Unlock, fireVars, guardVars, leaseVars,
         recVars, runVars, worldVars, NoOp, NoNetwork
<1>12. CASE Disable
  BY <1>12
     DEF Disable, ClearLease, Goto, Miswritten, Notified, StopGuard, Unlock,
         Written, fireVars, leaseVars, recVars, runVars, worldVars, NoLease,
         Fails, NoOp, Ok, NoNetwork
<1>13. CASE AdoptQuery
  BY <1>13
     DEF AdoptQuery, Fails, Ok, Unlock, fireVars, guardVars, leaseVars,
         recVars, runVars, worldVars, NoOp, NoNetwork
<1>14. CASE AdoptPersist
  BY <1>14
     DEF AdoptPersist, Goto, NotPersisted, Persisted, ReplaceLease, StopGuard,
         Unlock, fireVars, leaseVars, recVars, runVars, worldVars, Fails, Ok,
         NoNetwork, StopRecovery, NoOp
<1>15. CASE ReleaseQuery
  BY <1>15
     DEF ReleaseQuery, ClearLease, Fails, Goto, Ok, ReleaseFails, guardVars,
         leaseVars, recVars, runVars, worldVars, NoLease, Rearm, Unlock,
         NoNetwork, NoOp
<1>16. CASE ReleaseDisable
  BY <1>16
     DEF ReleaseDisable, ClearLease, Goto, Miswritten, Notified, ReleaseFails,
         Written, recVars, runVars, worldVars, NoLease, Fails, Rearm, Unlock,
         Ok, NoNetwork, NoOp
<1>17. CASE RecoverRead
  BY <1>17
     DEF RecoverRead, Fails, Goto, Ok, RecoverFails, Unlock, fireVars,
         guardVars, leaseVars, recVars, runVars, worldVars, NoOp, NoNetwork
<1>18. CASE RecoverQuery
  BY <1>18
     DEF RecoverQuery, Fails, Goto, Ok, RecoverFails, fireVars, guardVars,
         leaseVars, recVars, runVars, worldVars, Unlock, NoOp, NoNetwork
<1>19. CASE RecoverDisable
  BY <1>19
     DEF RecoverDisable, Goto, Miswritten, Notified, RecoverFails, Written,
         fireVars, leaseVars, recVars, runVars, worldVars, Fails, Unlock, Ok,
         NoOp, NoNetwork
<1>20. CASE RecoverRemove
  BY <1>20
     DEF RecoverRemove, Fails, Ok, RecoverFails, Unlock, fireVars, guardVars,
         leaseVars, recVars, runVars, worldVars, NoOp, NoNetwork
<1>21. CASE ReconcileApply
  BY <1>21
     DEF ReconcileApply, Goto, Miswritten, Notified, Unlock, Written,
         fireVars, recVars, runVars, worldVars, Fails, NoOp, Ok, NoNetwork
<1>22. CASE ReconcileVerify
  BY <1>22
     DEF ReconcileVerify, Fails, Ok, Unlock, fireVars, guardVars, recVars,
         runVars, worldVars, NoOp, NoNetwork
<1>23. CASE GuardApply
  BY <1>23
     DEF GuardApply, Goto, Miswritten, Notified, Unlock, Written, fireVars,
         leaseVars, recVars, runVars, worldVars, Fails, NoOp, Ok, NoNetwork
<1>24. CASE GuardVerify
  BY <1>24
     DEF GuardVerify, Fails, GuardGoto, Ok, Unlock, fireVars, leaseVars,
         recVars, runVars, worldVars, NoOp, NoNetwork
<1>25. ASSUME NEW n \in Gen, Expire(n)
        PROVE  RecordKept'
  BY <1>25
     DEF Expire, Free, NoOp, Overdue, Rearm, StopGuard, recVars, runVars,
         worldVars, NoNetwork
<1>26. ASSUME NEW n \in Gen, Reconcile(n)
        PROVE  RecordKept'
  BY <1>26
     DEF Reconcile, Fails, Free, NoNetwork, NoOp, Ok, guardVars, recVars,
         runVars, worldVars
<1>27. ASSUME NEW g \in Guard, GuardCheck(g)
        PROVE  RecordKept'
  BY <1>27
     DEF GuardCheck, Fails, GuardGoto, Ok, fireVars, leaseVars, recVars,
         runVars, worldVars
<1>28. ASSUME NEW g \in Guard, GuardLock(g)
        PROVE  RecordKept'
  BY <1>28
     DEF GuardLock, Current, Free, GuardGoto, NoOp, fireVars, leaseVars,
         recVars, runVars, worldVars, NoNetwork
<1>29. ASSUME NEW g \in Guard, GuardWakes(g)
        PROVE  RecordKept'
  BY <1>29
     DEF GuardWakes, Fails, Ok, fireVars, leaseVars, recVars, runVars,
         worldVars
<1>30. ASSUME NEW g \in Guard, GuardEnds(g)
        PROVE  RecordKept'
  BY <1>30
     DEF GuardEnds, GuardOff, fireVars, leaseVars, recVars, runVars, worldVars
<1>31. CASE RecoveryFires
  BY <1>31
     DEF RecoveryFires, fireVars, guardVars, leaseVars, runVars, worldVars
<1>32. ASSUME NEW k \in {"current", "stale"}, RecoveryRetry(k)
        PROVE  RecordKept'
  BY <1>32
     DEF RecoveryRetry, Free, NoOp, fireVars, guardVars, leaseVars, runVars,
         worldVars, NoNetwork
<1>33. CASE ReconcileFires
  BY <1>33 DEF ReconcileFires, guardVars, recVars, runVars, worldVars
<1>34. CASE Tick
  BY <1>34 DEF Tick, Down, guardVars, recVars, runVars, worldVars
<1>35. CASE ServiceStart
  BY <1>35
     DEF ServiceStart, NoOp, fireVars, guardVars, leaseVars, recVars, runVars,
         worldVars, NoNetwork
<1>36. CASE Exit
  BY <1>36
     DEF Exit, Free, ProcessEnds, GuardOff, NoLease, NoOp, worldVars,
         NoNetwork
<1>37. CASE Crash
  BY <1>37
     DEF Crash, ProcessEnds, GuardOff, NoLease, NoOp, worldVars, NoNetwork
<1>38. CASE UserEdit
  BY <1>38 DEF UserEdit, Notified, fireVars, leaseVars, recVars, runVars
<1>39. CASE NetworkSwitch
  BY <1>39 DEF NetworkSwitch, Notified, fireVars, leaseVars, recVars, runVars
<1>40. CASE UNCHANGED vars
  BY <1>40
     DEF vars, fireVars, guardVars, leaseVars, recVars, runVars, worldVars
<1> HIDE DEF RecordKept, LeaseComplete, LeaseType, HolderType, Gen, LeasePc,
         NoLeasePc, Setting, HolderPc
<1>41. QED
  BY <1>1, <1>2, <1>3, <1>4, <1>5, <1>6, <1>7, <1>8, <1>9, <1>10, <1>11,
     <1>12, <1>13, <1>14, <1>15, <1>16, <1>17, <1>18, <1>19, <1>20, <1>21,
     <1>22, <1>23, <1>24, <1>25, <1>26, <1>27, <1>28, <1>29, <1>30, <1>31,
     <1>32, <1>33, <1>34, <1>35, <1>36, <1>37, <1>38, <1>39, <1>40
     DEF Next, HolderStep, GuardStep

\* A step that writes a setting is one of a request, or there is a lease.
LEMMA LeasedWriteStep ==
  ASSUME LeaseType, HolderType, WorldType, GuardType, HolderKnows,
         LeaseComplete, [Next]_vars
  PROVE  LeasedWrite \/ UNCHANGED vars
<1> USE SysproxyAssumption DEF LeaseType, HolderType, WorldType, GuardType,
        HolderKnows, LeaseComplete, LeasedWrite, Setting, HolderPc, Network,
        GuardPc, Gen, LeasePc, NoLeasePc
<1>1. ASSUME NEW t \in Target, NEW b \in BOOLEAN, NEW k \in {"set", "adopt"}, BeginLease(k, t, b)
       PROVE  LeasedWrite \/ UNCHANGED vars
  BY <1>1
     DEF BeginLease, NoOp, Request, fireVars, guardVars, leaseVars, recVars,
         worldVars, NoNetwork, Free
<1>2. CASE BeginDisable
  BY <1>2
     DEF BeginDisable, NoOp, Request, fireVars, guardVars, leaseVars, recVars,
         worldVars, NoNetwork, Free
<1>3. CASE Renew
  BY <1>3 DEF Renew, Request, fireVars, guardVars, recVars, worldVars, Free
<1>4. CASE Prepare
  BY <1>4
     DEF Prepare, ClearLease, NoOp, Request, StopGuard, StopRecovery,
         fireVars, worldVars, NoLease, NoNetwork, Free
<1>5. CASE BeginShutdown
  BY <1>5
     DEF BeginShutdown, Free, NoOp, StopGuard, StopRecovery, fireVars,
         leaseVars, worldVars, NoNetwork
<1>6. CASE SetApply
  BY <1>6
     DEF SetApply, Goto, Miswritten, Notified, Unlock, Written, fireVars,
         leaseVars, recVars, runVars, worldVars, Fails, NoOp, Ok, NoNetwork
<1>7. CASE SetCapture
  BY <1>7
     DEF SetCapture, Fails, Ok, SetFails, fireVars, leaseVars, recVars,
         runVars, worldVars, ClearLease, Goto, StopGuard, NoLease, NoNetwork
<1>8. CASE SetPersist
  BY <1>8
     DEF SetPersist, Goto, NotPersisted, Persisted, ReplaceLease, SetFails,
         StopGuard, Unlock, fireVars, runVars, worldVars, Fails, Ok,
         NoNetwork, StopRecovery, ClearLease, recVars, NoOp, NoLease
<1>9. CASE SetUndo
  BY <1>9
     DEF SetUndo, Goto, Miswritten, Notified, Unlock, Written, fireVars,
         leaseVars, recVars, runVars, worldVars, Fails, NoOp, Ok, NoNetwork
<1>10. CASE Remove
  BY <1>10
     DEF Remove, Fails, Ok, Unlock, fireVars, guardVars, leaseVars, recVars,
         runVars, worldVars, NoOp, NoNetwork
<1>11. CASE StartGuard
  BY <1>11
     DEF StartGuard, Fails, Ok, Unlock, fireVars, guardVars, leaseVars,
         recVars, runVars, worldVars, NoOp, NoNetwork
<1>12. CASE Disable
  BY <1>12
     DEF Disable, ClearLease, Goto, Miswritten, Notified, StopGuard, Unlock,
         Written, fireVars, leaseVars, recVars, runVars, worldVars, NoLease,
         Fails, NoOp, Ok, NoNetwork
<1>13. CASE AdoptQuery
  BY <1>13
     DEF AdoptQuery, Fails, Ok, Unlock, fireVars, guardVars, leaseVars,
         recVars, runVars, worldVars, NoOp, NoNetwork
<1>14. CASE AdoptPersist
  BY <1>14
     DEF AdoptPersist, Goto, NotPersisted, Persisted, ReplaceLease, StopGuard,
         Unlock, fireVars, leaseVars, recVars, runVars, worldVars, Fails, Ok,
         NoNetwork, StopRecovery, NoOp
<1>15. CASE ReleaseQuery
  BY <1>15
     DEF ReleaseQuery, ClearLease, Fails, Goto, Ok, ReleaseFails, guardVars,
         leaseVars, recVars, runVars, worldVars, NoLease, Rearm, Unlock,
         NoNetwork, NoOp
<1>16. CASE ReleaseDisable
  BY <1>16
     DEF ReleaseDisable, ClearLease, Goto, Miswritten, Notified, ReleaseFails,
         Written, recVars, runVars, worldVars, NoLease, Fails, Rearm, Unlock,
         Ok, NoNetwork, NoOp
<1>17. CASE RecoverRead
  BY <1>17
     DEF RecoverRead, Fails, Goto, Ok, RecoverFails, Unlock, fireVars,
         guardVars, leaseVars, recVars, runVars, worldVars, NoOp, NoNetwork
<1>18. CASE RecoverQuery
  BY <1>18
     DEF RecoverQuery, Fails, Goto, Ok, RecoverFails, fireVars, guardVars,
         leaseVars, recVars, runVars, worldVars, Unlock, NoOp, NoNetwork
<1>19. CASE RecoverDisable
  BY <1>19
     DEF RecoverDisable, Goto, Miswritten, Notified, RecoverFails, Written,
         fireVars, leaseVars, recVars, runVars, worldVars, Fails, Unlock, Ok,
         NoOp, NoNetwork
<1>20. CASE RecoverRemove
  BY <1>20
     DEF RecoverRemove, Fails, Ok, RecoverFails, Unlock, fireVars, guardVars,
         leaseVars, recVars, runVars, worldVars, NoOp, NoNetwork
<1>21. CASE ReconcileApply
  BY <1>21
     DEF ReconcileApply, Goto, Miswritten, Notified, Unlock, Written,
         fireVars, recVars, runVars, worldVars, Fails, NoOp, Ok, NoNetwork
<1>22. CASE ReconcileVerify
  BY <1>22
     DEF ReconcileVerify, Fails, Ok, Unlock, fireVars, guardVars, recVars,
         runVars, worldVars, NoOp, NoNetwork
<1>23. CASE GuardApply
  BY <1>23
     DEF GuardApply, Goto, Miswritten, Notified, Unlock, Written, fireVars,
         leaseVars, recVars, runVars, worldVars, Fails, NoOp, Ok, NoNetwork
<1>24. CASE GuardVerify
  BY <1>24
     DEF GuardVerify, Fails, GuardGoto, Ok, Unlock, fireVars, leaseVars,
         recVars, runVars, worldVars, NoOp, NoNetwork
<1>25. ASSUME NEW n \in Gen, Expire(n)
        PROVE  LeasedWrite \/ UNCHANGED vars
  BY <1>25
     DEF Expire, Free, NoOp, Overdue, Rearm, StopGuard, recVars, runVars,
         worldVars, NoNetwork
<1>26. ASSUME NEW n \in Gen, Reconcile(n)
        PROVE  LeasedWrite \/ UNCHANGED vars
  BY <1>26
     DEF Reconcile, Fails, Free, NoNetwork, NoOp, Ok, guardVars, recVars,
         runVars, worldVars
<1>27. ASSUME NEW g \in Guard, GuardCheck(g)
        PROVE  LeasedWrite \/ UNCHANGED vars
  BY <1>27
     DEF GuardCheck, Fails, GuardGoto, Ok, fireVars, leaseVars, recVars,
         runVars, worldVars
<1>28. ASSUME NEW g \in Guard, GuardLock(g)
        PROVE  LeasedWrite \/ UNCHANGED vars
  BY <1>28
     DEF GuardLock, Current, Free, GuardGoto, NoOp, fireVars, leaseVars,
         recVars, runVars, worldVars, NoNetwork
<1>29. ASSUME NEW g \in Guard, GuardWakes(g)
        PROVE  LeasedWrite \/ UNCHANGED vars
  BY <1>29
     DEF GuardWakes, Fails, Ok, fireVars, leaseVars, recVars, runVars,
         worldVars
<1>30. ASSUME NEW g \in Guard, GuardEnds(g)
        PROVE  LeasedWrite \/ UNCHANGED vars
  BY <1>30
     DEF GuardEnds, GuardOff, fireVars, leaseVars, recVars, runVars, worldVars
<1>31. CASE RecoveryFires
  BY <1>31
     DEF RecoveryFires, fireVars, guardVars, leaseVars, runVars, worldVars
<1>32. ASSUME NEW k \in {"current", "stale"}, RecoveryRetry(k)
        PROVE  LeasedWrite \/ UNCHANGED vars
  BY <1>32
     DEF RecoveryRetry, Free, NoOp, fireVars, guardVars, leaseVars, runVars,
         worldVars, NoNetwork
<1>33. CASE ReconcileFires
  BY <1>33 DEF ReconcileFires, guardVars, recVars, runVars, worldVars
<1>34. CASE Tick
  BY <1>34 DEF Tick, Down, guardVars, recVars, runVars, worldVars
<1>35. CASE ServiceStart
  BY <1>35
     DEF ServiceStart, NoOp, fireVars, guardVars, leaseVars, recVars, runVars,
         worldVars, NoNetwork
<1>36. CASE Exit
  BY <1>36
     DEF Exit, Free, ProcessEnds, GuardOff, NoLease, NoOp, worldVars,
         NoNetwork
<1>37. CASE Crash
  BY <1>37
     DEF Crash, ProcessEnds, GuardOff, NoLease, NoOp, worldVars, NoNetwork
<1>38. CASE UserEdit
  BY <1>38 DEF UserEdit, Notified, fireVars, leaseVars, recVars, runVars
<1>39. CASE NetworkSwitch
  BY <1>39 DEF NetworkSwitch, Notified, fireVars, leaseVars, recVars, runVars
<1>40. CASE UNCHANGED vars
  BY <1>40
     DEF vars, fireVars, guardVars, leaseVars, recVars, runVars, worldVars
<1> HIDE DEF LeaseType, HolderType, WorldType, GuardType, HolderKnows,
         LeaseComplete, LeasedWrite, Setting, HolderPc, Network, GuardPc, Gen,
         LeasePc, NoLeasePc
<1>41. QED
  BY <1>1, <1>2, <1>3, <1>4, <1>5, <1>6, <1>7, <1>8, <1>9, <1>10, <1>11,
     <1>12, <1>13, <1>14, <1>15, <1>16, <1>17, <1>18, <1>19, <1>20, <1>21,
     <1>22, <1>23, <1>24, <1>25, <1>26, <1>27, <1>28, <1>29, <1>30, <1>31,
     <1>32, <1>33, <1>34, <1>35, <1>36, <1>37, <1>38, <1>39, <1>40
     DEF Next, HolderStep, GuardStep

\* The first process of the service satisfies the invariant.
LEMMA ProxyInit == Init => ProxyInv /\ RecordKept
<1> SUFFICES ASSUME Init PROVE ProxyInv /\ RecordKept
  OBVIOUS
<1>1. lease.on = FALSE
  BY DEF Init, NoLease
<1>2. BoolType
  BY <1>1, Zenon DEF Init, BoolType
<1>3. WorldType
  BY DEF Init, WorldType, Setting, Network
<1>4. LeaseType
  BY SysproxyAssumption DEF Init, LeaseType, NoLease
<1>5. FireType
  BY DEF Init, FireType
<1>6. GuardType
  BY DEF Init, GuardType, GuardOff, GuardPc
<1>7. HolderType
  BY DEF Init, HolderType, NoOp
<1>8. HolderKnows /\ NotReleasedEarly
  BY DEF Init, HolderKnows, NotReleasedEarly
<1>9. GuardHasTarget
  BY DEF Init, GuardHasTarget, GuardOff
<1>10. LeaseComplete
  BY <1>1 DEF Init, LeaseComplete, LeasePc, NoLeasePc
<1>11. TimerPending /\ RecordKept
  BY <1>1 DEF TimerPending, RecordKept
<1>12. QED
  BY <1>2, <1>3, <1>4, <1>5, <1>6, <1>7, <1>8, <1>9, <1>10, <1>11
     DEF ProxyInv, Types

\* Every step keeps the invariant.
LEMMA ProxyStep == ProxyInv /\ [Next]_vars => ProxyInv'
<1> SUFFICES ASSUME ProxyInv, [Next]_vars PROVE ProxyInv'
  OBVIOUS
<1> USE DEF ProxyInv, Types
<1>1. BoolType' /\ WorldType' /\ LeaseType' /\ FireType' /\ GuardType' /\ HolderType'
  BY BoolTypeStep, WorldTypeStep, LeaseTypeStep, FireTypeStep, GuardTypeStep,
     HolderTypeStep
<1>2. HolderKnows' /\ GuardHasTarget' /\ LeaseComplete'
  BY HolderKnowsStep, GuardHasTargetStep, LeaseCompleteStep
<1>3. TimerPending' /\ NotReleasedEarly'
  BY TimerPendingStep, NotReleasedEarlyStep
<1>4. QED
  BY <1>1, <1>2, <1>3

\* What the invariant says when the mutex is free.
LEMMA ProxyInvImplies ==
  ASSUME ProxyInv
  PROVE  TypeOK /\ LeaseHasTimer /\ GuardOnlyWithLease /\ NotReleasedEarly
<1>1. TypeOK
  BY DEF ProxyInv, Types, BoolType, WorldType, LeaseType, FireType, GuardType,
         HolderType, GuardPc, TypeOK
<1>2. LeaseHasTimer /\ GuardOnlyWithLease /\ NotReleasedEarly
  BY DEF ProxyInv, TimerPending, LeaseComplete, LeaseHasTimer,
         GuardOnlyWithLease, Free
<1>3. QED
  BY <1>1, <1>2

(***************************************************************************)
(* Theorems.                                                               *)
(***************************************************************************)
\* Whatever fails, whoever waits for the mutex and whenever the process ends:
\* while the mutex is free a lease has a timer, a guard has a lease, and an
\* expiry has not touched a lease that was renewed (expireSysproxyLease,
\* releaseSysproxyLease, configureSysproxyGuard).
THEOREM LeaseAlwaysTimed ==
  Spec => [](TypeOK /\ LeaseHasTimer /\ GuardOnlyWithLease /\ NotReleasedEarly)
<1>1. ProxyInv => TypeOK /\ LeaseHasTimer /\ GuardOnlyWithLease /\ NotReleasedEarly
  BY ProxyInvImplies
<1>2. QED
  BY ProxyInit, ProxyStep, <1>1, PTL DEF Spec

\* If a write of managed.json that fails has left the file alone (the directory
\* sync after the rename is the exception in the code), then also the record
\* names what the lease expects: LeaseIntact holds as a whole.
THEOREM LeaseAlwaysIntact ==
  ASSUME "sync" \notin Rare
  PROVE  Spec => []LeaseIntact
<1>1. ProxyInv /\ RecordKept => LeaseIntact
  <2> SUFFICES ASSUME ProxyInv, RecordKept PROVE LeaseIntact
    OBVIOUS
  <2>1. RecordMatchesLease
    BY DEF RecordKept, RecordMatchesLease
  <2>2. QED
    BY <2>1, ProxyInvImplies DEF LeaseIntact
<1>2. ProxyInv /\ RecordKept /\ [Next]_vars => RecordKept'
  BY RecordKeptStep DEF ProxyInv, Types
<1>3. QED
  BY ProxyInit, ProxyStep, <1>1, <1>2, PTL DEF Spec

\* A proxy setting is written only for a request or under a lease: a guard or a
\* reconciliation that was stopped while it waited never brings one back
\* (sysproxyGuardState.active, reconcileSysproxyLease).
THEOREM OnlyLeasedWrites == Spec => OnlyLeasedSettingsWritten
<1>1. ProxyInv /\ [Next]_vars => [LeasedWrite]_vars
  BY LeasedWriteStep DEF ProxyInv, Types
<1>2. QED
  BY ProxyInit, ProxyStep, <1>1, PTL DEF Spec, OnlyLeasedSettingsWritten, LeasedWrite
=============================================================================
