--------------------------- MODULE DnsLeaseProofs ---------------------------
(***************************************************************************)
(* Proofs about DnsLease for any services, servers, durations and bounds:  *)
(* the types (TypeInv), why nothing is taken early (LoopHasReason), and    *)
(* why lease.json always suffices to restore every service (LeaseInv).     *)
(***************************************************************************)
EXTENDS DnsLease, TLAPS

(***************************************************************************)
(* Facts about the building blocks.                                        *)
(***************************************************************************)
\* EntryOf finds the entry that EntryAtHand promises.
LEMMA EntryOfIsEntry ==
  ASSUME EntryAtHand,
         pc \in {"setPersist", "setApply", "recPersist", "recCheck", "recApply"}
  PROVE  EntryOf(svc) \in entries /\ EntryOf(svc).svc = svc
BY DEF EntryAtHand, EntryOf

\* The entry made for the active service.
LEMMA NewEntryType ==
  ASSUME OsTypeOK
  PROVE  NewEntry \in Entry /\ NewEntry.svc = active /\ NewEntry.orig = dns[active]
<1>1. FALSE \in BOOLEAN
  OBVIOUS
<1>2. NewEntry.svc = active /\ NewEntry.orig = dns[active]
  BY DEF NewEntry
<1>3. QED
  BY <1>1, <1>2, Zenon DEF NewEntry, Entry, OsTypeOK

\* Marking an entry applied changes nothing else.
LEMMA MarkAppliedType ==
  ASSUME NEW e \in Entry
  PROVE  /\ MarkApplied(e) \in Entry
         /\ MarkApplied(e).svc = e.svc /\ MarkApplied(e).orig = e.orig
BY DEF MarkApplied, Entry

\* SetDns by the lease keeps the types of the operating system's state.
LEMMA ApplyType ==
  ASSUME NEW s \in Service, NEW e \in Entry, NEW ok \in BOOLEAN, OsTypeOK,
         want \in Value, Apply(s, e, ok)
  PROVE  dns' \in [Service -> Value] /\ owned' \in [Service -> BOOLEAN]
         /\ prior' \in [Service -> Value]
<1>1. e.orig \in Value
  BY DEF Entry
<1>2. (e.orig # want) \in BOOLEAN
  OBVIOUS
<1>3. [owned EXCEPT ![s] = e.orig # want] \in [Service -> BOOLEAN]
  BY <1>2, Zenon DEF OsTypeOK
<1>4. owned' \in [Service -> BOOLEAN]
  BY <1>3, Zenon DEF OsTypeOK, Apply
<1>5. QED
  BY <1>1, <1>4 DEF Apply, OsTypeOK

\* Timers that fire, and expire, keep the types of the timers.
LEMMA TimersType ==
  ASSUME TypeOK, TimerFires \/ Expire
  PROVE  TimerTypeOK'
<1>1. fired' \in 0..MaxFired
  BY LeaseAssumption DEF TypeOK, TimerTypeOK, TimerFires, Expire
<1>2. timer' \in Countdown \cup {Off} /\ orphans' \subseteq Countdown
  BY DEF TypeOK, TimerTypeOK, LeaseTypeOK, TimerFires, Expire, Rearm
<1>3. QED
  BY <1>1, <1>2 DEF TimerTypeOK

\* Only restore's SetDns goes from restoreSet back to the loop.
LEMMA OnlyRestoreSet ==
  ASSUME [Next]_vars, pc = "restoreSet", pc' = "restore"
  PROVE  RestoreSet
BY DEF Next, Requests, Working, Environment, Set, Renew, Delete, Stop, SetRead,
       SetPersist, SetApply, FinalSave, RenewSave, RestoreRead, ReleaseLoopDone,
       ReleaseSave, ReleaseRemove, ReconcilePersist, ReconcileCheck,
       ReconcileApply, ReconcileLoopDone, TimerFires, Expire, WatchTick,
       ReconcileActive, Shutdown, Recover, UserEdit, NetworkSwitch, Tick, Crash,
       Exit, vars

(***************************************************************************)
(* Types.                                                                  *)
(***************************************************************************)
\* The types hold when the service starts for the first time.
LEMMA TypeInit == Init => TypeInv
<1> SUFFICES ASSUME Init PROVE TypeInv
  OBVIOUS
<1> USE LeaseAssumption DEF Init
<1>1. OsTypeOK
  BY DEF OsTypeOK
<1>2. LeaseTypeOK
  BY DEF LeaseTypeOK, Countdown
<1>3. TimerTypeOK
  BY DEF TimerTypeOK, Countdown
<1>4. LocalTypeOK
  BY DEF LocalTypeOK, Pc, Cont
<1>5. FlagTypeOK
  BY DEF FlagTypeOK
<1>6. BudgetTypeOK
  BY DEF BudgetTypeOK
<1>7. WantKnown /\ LoopOnLease /\ EntryAtHand
  BY DEF WantKnown, LoopOnLease, EntryAtHand, InLoop
<1>8. QED
  BY <1>1, <1>2, <1>3, <1>4, <1>5, <1>6, <1>7 DEF TypeInv, TypeOK

\* Every step keeps the types.
LEMMA TypeStep == TypeInv /\ [Next]_vars => TypeInv'
<1> SUFFICES ASSUME TypeInv, [Next]_vars PROVE TypeInv'
  OBVIOUS
<1> USE LeaseAssumption
    DEF TypeInv, TypeOK, OsTypeOK, LeaseTypeOK, LocalTypeOK, Pc, Cont, vars,
        osVars, leaseVars, diskVars, timerVars, localVars, budgetVars
<1>1. ASSUME NEW v \in Server, Set(v) PROVE TypeInv'
  <2>1. OsTypeOK' /\ LeaseTypeOK'
    BY <1>1 DEF Set, RequestBudget, StartRestore, Countdown
  <2>2. TimerTypeOK' /\ BudgetTypeOK'
    BY <1>1 DEF Set, RequestBudget, StartRestore, Countdown, TimerTypeOK,
        BudgetTypeOK
  <2>3. LocalTypeOK' /\ WantKnown' /\ LoopOnLease' /\ EntryAtHand'
    BY <1>1 DEF Set, RequestBudget, StartRestore, InLoop, WantKnown,
        LoopOnLease, EntryAtHand
  <2>4. FlagTypeOK'
    BY <1>1 DEF Set, RequestBudget, StartRestore, FlagTypeOK
  <2>5. QED
    BY <2>1, <2>2, <2>3, <2>4
<1>2. CASE Renew
  <2>1. OsTypeOK' /\ LeaseTypeOK'
    BY <1>2 DEF Renew, RequestBudget, Countdown
  <2>2. TimerTypeOK' /\ BudgetTypeOK'
    BY <1>2 DEF Renew, RequestBudget, Countdown, TimerTypeOK, BudgetTypeOK
  <2>3. LocalTypeOK' /\ WantKnown' /\ LoopOnLease' /\ EntryAtHand'
    BY <1>2 DEF Renew, RequestBudget, InLoop, WantKnown, LoopOnLease,
        EntryAtHand
  <2>4. FlagTypeOK'
    BY <1>2 DEF Renew, RequestBudget, FlagTypeOK
  <2>5. QED
    BY <2>1, <2>2, <2>3, <2>4
<1>3. CASE Delete
  <2>1. OsTypeOK' /\ LeaseTypeOK'
    BY <1>3 DEF Delete, RequestBudget, StartRestore, Countdown
  <2>2. TimerTypeOK' /\ BudgetTypeOK'
    BY <1>3 DEF Delete, RequestBudget, StartRestore, Countdown, TimerTypeOK,
        BudgetTypeOK
  <2>3. LocalTypeOK' /\ WantKnown' /\ LoopOnLease' /\ EntryAtHand'
    BY <1>3 DEF Delete, RequestBudget, StartRestore, InLoop, WantKnown,
        LoopOnLease, EntryAtHand
  <2>4. FlagTypeOK'
    BY <1>3 DEF Delete, RequestBudget, StartRestore, FlagTypeOK
  <2>5. QED
    BY <2>1, <2>2, <2>3, <2>4
<1>4. CASE Stop
  <2>1. OsTypeOK' /\ LeaseTypeOK'
    BY <1>4 DEF Stop, RequestBudget, StartRestore, StopTimers, Countdown
  <2>2. TimerTypeOK' /\ BudgetTypeOK'
    BY <1>4 DEF Stop, RequestBudget, StartRestore, StopTimers, Countdown,
        TimerTypeOK, BudgetTypeOK
  <2>3. LocalTypeOK' /\ WantKnown' /\ LoopOnLease' /\ EntryAtHand'
    BY <1>4 DEF Stop, RequestBudget, StartRestore, StopTimers, InLoop,
        WantKnown, LoopOnLease, EntryAtHand
  <2>4. FlagTypeOK'
    BY <1>4 DEF Stop, RequestBudget, StartRestore, StopTimers, FlagTypeOK
  <2>5. QED
    BY <2>1, <2>2, <2>3, <2>4
<1>5. CASE SetRead
  <2>1. OsTypeOK' /\ LeaseTypeOK'
    BY <1>5, NewEntryType DEF SetRead, OK, Fault, Finish, Countdown
  <2>2. TimerTypeOK' /\ BudgetTypeOK'
    BY <1>5 DEF SetRead, OK, Fault, Finish, Countdown, TimerTypeOK,
        BudgetTypeOK
  <2>3. LocalTypeOK' /\ WantKnown' /\ LoopOnLease' /\ EntryAtHand'
    BY <1>5, NewEntryType DEF SetRead, OK, Fault, Finish, InLoop, WantKnown,
        LoopOnLease, EntryAtHand
  <2>4. FlagTypeOK'
    BY <1>5 DEF SetRead, OK, Fault, Finish, FlagTypeOK
  <2>5. QED
    BY <2>1, <2>2, <2>3, <2>4
<1>6. CASE SetPersist
  <2>1. OsTypeOK' /\ LeaseTypeOK'
    BY <1>6 DEF SetPersist, OK, Fault, Save, Finish, Countdown
  <2>2. TimerTypeOK' /\ BudgetTypeOK'
    BY <1>6 DEF SetPersist, OK, Fault, Save, Finish, Countdown, TimerTypeOK,
        BudgetTypeOK
  <2>3. LocalTypeOK' /\ WantKnown' /\ LoopOnLease' /\ EntryAtHand'
    BY <1>6 DEF SetPersist, OK, Fault, Save, Finish, InLoop, WantKnown,
        LoopOnLease, EntryAtHand
  <2>4. FlagTypeOK'
    BY <1>6 DEF SetPersist, OK, Fault, Save, Finish, FlagTypeOK
  <2>5. QED
    BY <2>1, <2>2, <2>3, <2>4
<1>7. CASE SetApply
  <2>1. OsTypeOK' /\ LeaseTypeOK'
    BY <1>7, EntryOfIsEntry, ApplyType, MarkAppliedType DEF SetApply, OK,
        Fault, Schedule, StartRestore, WantKnown, Countdown
  <2>2. TimerTypeOK'
    BY <1>7 DEF SetApply, OK, Fault, Apply, Schedule, StartRestore, Countdown,
        TimerTypeOK
  <2>3. BudgetTypeOK'
    BY <1>7 DEF SetApply, OK, Fault, Apply, Schedule, StartRestore,
        BudgetTypeOK
  <2>4. LocalTypeOK' /\ WantKnown' /\ LoopOnLease' /\ EntryAtHand'
    BY <1>7, EntryOfIsEntry, MarkAppliedType DEF SetApply, OK, Fault, Apply,
        Schedule, StartRestore, InLoop, WantKnown, LoopOnLease, EntryAtHand
  <2>5. FlagTypeOK'
    BY <1>7 DEF SetApply, OK, Fault, Apply, Schedule, StartRestore, FlagTypeOK
  <2>6. QED
    BY <2>1, <2>2, <2>3, <2>4, <2>5
<1>8. CASE FinalSave
  <2>1. OsTypeOK' /\ LeaseTypeOK'
    BY <1>8 DEF FinalSave, OK, Fault, Save, Finish, Countdown
  <2>2. TimerTypeOK' /\ BudgetTypeOK'
    BY <1>8 DEF FinalSave, OK, Fault, Save, Finish, Countdown, TimerTypeOK,
        BudgetTypeOK
  <2>3. LocalTypeOK' /\ WantKnown' /\ LoopOnLease' /\ EntryAtHand'
    BY <1>8 DEF FinalSave, OK, Fault, Save, Finish, InLoop, WantKnown,
        LoopOnLease, EntryAtHand
  <2>4. FlagTypeOK'
    BY <1>8 DEF FinalSave, OK, Fault, Save, Finish, FlagTypeOK
  <2>5. QED
    BY <2>1, <2>2, <2>3, <2>4
<1>9. CASE RenewSave
  <2>1. OsTypeOK' /\ LeaseTypeOK'
    BY <1>9 DEF RenewSave, OK, Fault, Save, Finish, Schedule, Countdown
  <2>2. TimerTypeOK'
    BY <1>9 DEF RenewSave, OK, Fault, Save, Finish, Schedule, Countdown,
        TimerTypeOK
  <2>3. BudgetTypeOK'
    BY <1>9 DEF RenewSave, OK, Fault, Save, Finish, Schedule, BudgetTypeOK
  <2>4. LocalTypeOK' /\ WantKnown' /\ LoopOnLease' /\ EntryAtHand'
    BY <1>9 DEF RenewSave, OK, Fault, Save, Finish, Schedule, InLoop,
        WantKnown, LoopOnLease, EntryAtHand
  <2>5. FlagTypeOK'
    BY <1>9 DEF RenewSave, OK, Fault, Save, Finish, Schedule, FlagTypeOK
  <2>6. QED
    BY <2>1, <2>2, <2>3, <2>4, <2>5
<1>10. CASE RestoreRead
  <2>1. OsTypeOK' /\ LeaseTypeOK'
    BY <1>10 DEF RestoreRead, OK, Fault, Countdown
  <2>2. TimerTypeOK' /\ BudgetTypeOK'
    BY <1>10 DEF RestoreRead, OK, Fault, Countdown, TimerTypeOK, BudgetTypeOK
  <2>3. LocalTypeOK' /\ WantKnown' /\ LoopOnLease' /\ EntryAtHand'
    BY <1>10 DEF RestoreRead, OK, Fault, InLoop, WantKnown, LoopOnLease,
        EntryAtHand
  <2>4. FlagTypeOK'
    BY <1>10 DEF RestoreRead, OK, Fault, FlagTypeOK
  <2>5. QED
    BY <2>1, <2>2, <2>3, <2>4
<1>11. CASE RestoreSet
  <2>1. OsTypeOK' /\ LeaseTypeOK'
    BY <1>11 DEF RestoreSet, OK, Fault, PutBack, Entry, Countdown
  <2>2. TimerTypeOK' /\ BudgetTypeOK'
    BY <1>11 DEF RestoreSet, OK, Fault, PutBack, Countdown, TimerTypeOK,
        BudgetTypeOK
  <2>3. LocalTypeOK' /\ WantKnown' /\ LoopOnLease' /\ EntryAtHand'
    BY <1>11 DEF RestoreSet, OK, Fault, PutBack, InLoop, WantKnown,
        LoopOnLease, EntryAtHand
  <2>4. FlagTypeOK'
    BY <1>11 DEF RestoreSet, OK, Fault, PutBack, FlagTypeOK
  <2>5. QED
    BY <2>1, <2>2, <2>3, <2>4
<1>12. CASE ReleaseLoopDone
  <2>1. OsTypeOK' /\ LeaseTypeOK'
    BY <1>12 DEF ReleaseLoopDone, StopTimers, WantKnown, Countdown
  <2>2. TimerTypeOK' /\ BudgetTypeOK'
    BY <1>12 DEF ReleaseLoopDone, StopTimers, Countdown, TimerTypeOK,
        BudgetTypeOK
  <2>3. LocalTypeOK' /\ WantKnown' /\ LoopOnLease' /\ EntryAtHand'
    BY <1>12 DEF ReleaseLoopDone, StopTimers, InLoop, WantKnown, LoopOnLease,
        EntryAtHand
  <2>4. FlagTypeOK'
    BY <1>12 DEF ReleaseLoopDone, StopTimers, FlagTypeOK
  <2>5. QED
    BY <2>1, <2>2, <2>3, <2>4
<1>13. CASE ReleaseSave
  <2>1. OsTypeOK' /\ LeaseTypeOK'
    BY <1>13 DEF ReleaseSave, OK, Fault, Save, Finish, Rearm, Countdown
  <2>2. TimerTypeOK'
    BY <1>13 DEF ReleaseSave, OK, Fault, Save, Finish, Rearm, Countdown,
        TimerTypeOK
  <2>3. BudgetTypeOK'
    BY <1>13 DEF ReleaseSave, OK, Fault, Save, Finish, Rearm, BudgetTypeOK
  <2>4. LocalTypeOK' /\ WantKnown' /\ LoopOnLease' /\ EntryAtHand'
    BY <1>13 DEF ReleaseSave, OK, Fault, Save, Finish, Rearm, InLoop,
        WantKnown, LoopOnLease, EntryAtHand
  <2>5. FlagTypeOK'
    BY <1>13 DEF ReleaseSave, OK, Fault, Save, Finish, Rearm, FlagTypeOK
  <2>6. QED
    BY <2>1, <2>2, <2>3, <2>4, <2>5
<1>14. CASE ReleaseRemove
  <2>1. OsTypeOK' /\ LeaseTypeOK'
    BY <1>14 DEF ReleaseRemove, OK, Fault, Finish, Rearm, ContinueSet,
        Countdown
  <2>2. TimerTypeOK'
    BY <1>14 DEF ReleaseRemove, OK, Fault, Finish, Rearm, ContinueSet,
        Countdown, TimerTypeOK
  <2>3. BudgetTypeOK'
    BY <1>14 DEF ReleaseRemove, OK, Fault, Finish, Rearm, ContinueSet,
        BudgetTypeOK
  <2>4. LocalTypeOK' /\ WantKnown' /\ LoopOnLease' /\ EntryAtHand'
    BY <1>14 DEF ReleaseRemove, OK, Fault, Finish, Rearm, ContinueSet, InLoop,
        WantKnown, LoopOnLease, EntryAtHand
  <2>5. FlagTypeOK'
    BY <1>14 DEF ReleaseRemove, OK, Fault, Finish, Rearm, ContinueSet,
        FlagTypeOK
  <2>6. QED
    BY <2>1, <2>2, <2>3, <2>4, <2>5
<1>15. CASE ReconcilePersist
  <2>1. OsTypeOK' /\ LeaseTypeOK'
    BY <1>15, EntryOfIsEntry DEF ReconcilePersist, OK, Fault, Save, Finish,
        Countdown
  <2>2. TimerTypeOK' /\ BudgetTypeOK'
    BY <1>15 DEF ReconcilePersist, OK, Fault, Save, Finish, Countdown,
        TimerTypeOK, BudgetTypeOK
  <2>3. LocalTypeOK' /\ WantKnown' /\ LoopOnLease' /\ EntryAtHand'
    BY <1>15, EntryOfIsEntry DEF ReconcilePersist, OK, Fault, Save, Finish,
        InLoop, WantKnown, LoopOnLease, EntryAtHand
  <2>4. FlagTypeOK'
    BY <1>15 DEF ReconcilePersist, OK, Fault, Save, Finish, FlagTypeOK
  <2>5. QED
    BY <2>1, <2>2, <2>3, <2>4
<1>16. CASE ReconcileCheck
  <2>1. OsTypeOK' /\ LeaseTypeOK'
    BY <1>16 DEF ReconcileCheck, OK, Fault, Finish, StartRestore, Others,
        Countdown
  <2>2. TimerTypeOK' /\ BudgetTypeOK'
    BY <1>16 DEF ReconcileCheck, OK, Fault, Finish, StartRestore, Others,
        Countdown, TimerTypeOK, BudgetTypeOK
  <2>3. LocalTypeOK' /\ WantKnown' /\ LoopOnLease' /\ EntryAtHand'
    BY <1>16 DEF ReconcileCheck, OK, Fault, Finish, StartRestore, Others,
        InLoop, WantKnown, LoopOnLease, EntryAtHand
  <2>4. FlagTypeOK'
    BY <1>16 DEF ReconcileCheck, OK, Fault, Finish, StartRestore, Others,
        FlagTypeOK
  <2>5. QED
    BY <2>1, <2>2, <2>3, <2>4
<1>17. CASE ReconcileApply
  <2>1. OsTypeOK' /\ LeaseTypeOK'
    BY <1>17, EntryOfIsEntry, ApplyType, MarkAppliedType DEF ReconcileApply,
        OK, Fault, Finish, StartRestore, Others, WantKnown, Countdown
  <2>2. TimerTypeOK' /\ BudgetTypeOK'
    BY <1>17 DEF ReconcileApply, OK, Fault, Apply, Finish, StartRestore,
        Others, Countdown, TimerTypeOK, BudgetTypeOK
  <2>3. LocalTypeOK' /\ WantKnown' /\ LoopOnLease' /\ EntryAtHand'
    BY <1>17, EntryOfIsEntry, MarkAppliedType DEF ReconcileApply, OK, Fault,
        Apply, Finish, StartRestore, Others, InLoop, WantKnown, LoopOnLease,
        EntryAtHand
  <2>4. FlagTypeOK'
    BY <1>17 DEF ReconcileApply, OK, Fault, Apply, Finish, StartRestore,
        Others, FlagTypeOK
  <2>5. QED
    BY <2>1, <2>2, <2>3, <2>4
<1>18. CASE ReconcileLoopDone
  <2>1. OsTypeOK' /\ LeaseTypeOK'
    BY <1>18 DEF ReconcileLoopDone, Finish, WantKnown, Countdown
  <2>2. TimerTypeOK' /\ BudgetTypeOK'
    BY <1>18 DEF ReconcileLoopDone, Finish, Countdown, TimerTypeOK,
        BudgetTypeOK
  <2>3. LocalTypeOK' /\ WantKnown' /\ LoopOnLease' /\ EntryAtHand'
    BY <1>18 DEF ReconcileLoopDone, Finish, InLoop, WantKnown, LoopOnLease,
        EntryAtHand
  <2>4. FlagTypeOK'
    BY <1>18 DEF ReconcileLoopDone, Finish, FlagTypeOK
  <2>5. QED
    BY <2>1, <2>2, <2>3, <2>4
<1>19. CASE TimerFires
  <2>1. OsTypeOK' /\ LeaseTypeOK'
    BY <1>19 DEF TimerFires, Countdown
  <2>2. TimerTypeOK'
    BY <1>19, TimersType DEF Countdown, TimerTypeOK
  <2>3. BudgetTypeOK'
    BY <1>19 DEF TimerFires, BudgetTypeOK
  <2>4. LocalTypeOK' /\ WantKnown' /\ LoopOnLease' /\ EntryAtHand'
    BY <1>19 DEF TimerFires, InLoop, WantKnown, LoopOnLease, EntryAtHand
  <2>5. FlagTypeOK'
    BY <1>19 DEF TimerFires, FlagTypeOK
  <2>6. QED
    BY <2>1, <2>2, <2>3, <2>4, <2>5
<1>20. CASE Expire
  <2>1. OsTypeOK' /\ LeaseTypeOK'
    BY <1>20 DEF Expire, Rearm, StartRestore, Countdown
  <2>2. TimerTypeOK'
    BY <1>20, TimersType DEF Countdown, TimerTypeOK
  <2>3. BudgetTypeOK'
    BY <1>20 DEF Expire, Rearm, StartRestore, BudgetTypeOK
  <2>4. LocalTypeOK' /\ WantKnown' /\ LoopOnLease' /\ EntryAtHand'
    BY <1>20 DEF Expire, Rearm, StartRestore, InLoop, WantKnown, LoopOnLease,
        EntryAtHand
  <2>5. FlagTypeOK'
    BY <1>20 DEF Expire, Rearm, StartRestore, FlagTypeOK
  <2>6. QED
    BY <2>1, <2>2, <2>3, <2>4, <2>5
<1>21. CASE WatchTick
  <2>1. OsTypeOK' /\ LeaseTypeOK'
    BY <1>21 DEF WatchTick, Countdown
  <2>2. TimerTypeOK' /\ BudgetTypeOK'
    BY <1>21 DEF WatchTick, Countdown, TimerTypeOK, BudgetTypeOK
  <2>3. LocalTypeOK' /\ WantKnown' /\ LoopOnLease' /\ EntryAtHand'
    BY <1>21 DEF WatchTick, InLoop, WantKnown, LoopOnLease, EntryAtHand
  <2>4. FlagTypeOK'
    BY <1>21 DEF WatchTick, FlagTypeOK
  <2>5. QED
    BY <2>1, <2>2, <2>3, <2>4
<1>22. CASE ReconcileActive
  <2>1. OsTypeOK' /\ LeaseTypeOK'
    BY <1>22, NewEntryType DEF ReconcileActive, OK, Fault, Countdown
  <2>2. TimerTypeOK' /\ BudgetTypeOK'
    BY <1>22 DEF ReconcileActive, OK, Fault, Countdown, TimerTypeOK,
        BudgetTypeOK
  <2>3. LocalTypeOK' /\ WantKnown' /\ LoopOnLease' /\ EntryAtHand'
    BY <1>22, NewEntryType DEF ReconcileActive, OK, Fault, InLoop, WantKnown,
        LoopOnLease, EntryAtHand
  <2>4. FlagTypeOK'
    BY <1>22 DEF ReconcileActive, OK, Fault, FlagTypeOK
  <2>5. QED
    BY <2>1, <2>2, <2>3, <2>4
<1>23. CASE Shutdown
  <2>1. OsTypeOK' /\ LeaseTypeOK'
    BY <1>23 DEF Shutdown, Exit, Countdown
  <2>2. TimerTypeOK' /\ BudgetTypeOK'
    BY <1>23 DEF Shutdown, Exit, Countdown, TimerTypeOK, BudgetTypeOK
  <2>3. LocalTypeOK' /\ WantKnown' /\ LoopOnLease' /\ EntryAtHand'
    BY <1>23 DEF Shutdown, Exit, InLoop, WantKnown, LoopOnLease, EntryAtHand
  <2>4. FlagTypeOK'
    BY <1>23 DEF Shutdown, Exit, FlagTypeOK
  <2>5. QED
    BY <2>1, <2>2, <2>3, <2>4
<1>24. CASE Recover
  <2>1. OsTypeOK' /\ LeaseTypeOK'
    BY <1>24 DEF Recover, OK, Fault, StartRestore, Countdown
  <2>2. TimerTypeOK' /\ BudgetTypeOK'
    BY <1>24 DEF Recover, OK, Fault, StartRestore, Countdown, TimerTypeOK,
        BudgetTypeOK
  <2>3. LocalTypeOK' /\ WantKnown' /\ LoopOnLease' /\ EntryAtHand'
    BY <1>24 DEF Recover, OK, Fault, StartRestore, InLoop, WantKnown,
        LoopOnLease, EntryAtHand
  <2>4. FlagTypeOK'
    BY <1>24 DEF Recover, OK, Fault, StartRestore, FlagTypeOK
  <2>5. QED
    BY <2>1, <2>2, <2>3, <2>4
<1>25. ASSUME NEW s \in Service, NEW v \in Value, UserEdit(s, v) PROVE TypeInv'
  <2>1. OsTypeOK' /\ LeaseTypeOK'
    BY <1>25 DEF UserEdit, Countdown
  <2>2. TimerTypeOK' /\ BudgetTypeOK'
    BY <1>25 DEF UserEdit, Countdown, TimerTypeOK, BudgetTypeOK
  <2>3. LocalTypeOK' /\ WantKnown' /\ LoopOnLease' /\ EntryAtHand'
    BY <1>25 DEF UserEdit, InLoop, WantKnown, LoopOnLease, EntryAtHand
  <2>4. FlagTypeOK'
    BY <1>25 DEF UserEdit, FlagTypeOK
  <2>5. QED
    BY <2>1, <2>2, <2>3, <2>4
<1>26. ASSUME NEW s \in Service, NetworkSwitch(s) PROVE TypeInv'
  <2>1. OsTypeOK' /\ LeaseTypeOK'
    BY <1>26 DEF NetworkSwitch, Countdown
  <2>2. TimerTypeOK' /\ BudgetTypeOK'
    BY <1>26 DEF NetworkSwitch, Countdown, TimerTypeOK, BudgetTypeOK
  <2>3. LocalTypeOK' /\ WantKnown' /\ LoopOnLease' /\ EntryAtHand'
    BY <1>26 DEF NetworkSwitch, InLoop, WantKnown, LoopOnLease, EntryAtHand
  <2>4. FlagTypeOK'
    BY <1>26 DEF NetworkSwitch, FlagTypeOK
  <2>5. QED
    BY <2>1, <2>2, <2>3, <2>4
<1>27. CASE Tick
  <2>1. OsTypeOK' /\ LeaseTypeOK'
    BY <1>27 DEF Tick, Less, Countdown
  <2>2. TimerTypeOK' /\ BudgetTypeOK'
    BY <1>27 DEF Tick, Less, Countdown, TimerTypeOK, BudgetTypeOK
  <2>3. LocalTypeOK' /\ WantKnown' /\ LoopOnLease' /\ EntryAtHand'
    BY <1>27 DEF Tick, Less, InLoop, WantKnown, LoopOnLease, EntryAtHand
  <2>4. FlagTypeOK'
    BY <1>27 DEF Tick, Less, FlagTypeOK
  <2>5. QED
    BY <2>1, <2>2, <2>3, <2>4
<1>28. CASE Crash
  <2>1. OsTypeOK' /\ LeaseTypeOK'
    BY <1>28 DEF Crash, Exit, Countdown
  <2>2. TimerTypeOK' /\ BudgetTypeOK'
    BY <1>28 DEF Crash, Exit, Countdown, TimerTypeOK, BudgetTypeOK
  <2>3. LocalTypeOK' /\ WantKnown' /\ LoopOnLease' /\ EntryAtHand'
    BY <1>28 DEF Crash, Exit, InLoop, WantKnown, LoopOnLease, EntryAtHand
  <2>4. FlagTypeOK'
    BY <1>28 DEF Crash, Exit, FlagTypeOK
  <2>5. QED
    BY <2>1, <2>2, <2>3, <2>4
<1>29. CASE UNCHANGED vars
  BY <1>29 DEF TimerTypeOK, FlagTypeOK, BudgetTypeOK, WantKnown, LoopOnLease,
      EntryAtHand, InLoop
<1>30. QED
  BY <1>1, <1>2, <1>3, <1>4, <1>5, <1>6, <1>7, <1>8, <1>9, <1>10, <1>11,
      <1>12, <1>13, <1>14, <1>15, <1>16, <1>17, <1>18, <1>19, <1>20, <1>21,
      <1>22, <1>23, <1>24, <1>25, <1>26, <1>27, <1>28, <1>29
     DEF Next, Requests, Working, Environment

\* Every operation, callback, crash and recovery of the DNS lease manager
\* keeps its state within its types, whatever fails.
THEOREM TypeCorrect == Spec => []TypeOK
<1>1. TypeInv => TypeOK
  BY DEF TypeInv
<1>2. QED
  BY TypeInit, TypeStep, <1>1, PTL DEF Spec

(***************************************************************************)
(* Nothing is taken early.                                                 *)
(***************************************************************************)
\* Every step keeps the reason for which the restore loop runs.
LEMMA ReasonStep == TypeInv /\ LoopHasReason /\ [Next]_vars => LoopHasReason'
<1> SUFFICES ASSUME TypeInv, LoopHasReason, [Next]_vars PROVE LoopHasReason'
  OBVIOUS
<1> USE DEF TypeInv, TypeOK, LeaseTypeOK, LocalTypeOK, LoopHasReason, InLoop, vars,
            osVars, leaseVars, diskVars, timerVars, localVars, budgetVars
<1>1. ASSUME NEW v \in Server, Set(v) PROVE LoopHasReason'
  BY <1>1 DEF Set, RequestBudget, StartRestore
<1>2. CASE Renew
  BY <1>2 DEF Renew, RequestBudget
<1>3. CASE Delete
  BY <1>3 DEF Delete, RequestBudget, StartRestore
<1>4. CASE Stop
  BY <1>4 DEF Stop, RequestBudget, StartRestore, StopTimers
<1>5. CASE SetRead
  BY <1>5 DEF SetRead, OK, Fault, Finish
<1>6. CASE SetPersist
  BY <1>6 DEF SetPersist, OK, Fault, Save, Finish
<1>7. CASE SetApply
  BY <1>7 DEF SetApply, OK, Fault, Apply, Schedule, StartRestore
<1>8. CASE FinalSave
  BY <1>8 DEF FinalSave, OK, Fault, Save, Finish
<1>9. CASE RenewSave
  BY <1>9 DEF RenewSave, OK, Fault, Save, Finish, Schedule
<1>10. CASE RestoreRead
  BY <1>10 DEF RestoreRead, OK, Fault
<1>11. CASE RestoreSet
  BY <1>11 DEF RestoreSet, OK, Fault, PutBack
<1>12. CASE ReleaseLoopDone
  BY <1>12 DEF ReleaseLoopDone, StopTimers
<1>13. CASE ReleaseSave
  BY <1>13 DEF ReleaseSave, OK, Fault, Save, Finish, Rearm
<1>14. CASE ReleaseRemove
  BY <1>14 DEF ReleaseRemove, OK, Fault, Finish, Rearm, ContinueSet
<1>15. CASE ReconcilePersist
  BY <1>15 DEF ReconcilePersist, OK, Fault, Save, Finish
<1>16. CASE ReconcileCheck
  BY <1>16 DEF ReconcileCheck, OK, Fault, Finish, StartRestore, Others
<1>17. CASE ReconcileApply
  BY <1>17 DEF ReconcileApply, OK, Fault, Apply, Finish, StartRestore, Others
<1>18. CASE ReconcileLoopDone
  BY <1>18 DEF ReconcileLoopDone, Finish
<1>19. CASE TimerFires
  BY <1>19 DEF TimerFires
<1>20. CASE Expire
  BY <1>20 DEF Expire, Rearm, StartRestore
<1>21. CASE WatchTick
  BY <1>21 DEF WatchTick
<1>22. CASE ReconcileActive
  BY <1>22 DEF ReconcileActive, OK, Fault
<1>23. CASE Shutdown
  BY <1>23 DEF Shutdown, Exit
<1>24. CASE Recover
  BY <1>24 DEF Recover, OK, Fault, StartRestore
<1>25. ASSUME NEW s \in Service, NEW v \in Value, UserEdit(s, v) PROVE LoopHasReason'
  BY <1>25 DEF UserEdit
<1>26. ASSUME NEW s \in Service, NetworkSwitch(s) PROVE LoopHasReason'
  BY <1>26 DEF NetworkSwitch
<1>27. CASE Tick
  BY <1>27 DEF Tick, Less, Countdown
<1>28. CASE Crash
  BY <1>28 DEF Crash, Exit
<1>29. CASE UNCHANGED vars
  BY <1>29
<1>30. QED
  BY <1>1, <1>2, <1>3, <1>4, <1>5, <1>6, <1>7, <1>8, <1>9, <1>10, <1>11,
      <1>12, <1>13, <1>14, <1>15, <1>16, <1>17, <1>18, <1>19, <1>20, <1>21,
      <1>22, <1>23, <1>24, <1>25, <1>26, <1>27, <1>28, <1>29
     DEF Next, Requests, Working, Environment

\* expire and reconcile never take the leased servers from the active service
\* while the lease has time left, for any interleaving of renewals with
\* timers that have already fired.
THEOREM NeverTakenEarly == Spec => NotTakenEarly
<1>1. Init => LoopHasReason
  BY DEF Init, LoopHasReason, InLoop
<1>2. ASSUME TypeInv, LoopHasReason, [Next]_vars
      PROVE  [TakenOnlyWhenDue]_vars
  <2> SUFFICES ASSUME NEW s \in Service, owned[s], ~owned'[s],
                      pc = "restoreSet", pc' = "restore"
               PROVE  \/ cont \in {"set", "drop", "recover"}
                      \/ cont = "expire" /\ left = 0
                      \/ cont = "reconcile" /\ s # svc
    BY DEF TakenOnlyWhenDue
  <2>1. RestoreSet
    BY <1>2, OnlyRestoreSet
  <2>2. PICK e \in busy : s = e.svc
    BY <2>1, <1>2 DEF RestoreSet, PutBack, TypeInv, TypeOK, OsTypeOK
  <2>3. cont # "reconcile" \/ s # svc
    BY <2>2, <1>2 DEF LoopHasReason, InLoop
  <2>4. QED
    BY <2>3, <1>2 DEF LoopHasReason, InLoop, TypeInv, TypeOK, LocalTypeOK, Cont
<1>3. QED
  BY <1>1, <1>2, TypeInit, TypeStep, ReasonStep, PTL DEF Spec, NotTakenEarly

(***************************************************************************)
(* The record is always enough.                                            *)
(***************************************************************************)
\* Without a lease nothing is owned.
LEMMA LeaseInit == Init => LeaseInv
BY DEF Init, LeaseInv, OneEntryEach, OneEach, NoLease, MemoryCoversOwned, Live,
       InLoop, EntriesRecorded, RecordCoversOwned

\* Every step keeps the lease, its record and the services it owns in
\* agreement, as long as recover can read the record.
LEMMA LeaseStep ==
  ReadMayFail = FALSE /\ TypeInv /\ LeaseInv /\ [Next]_vars => LeaseInv'
<1> SUFFICES ASSUME ReadMayFail = FALSE, TypeInv, LeaseInv, [Next]_vars
             PROVE  LeaseInv'
  OBVIOUS
<1> USE DEF TypeInv, TypeOK, OsTypeOK, LeaseTypeOK, LocalTypeOK, LeaseInv, vars,
            osVars, leaseVars, diskVars, timerVars, localVars, budgetVars
<1>1. ASSUME NEW v \in Server, Set(v) PROVE LeaseInv'
  BY <1>1 DEF Set, RequestBudget, StartRestore, OneEntryEach, OneEach,
      NoLease, MemoryCoversOwned, Live, InLoop, LoopOnLease, EntriesRecorded,
      EntryAtHand, RecordCoversOwned
<1>2. CASE Renew
  BY <1>2 DEF Renew, RequestBudget, OneEntryEach, OneEach, NoLease,
      MemoryCoversOwned, Live, InLoop, LoopOnLease, EntriesRecorded,
      EntryAtHand, RecordCoversOwned
<1>3. CASE Delete
  BY <1>3 DEF Delete, RequestBudget, StartRestore, OneEntryEach, OneEach,
      NoLease, MemoryCoversOwned, Live, InLoop, LoopOnLease, EntriesRecorded,
      EntryAtHand, RecordCoversOwned
<1>4. CASE Stop
  BY <1>4 DEF Stop, RequestBudget, StartRestore, StopTimers, OneEntryEach,
      OneEach, NoLease, MemoryCoversOwned, Live, InLoop, LoopOnLease,
      EntriesRecorded, EntryAtHand, RecordCoversOwned
<1>5. CASE SetRead
  <2>1. OneEntryEach'
    BY <1>5, NewEntryType DEF SetRead, OK, Fault, Finish, OneEach,
        LoopOnLease, InLoop, OneEntryEach
  <2>2. NoLease'
    BY <1>5, NewEntryType DEF SetRead, OK, Fault, Finish, NoLease
  <2>3. MemoryCoversOwned'
    BY <1>5, NewEntryType DEF SetRead, OK, Fault, Finish, MemoryCoversOwned,
        Live, InLoop, LoopOnLease, NoLease, OneEntryEach, OneEach,
        EntriesRecorded, EntryAtHand, RecordCoversOwned
  <2>4. EntriesRecorded'
    BY <1>5, NewEntryType DEF SetRead, OK, Fault, Finish, LoopOnLease, InLoop,
        OneEntryEach, OneEach, NoLease, MemoryCoversOwned, Live,
        EntriesRecorded
  <2>5. RecordCoversOwned'
    BY <1>5, NewEntryType DEF SetRead, OK, Fault, Finish, MemoryCoversOwned,
        Live, InLoop, LoopOnLease, NoLease, OneEntryEach, OneEach,
        EntriesRecorded, EntryAtHand, RecordCoversOwned
  <2>6. QED
    BY <2>1, <2>2, <2>3, <2>4, <2>5
<1>6. CASE SetPersist
  <2>1. OneEntryEach'
    BY <1>6 DEF SetPersist, OK, Fault, Save, Finish, OneEach, LoopOnLease,
        InLoop, OneEntryEach
  <2>2. NoLease'
    BY <1>6 DEF SetPersist, OK, Fault, Save, Finish, NoLease
  <2>3. MemoryCoversOwned'
    BY <1>6 DEF SetPersist, OK, Fault, Save, Finish, MemoryCoversOwned, Live,
        InLoop, LoopOnLease, NoLease, OneEntryEach, OneEach, EntriesRecorded,
        EntryAtHand, RecordCoversOwned
  <2>4. EntriesRecorded'
    BY <1>6 DEF SetPersist, OK, Fault, Save, Finish, LoopOnLease, InLoop,
        OneEntryEach, OneEach, NoLease, MemoryCoversOwned, Live,
        EntriesRecorded
  <2>5. RecordCoversOwned'
    BY <1>6 DEF SetPersist, OK, Fault, Save, Finish, MemoryCoversOwned, Live,
        InLoop, LoopOnLease, NoLease, OneEntryEach, OneEach, EntriesRecorded,
        EntryAtHand, RecordCoversOwned
  <2>6. QED
    BY <2>1, <2>2, <2>3, <2>4, <2>5
<1>7. CASE SetApply
  <2>1. OneEntryEach'
    BY <1>7, EntryOfIsEntry, MarkAppliedType DEF SetApply, OK, Fault, Apply,
        Schedule, StartRestore, OneEach, LoopOnLease, InLoop, OneEntryEach
  <2>2. NoLease'
    BY <1>7, EntryOfIsEntry, MarkAppliedType DEF SetApply, OK, Fault, Apply,
        Schedule, StartRestore, NoLease
  <2>3. MemoryCoversOwned'
    BY <1>7, EntryOfIsEntry, MarkAppliedType DEF SetApply, OK, Fault, Apply,
        Schedule, StartRestore, MemoryCoversOwned, Live, InLoop, LoopOnLease,
        NoLease, OneEntryEach, OneEach, EntriesRecorded, EntryAtHand,
        RecordCoversOwned
  <2>4. EntriesRecorded'
    BY <1>7, EntryOfIsEntry, MarkAppliedType DEF SetApply, OK, Fault, Apply,
        Schedule, StartRestore, LoopOnLease, InLoop, OneEntryEach, OneEach,
        NoLease, EntriesRecorded
  <2>5. RecordCoversOwned'
    BY <1>7, EntryOfIsEntry, MarkAppliedType DEF SetApply, OK, Fault, Apply,
        Schedule, StartRestore, MemoryCoversOwned, Live, InLoop, LoopOnLease,
        NoLease, OneEntryEach, OneEach, EntriesRecorded, EntryAtHand,
        RecordCoversOwned
  <2>6. QED
    BY <2>1, <2>2, <2>3, <2>4, <2>5
<1>8. CASE FinalSave
  BY <1>8 DEF FinalSave, OK, Fault, Save, Finish, OneEntryEach, OneEach,
      NoLease, MemoryCoversOwned, Live, InLoop, LoopOnLease, EntriesRecorded,
      EntryAtHand, RecordCoversOwned
<1>9. CASE RenewSave
  BY <1>9 DEF RenewSave, OK, Fault, Save, Finish, Schedule, OneEntryEach,
      OneEach, NoLease, MemoryCoversOwned, Live, InLoop, LoopOnLease,
      EntriesRecorded, EntryAtHand, RecordCoversOwned
<1>10. CASE RestoreRead
  <2>1. OneEntryEach'
    BY <1>10 DEF RestoreRead, OK, Fault, OneEach, LoopOnLease, InLoop,
        OneEntryEach
  <2>2. NoLease'
    BY <1>10 DEF RestoreRead, OK, Fault, NoLease
  <2>3. MemoryCoversOwned'
    BY <1>10 DEF RestoreRead, OK, Fault, MemoryCoversOwned, Live, InLoop,
        LoopOnLease, NoLease, OneEntryEach, OneEach, EntriesRecorded,
        EntryAtHand, RecordCoversOwned
  <2>4. EntriesRecorded'
    BY <1>10 DEF RestoreRead, OK, Fault, LoopOnLease, InLoop, OneEntryEach,
        OneEach, NoLease, EntriesRecorded
  <2>5. RecordCoversOwned'
    BY <1>10 DEF RestoreRead, OK, Fault, MemoryCoversOwned, Live, InLoop,
        LoopOnLease, NoLease, OneEntryEach, OneEach, EntriesRecorded,
        EntryAtHand, RecordCoversOwned
  <2>6. QED
    BY <2>1, <2>2, <2>3, <2>4, <2>5
<1>11. CASE RestoreSet
  <2>1. OneEntryEach'
    BY <1>11 DEF RestoreSet, OK, Fault, PutBack, OneEach, LoopOnLease, InLoop,
        OneEntryEach
  <2>2. NoLease'
    BY <1>11 DEF RestoreSet, OK, Fault, PutBack, NoLease
  <2>3. MemoryCoversOwned'
    BY <1>11 DEF RestoreSet, OK, Fault, PutBack, MemoryCoversOwned, Live,
        InLoop, LoopOnLease, NoLease, OneEntryEach, OneEach, EntriesRecorded,
        EntryAtHand, RecordCoversOwned
  <2>4. EntriesRecorded'
    BY <1>11 DEF RestoreSet, OK, Fault, PutBack, LoopOnLease, InLoop,
        OneEntryEach, OneEach, NoLease, EntriesRecorded
  <2>5. RecordCoversOwned'
    BY <1>11 DEF RestoreSet, OK, Fault, PutBack, MemoryCoversOwned, Live,
        InLoop, LoopOnLease, NoLease, OneEntryEach, OneEach, EntriesRecorded,
        EntryAtHand, RecordCoversOwned
  <2>6. QED
    BY <2>1, <2>2, <2>3, <2>4, <2>5
<1>12. CASE ReleaseLoopDone
  <2>1. OneEntryEach'
    BY <1>12 DEF ReleaseLoopDone, StopTimers, OneEach, LoopOnLease, InLoop,
        OneEntryEach
  <2>2. NoLease'
    BY <1>12 DEF ReleaseLoopDone, StopTimers, NoLease
  <2>3. MemoryCoversOwned'
    BY <1>12 DEF ReleaseLoopDone, StopTimers, MemoryCoversOwned, Live, InLoop,
        LoopOnLease, NoLease, OneEntryEach, OneEach, EntriesRecorded,
        EntryAtHand, RecordCoversOwned
  <2>4. EntriesRecorded'
    BY <1>12 DEF ReleaseLoopDone, StopTimers, LoopOnLease, InLoop,
        OneEntryEach, OneEach, NoLease, EntriesRecorded
  <2>5. RecordCoversOwned'
    BY <1>12 DEF ReleaseLoopDone, StopTimers, MemoryCoversOwned, Live, InLoop,
        LoopOnLease, NoLease, OneEntryEach, OneEach, EntriesRecorded,
        EntryAtHand, RecordCoversOwned
  <2>6. QED
    BY <2>1, <2>2, <2>3, <2>4, <2>5
<1>13. CASE ReleaseSave
  BY <1>13 DEF ReleaseSave, OK, Fault, Save, Finish, Rearm, OneEntryEach,
      OneEach, NoLease, MemoryCoversOwned, Live, InLoop, LoopOnLease,
      EntriesRecorded, EntryAtHand, RecordCoversOwned
<1>14. CASE ReleaseRemove
  <2>1. OneEntryEach'
    BY <1>14 DEF ReleaseRemove, OK, Fault, Finish, Rearm, ContinueSet,
        OneEach, LoopOnLease, InLoop, OneEntryEach
  <2>2. NoLease'
    BY <1>14 DEF ReleaseRemove, OK, Fault, Finish, Rearm, ContinueSet, NoLease
  <2>3. MemoryCoversOwned'
    BY <1>14 DEF ReleaseRemove, OK, Fault, Finish, Rearm, ContinueSet,
        MemoryCoversOwned, Live, InLoop, LoopOnLease, NoLease, OneEntryEach,
        OneEach, EntriesRecorded, EntryAtHand, RecordCoversOwned
  <2>4. EntriesRecorded'
    BY <1>14 DEF ReleaseRemove, OK, Fault, Finish, Rearm, ContinueSet,
        LoopOnLease, InLoop, OneEntryEach, OneEach, NoLease, EntriesRecorded
  <2>5. RecordCoversOwned'
    BY <1>14 DEF ReleaseRemove, OK, Fault, Finish, Rearm, ContinueSet,
        MemoryCoversOwned, Live, InLoop, LoopOnLease, NoLease, OneEntryEach,
        OneEach, EntriesRecorded, EntryAtHand, RecordCoversOwned
  <2>6. QED
    BY <2>1, <2>2, <2>3, <2>4, <2>5
<1>15. CASE ReconcilePersist
  <2>1. OneEntryEach'
    BY <1>15, EntryOfIsEntry DEF ReconcilePersist, OK, Fault, Save, Finish,
        OneEach, LoopOnLease, InLoop, OneEntryEach
  <2>2. NoLease'
    BY <1>15, EntryOfIsEntry DEF ReconcilePersist, OK, Fault, Save, Finish,
        NoLease
  <2>3. MemoryCoversOwned'
    BY <1>15, EntryOfIsEntry DEF ReconcilePersist, OK, Fault, Save, Finish,
        MemoryCoversOwned, Live, InLoop, LoopOnLease, NoLease, OneEntryEach,
        OneEach, EntriesRecorded, EntryAtHand, RecordCoversOwned
  <2>4. EntriesRecorded'
    BY <1>15, EntryOfIsEntry DEF ReconcilePersist, OK, Fault, Save, Finish,
        LoopOnLease, InLoop, OneEntryEach, OneEach, NoLease,
        MemoryCoversOwned, Live, EntriesRecorded
  <2>5. RecordCoversOwned'
    BY <1>15, EntryOfIsEntry DEF ReconcilePersist, OK, Fault, Save, Finish,
        MemoryCoversOwned, Live, InLoop, LoopOnLease, NoLease, OneEntryEach,
        OneEach, EntriesRecorded, EntryAtHand, RecordCoversOwned
  <2>6. QED
    BY <2>1, <2>2, <2>3, <2>4, <2>5
<1>16. CASE ReconcileCheck
  BY <1>16 DEF ReconcileCheck, OK, Fault, Finish, StartRestore, Others,
      OneEntryEach, OneEach, NoLease, MemoryCoversOwned, Live, InLoop,
      LoopOnLease, EntriesRecorded, EntryAtHand, RecordCoversOwned
<1>17. CASE ReconcileApply
  <2>1. OneEntryEach'
    BY <1>17, EntryOfIsEntry, MarkAppliedType DEF ReconcileApply, OK, Fault,
        Apply, Finish, StartRestore, Others, OneEach, LoopOnLease, InLoop,
        OneEntryEach
  <2>2. NoLease'
    BY <1>17, EntryOfIsEntry, MarkAppliedType DEF ReconcileApply, OK, Fault,
        Apply, Finish, StartRestore, Others, NoLease
  <2>3. MemoryCoversOwned'
    BY <1>17, EntryOfIsEntry, MarkAppliedType DEF ReconcileApply, OK, Fault,
        Apply, Finish, StartRestore, Others, MemoryCoversOwned, Live, InLoop,
        LoopOnLease, NoLease, OneEntryEach, OneEach, EntriesRecorded,
        EntryAtHand, RecordCoversOwned
  <2>4. EntriesRecorded'
    BY <1>17, EntryOfIsEntry, MarkAppliedType DEF ReconcileApply, OK, Fault,
        Apply, Finish, StartRestore, Others, LoopOnLease, InLoop,
        OneEntryEach, OneEach, NoLease, EntriesRecorded
  <2>5. RecordCoversOwned'
    BY <1>17, EntryOfIsEntry, MarkAppliedType DEF ReconcileApply, OK, Fault,
        Apply, Finish, StartRestore, Others, MemoryCoversOwned, Live, InLoop,
        LoopOnLease, NoLease, OneEntryEach, OneEach, EntriesRecorded,
        EntryAtHand, RecordCoversOwned
  <2>6. QED
    BY <2>1, <2>2, <2>3, <2>4, <2>5
<1>18. CASE ReconcileLoopDone
  <2>1. OneEntryEach'
    BY <1>18 DEF ReconcileLoopDone, Finish, OneEach, LoopOnLease, InLoop,
        OneEntryEach
  <2>2. NoLease'
    BY <1>18 DEF ReconcileLoopDone, Finish, NoLease
  <2>3. MemoryCoversOwned'
    BY <1>18 DEF ReconcileLoopDone, Finish, MemoryCoversOwned, Live, InLoop,
        LoopOnLease, NoLease, OneEntryEach, OneEach, EntriesRecorded,
        EntryAtHand, RecordCoversOwned
  <2>4. EntriesRecorded'
    BY <1>18 DEF ReconcileLoopDone, Finish, LoopOnLease, InLoop, OneEntryEach,
        OneEach, NoLease, EntriesRecorded
  <2>5. RecordCoversOwned'
    BY <1>18 DEF ReconcileLoopDone, Finish, MemoryCoversOwned, Live, InLoop,
        LoopOnLease, NoLease, OneEntryEach, OneEach, EntriesRecorded,
        EntryAtHand, RecordCoversOwned
  <2>6. QED
    BY <2>1, <2>2, <2>3, <2>4, <2>5
<1>19. CASE TimerFires
  BY <1>19 DEF TimerFires, OneEntryEach, OneEach, NoLease, MemoryCoversOwned,
      Live, InLoop, LoopOnLease, EntriesRecorded, EntryAtHand,
      RecordCoversOwned
<1>20. CASE Expire
  BY <1>20 DEF Expire, Rearm, StartRestore, OneEntryEach, OneEach, NoLease,
      MemoryCoversOwned, Live, InLoop, LoopOnLease, EntriesRecorded,
      EntryAtHand, RecordCoversOwned
<1>21. CASE WatchTick
  BY <1>21 DEF WatchTick, OneEntryEach, OneEach, NoLease, MemoryCoversOwned,
      Live, InLoop, LoopOnLease, EntriesRecorded, EntryAtHand,
      RecordCoversOwned
<1>22. CASE ReconcileActive
  <2>1. OneEntryEach'
    BY <1>22, NewEntryType DEF ReconcileActive, OK, Fault, OneEach,
        LoopOnLease, InLoop, OneEntryEach
  <2>2. NoLease'
    BY <1>22, NewEntryType DEF ReconcileActive, OK, Fault, NoLease
  <2>3. MemoryCoversOwned'
    BY <1>22, NewEntryType DEF ReconcileActive, OK, Fault, MemoryCoversOwned,
        Live, InLoop, LoopOnLease, NoLease, OneEntryEach, OneEach,
        EntriesRecorded, EntryAtHand, RecordCoversOwned
  <2>4. EntriesRecorded'
    BY <1>22, NewEntryType DEF ReconcileActive, OK, Fault, LoopOnLease,
        InLoop, OneEntryEach, OneEach, NoLease, MemoryCoversOwned, Live,
        EntriesRecorded
  <2>5. RecordCoversOwned'
    BY <1>22, NewEntryType DEF ReconcileActive, OK, Fault, MemoryCoversOwned,
        Live, InLoop, LoopOnLease, NoLease, OneEntryEach, OneEach,
        EntriesRecorded, EntryAtHand, RecordCoversOwned
  <2>6. QED
    BY <2>1, <2>2, <2>3, <2>4, <2>5
<1>23. CASE Shutdown
  BY <1>23 DEF Shutdown, Exit, OneEntryEach, OneEach, NoLease,
      MemoryCoversOwned, Live, InLoop, LoopOnLease, EntriesRecorded,
      EntryAtHand, RecordCoversOwned
<1>24. CASE Recover
  <2>1. OneEntryEach'
    BY <1>24 DEF Recover, OK, Fault, StartRestore, OneEach, LoopOnLease,
        InLoop, OneEntryEach
  <2>2. NoLease'
    BY <1>24 DEF Recover, OK, Fault, StartRestore, NoLease
  <2>3. MemoryCoversOwned'
    BY <1>24 DEF Recover, OK, Fault, StartRestore, MemoryCoversOwned, Live,
        InLoop, LoopOnLease, NoLease, OneEntryEach, OneEach, EntriesRecorded,
        EntryAtHand, RecordCoversOwned
  <2>4. EntriesRecorded'
    BY <1>24 DEF Recover, OK, Fault, StartRestore, LoopOnLease, InLoop,
        OneEntryEach, OneEach, NoLease, EntriesRecorded
  <2>5. RecordCoversOwned'
    BY <1>24 DEF Recover, OK, Fault, StartRestore, MemoryCoversOwned, Live,
        InLoop, LoopOnLease, NoLease, OneEntryEach, OneEach, EntriesRecorded,
        EntryAtHand, RecordCoversOwned
  <2>6. QED
    BY <2>1, <2>2, <2>3, <2>4, <2>5
<1>25. ASSUME NEW s \in Service, NEW v \in Value, UserEdit(s, v) PROVE LeaseInv'
  BY <1>25 DEF UserEdit, OneEntryEach, OneEach, NoLease, MemoryCoversOwned,
      Live, InLoop, LoopOnLease, EntriesRecorded, EntryAtHand,
      RecordCoversOwned
<1>26. ASSUME NEW s \in Service, NetworkSwitch(s) PROVE LeaseInv'
  BY <1>26 DEF NetworkSwitch, OneEntryEach, OneEach, NoLease,
      MemoryCoversOwned, Live, InLoop, LoopOnLease, EntriesRecorded,
      EntryAtHand, RecordCoversOwned
<1>27. CASE Tick
  BY <1>27 DEF Tick, Less, OneEntryEach, OneEach, NoLease, MemoryCoversOwned,
      Live, InLoop, LoopOnLease, EntriesRecorded, EntryAtHand,
      RecordCoversOwned
<1>28. CASE Crash
  BY <1>28 DEF Crash, Exit, OneEntryEach, OneEach, NoLease, MemoryCoversOwned,
      Live, InLoop, LoopOnLease, EntriesRecorded, EntryAtHand,
      RecordCoversOwned
<1>29. CASE UNCHANGED vars
  BY <1>29 DEF OneEntryEach, OneEach, NoLease, MemoryCoversOwned, Live,
      InLoop, EntriesRecorded, RecordCoversOwned
<1>30. QED
  BY <1>1, <1>2, <1>3, <1>4, <1>5, <1>6, <1>7, <1>8, <1>9, <1>10, <1>11,
      <1>12, <1>13, <1>14, <1>15, <1>16, <1>17, <1>18, <1>19, <1>20, <1>21,
      <1>22, <1>23, <1>24, <1>25, <1>26, <1>27, <1>28, <1>29
     DEF Next, Requests, Working, Environment

\* If lease.json can be read at startup, then in every state (so after a crash
\* at any point) it holds the servers that each owned service had before.
THEOREM RecordAlwaysCovers ==
  ASSUME ReadMayFail = FALSE
  PROVE  Spec => []RecordCoversOwned
<1>1. LeaseInv => RecordCoversOwned
  BY DEF LeaseInv
<1>2. TypeInv /\ LeaseInv /\ [Next]_vars => LeaseInv'
  BY LeaseStep
<1>3. QED
  BY TypeInit, TypeStep, LeaseInit, <1>1, <1>2, PTL DEF Spec

\* Whatever restore writes to an owned service are the servers it had before
\* the lease.
THEOREM AlwaysRestoresOriginal ==
  ASSUME ReadMayFail = FALSE
  PROVE  Spec => RestoresOriginal
<1>1. TypeInv /\ LeaseInv /\ [Next]_vars => LeaseInv'
  BY LeaseStep
<1>2. ASSUME TypeInv, LeaseInv, [Next]_vars
      PROVE  [PutBackOriginal]_vars
  <2> SUFFICES ASSUME NEW s \in Service, owned[s], ~owned'[s],
                      pc = "restoreSet", pc' = "restore"
               PROVE  dns'[s] = prior[s]
    BY DEF PutBackOriginal
  <2>1. RestoreSet
    BY <1>2, OnlyRestoreSet
  <2>2. PICK e \in busy : s = e.svc /\ dns'[s] = e.orig
    BY <2>1, <1>2 DEF RestoreSet, PutBack, TypeInv, TypeOK, OsTypeOK
  <2>3. PICK f \in Live : f.svc = s /\ f.orig = prior[s]
    BY <1>2 DEF LeaseInv, MemoryCoversOwned
  <2>4. e \in entries /\ f \in entries
    BY <1>2, <2>2, <2>3 DEF TypeInv, LoopOnLease, InLoop, Live
  <2>5. QED
    BY <1>2, <2>2, <2>3, <2>4 DEF LeaseInv, OneEntryEach, OneEach
<1>3. QED
  BY TypeInit, TypeStep, LeaseInit, <1>1, <1>2, PTL DEF Spec, RestoresOriginal

(***************************************************************************)
(* The lease implements BorrowedSetting: one lemma for each operation that *)
(* touches a service, and one for all the others.                          *)
(***************************************************************************)
\* Where the lease is about to touch a service it owns, the entry at hand is
\* the one that remembers the servers that service had.
LEMMA EntryOfOwned ==
  ASSUME TypeInv, LeaseInv, pc \in {"setApply", "recApply"}, owned[svc]
  PROVE  /\ EntryOf(svc).orig = prior[svc] /\ dns[svc] = want
         /\ prior[svc] # want
<1>1. EntryOf(svc) \in entries /\ EntryOf(svc).svc = svc
  BY EntryOfIsEntry DEF TypeInv
<1>2. svc \in Service /\ Live = entries /\ pc # "down"
  BY DEF TypeInv, TypeOK, LocalTypeOK, Live, InLoop
<1>3. /\ dns[svc] = want /\ prior[svc] # dns[svc]
      /\ \E f \in entries : f.svc = svc /\ f.orig = prior[svc]
  BY <1>2 DEF LeaseInv, MemoryCoversOwned
<1>4. QED
  BY <1>1, <1>3 DEF LeaseInv, OneEntryEach, OneEach

\* SetDns by the lease takes the service over, or repeats what was done.
LEMMA ApplyBorrows ==
  ASSUME TypeInv, LeaseInv, pc \in {"setApply", "recApply"}, NEW ok \in BOOLEAN,
         Apply(svc, EntryOf(svc), ok), UNCHANGED edits
  PROVE  [Contract!BorrowNext]_(Contract!borrowVars)
<1> DEFINE e == EntryOf(svc)
<1>1. svc \in Service /\ e \in entries
  BY EntryOfIsEntry DEF TypeInv, TypeOK, LocalTypeOK
<1>2. e.orig \in Value /\ want \in Value
  BY <1>1 DEF TypeInv, TypeOK, LeaseTypeOK, Entry, WantKnown
<1>3. dns \in [Service -> Value] /\ owned \in [Service -> BOOLEAN]
      /\ prior \in [Service -> Value]
  BY DEF TypeInv, TypeOK, OsTypeOK
<1>4. CASE UNCHANGED <<dns, owned, prior>>
  BY <1>4 DEF Contract!borrowVars
<1>5. CASE /\ dns' = [dns EXCEPT ![svc] = want]
           /\ owned' = [owned EXCEPT ![svc] = e.orig # want]
           /\ prior' = IF owned[svc] THEN prior ELSE [prior EXCEPT ![svc] = e.orig]
  <2>1. CASE owned[svc]
    <3>1. e.orig = prior[svc] /\ dns[svc] = want /\ prior[svc] # want
      BY <2>1, EntryOfOwned
    <3>2. dns' = dns
      BY <1>1, <1>3, <1>5, <3>1
    <3>3. owned[svc] = TRUE /\ (e.orig # want) = TRUE
      BY <1>1, <1>3, <2>1, <3>1
    <3>4. owned' = owned
      BY <1>1, <1>3, <1>5, <3>3, Zenon
    <3>5. QED
      BY <1>5, <2>1, <3>2, <3>4 DEF Contract!borrowVars
  <2>2. CASE ~owned[svc]
    <3>1. Contract!Take(svc, want, e.orig)
      BY <1>5, <2>2 DEF Contract!Take
    <3>2. QED
      BY <1>1, <1>2, <3>1 DEF Contract!BorrowNext
  <2>3. QED
    BY <2>1, <2>2
<1>6. QED
  BY <1>4, <1>5 DEF Apply

\* SetDns by restore gives an owned service its servers back, and comes too
\* late for one that somebody else has changed.
LEMMA PutBackBorrows ==
  ASSUME TypeInv, LeaseInv, RestoreSet
  PROVE  [Contract!BorrowNext]_(Contract!borrowVars)
<1>1. PICK e \in busy : /\ \/ PutBack(e.svc, e, TRUE)
                           \/ PutBack(e.svc, e, FALSE)
                        /\ pc = "restoreSet" /\ UNCHANGED <<prior, edits>>
  BY DEF RestoreSet
<1>2. e \in entries /\ e.svc \in Service /\ e.orig \in Value
  BY <1>1 DEF TypeInv, TypeOK, LocalTypeOK, LoopOnLease, InLoop, Entry
<1>3. dns \in [Service -> Value] /\ owned \in [Service -> BOOLEAN]
      /\ prior \in [Service -> Value]
  BY DEF TypeInv, TypeOK, OsTypeOK
<1>4. CASE UNCHANGED <<dns, owned>>
  BY <1>1, <1>4 DEF Contract!borrowVars
<1>5. CASE /\ dns' = [dns EXCEPT ![e.svc] = e.orig]
           /\ owned' = [owned EXCEPT ![e.svc] = FALSE]
  <2>1. CASE owned[e.svc]
    <3>1. PICK f \in Live : f.svc = e.svc /\ f.orig = prior[e.svc]
      BY <1>1, <1>2, <2>1 DEF LeaseInv, MemoryCoversOwned
    <3>2. f \in entries
      BY <1>1, <3>1 DEF TypeInv, LoopOnLease, InLoop, Live
    <3>3. e.orig = prior[e.svc]
      BY <1>2, <3>1, <3>2 DEF LeaseInv, OneEntryEach, OneEach
    <3>4. Contract!GiveBack(e.svc)
      BY <1>1, <1>5, <2>1, <3>3 DEF Contract!GiveBack
    <3>5. QED
      BY <1>2, <3>4 DEF Contract!BorrowNext
  <2>2. CASE ~owned[e.svc]
    <3>1. owned[e.svc] = FALSE
      BY <1>2, <1>3, <2>2
    <3>2. owned' = owned
      BY <1>2, <1>3, <1>5, <3>1, Zenon
    <3>3. Contract!WriteLate(e.svc, e.orig)
      BY <1>1, <1>5, <2>2, <3>2 DEF Contract!WriteLate
    <3>4. QED
      BY <1>2, <3>3 DEF Contract!BorrowNext
  <2>3. QED
    BY <2>1, <2>2
<1>6. QED
  BY <1>1, <1>4, <1>5 DEF PutBack

\* No other step of the service touches any service's DNS servers.
LEMMA OthersKeepSettings ==
  ASSUME [Next]_vars, ~SetApply, ~ReconcileApply, ~RestoreSet,
         \A s \in Service, v \in Value : ~UserEdit(s, v),
         \A s \in Service : ~NetworkSwitch(s)
  PROVE  UNCHANGED <<dns, owned, prior, edits>>
BY DEF Next, Requests, Working, Environment, Set, Renew, Delete, Stop,
       SetRead, SetPersist, FinalSave, RenewSave, RestoreRead,
       ReleaseLoopDone, ReleaseSave, ReleaseRemove, ReconcilePersist,
       ReconcileCheck, ReconcileLoopDone, TimerFires, Expire, WatchTick,
       ReconcileActive, Shutdown, Recover, Tick, Crash, RequestBudget,
       StartRestore, diskVars, localVars, osVars, timerVars, leaseVars,
       StopTimers, Fault, Finish, OK, Save, Schedule, budgetVars, Rearm,
       ContinueSet, Exit, vars

\* Through crashes, switches and failures the lease writes a service's DNS only
\* to take it over or to give it back the servers it had, as long as recover
\* can read lease.json (set, reconcile, restore and recover implement
\* BorrowedSetting).
THEOREM LeaseRefinesBorrowing ==
  ASSUME ReadMayFail = FALSE
  PROVE  Spec => LeaseIsBorrowing
<1>1. Init => Contract!BorrowInit
  BY DEF Init, Contract!BorrowInit
<1>2. TypeInv /\ LeaseInv /\ [Next]_vars => LeaseInv'
  BY LeaseStep
<1>3. ASSUME TypeInv, LeaseInv, [Next]_vars
      PROVE  [Contract!BorrowNext]_(Contract!borrowVars)
  <2>1. CASE SetApply
    BY <1>3, <2>1, ApplyBorrows DEF SetApply
  <2>2. CASE ReconcileApply
    BY <1>3, <2>2, ApplyBorrows DEF ReconcileApply
  <2>3. CASE RestoreSet
    BY <1>3, <2>3, PutBackBorrows
  <2>4. ASSUME NEW s \in Service, NEW v \in Value, UserEdit(s, v)
        PROVE  Contract!OtherChange(s, v)
    BY <2>4 DEF UserEdit, Contract!OtherChange
  <2>5. ASSUME NEW s \in Service, NetworkSwitch(s)
        PROVE  Contract!OtherEvent
    BY <2>5 DEF NetworkSwitch, Contract!OtherEvent
  <2>6. CASE UNCHANGED <<dns, owned, prior, edits>>
    BY <2>6 DEF Contract!borrowVars
  <2>7. QED
    BY <1>3, <2>1, <2>2, <2>3, <2>4, <2>5, <2>6, OthersKeepSettings
       DEF Contract!BorrowNext
<1>4. QED
  BY TypeInit, TypeStep, LeaseInit, <1>1, <1>2, <1>3, PTL
     DEF Spec, LeaseIsBorrowing, Contract!Borrowing
=============================================================================
