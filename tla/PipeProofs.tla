----------------------------- MODULE PipeProofs -----------------------------
(***************************************************************************)
(* Proofs about PipeFile and PipeListener for any operations, callers and  *)
(* bounds: why no operation uses a closed handle, why a deadline that was  *)
(* cleared ends nothing, and why the listener loses no server pipe.        *)
(***************************************************************************)
EXTENDS PipeFile, PipeListener, TLAPS

(***************************************************************************)
(* The inductive invariant.                                                *)
(***************************************************************************)
OpPc == {"idle", "prepared", "issued", "watch", "select", "timeout"}
PipeType ==
  /\ at \in [Op -> OpPc]
  /\ kernel \in [Op -> {"none", "pending", "data", "aborted"}]
  /\ result \in [Op -> {"none", "data", "aborted", "deadline", "closed"}]
  /\ watched \in [Op -> Nat]
  /\ posted \in Op \cup {NoOp}
  /\ closer \in {"open", "cancel", "wait", "closed"}
  /\ free \subseteq Op
DeadlineType ==
  /\ channel \in Nat /\ shut \subseteq 0 .. channel
  /\ timer \in {"none", "armed", "fired", "marked", "over"}
  /\ setter \in {"idle", "stop", "wait", "renew"}
  /\ wanted \in {"zero", "past", "future"}
FlagType == closing \in BOOLEAN /\ timedout \in BOOLEAN

\* The kernel has a request exactly from ReadFile to the receipt of its result,
\* and the completion port holds a result that somebody will receive.
Outstanding == {"issued", "watch", "select", "timeout"}
KernelServes ==
  /\ \A o \in Op : kernel[o] # "none" <=> at[o] \in Outstanding
  /\ posted # NoOp => kernel[posted] \notin {"none", "pending"}

\* closing stays set from the first step of closeHandle, and its last one has
\* found nobody in flight.
Closer ==
  /\ closer # "open" => closing
  /\ closer = "closed" => InFlight = {}

\* A timer that was armed is stopped, or has run, before its successor.
TimerStopped == setter = "renew" => timer = "none"

\* While the deadline is cleared, or an operation runs that began so, no timer
\* is left, nothing has timed out and the channel is open.
Cleared ==
  free # {} \/ (setter = "idle" /\ wanted = "zero") =>
    /\ wanted = "zero" /\ timer = "none" /\ ~timedout
    /\ channel \notin shut /\ setter # "wait"

\* An operation that began so watches the open channel.
FreeWatches ==
  \A o \in free :
    /\ at[o] # "timeout"
    /\ at[o] = "select" => watched[o] = channel
    /\ result[o] # "deadline"

PipeInv == PipeType /\ DeadlineType /\ FlagType /\ KernelServes /\ Closer
             /\ TimerStopped /\ Cleared /\ FreeWatches

\* Operations and the closer keep their types.
LEMMA PipeTypeStep ==
  ASSUME PipeType, DeadlineType, KernelServes, [FileNext]_fileVarsAll
  PROVE  PipeType'
<1> USE FileAssumption DEF PipeType, DeadlineType, KernelServes, OpPc,
        Outstanding
<1>1. CASE UNCHANGED <<closer, at, kernel, result, posted, watched, free>>
  BY <1>1
<1>2. ASSUME NEW o \in Op, Issue(o)
       PROVE  PipeType'
  BY <1>2 DEF Issue, Return, deadlineVars
<1>3. ASSUME NEW o \in Op, CheckClosing(o)
       PROVE  PipeType'
  BY <1>3 DEF CheckClosing, Canceled, deadlineVars
<1>4. ASSUME NEW o \in Op, PickUp(o)
       PROVE  PipeType'
  BY <1>4 DEF PickUp, deadlineVars
<1>5. ASSUME NEW o \in Op, Receive(o)
       PROVE  PipeType'
  BY <1>5 DEF Receive, Return, deadlineVars
<1>6. ASSUME NEW o \in Op, TimeOut(o)
       PROVE  PipeType'
  BY <1>6 DEF TimeOut, Canceled, deadlineVars
<1>7. ASSUME NEW o \in Op, Post(o)
       PROVE  PipeType'
  BY <1>7 DEF Post, deadlineVars
<1>8. ASSUME NEW o \in Op, Prepare(o)
       PROVE  PipeType'
  BY <1>8 DEF Prepare, deadlineVars
<1>9. ASSUME NEW o \in Op, Complete(o)
       PROVE  PipeType'
  BY <1>9 DEF Complete, deadlineVars
<1>10. CASE CloseBegin
  BY <1>10 DEF CloseBegin, deadlineVars, opVars
<1>11. CASE CancelAll
  BY <1>11 DEF CancelAll, Canceled, deadlineVars
<1>12. CASE CloseHandle
  BY <1>12 DEF CloseHandle, InFlight, deadlineVars, opVars
<1>13. ASSUME NEW w \in {"zero", "past", "future"}, SetBegin(w)
        PROVE  PipeType'
  BY <1>13 DEF SetBegin
<1> HIDE DEF PipeType, DeadlineType, KernelServes, OpPc, Outstanding
<1>14. QED
  <2>1. \/ UNCHANGED <<closer, at, kernel, result, posted, watched, free>>
        \/ \E o \in Op : Issue(o)
        \/ \E o \in Op : CheckClosing(o)
        \/ \E o \in Op : PickUp(o)
        \/ \E o \in Op : Receive(o)
        \/ \E o \in Op : TimeOut(o)
        \/ \E o \in Op : Post(o)
        \/ \E o \in Op : Prepare(o)
        \/ \E o \in Op : Complete(o)
        \/ CloseBegin
        \/ CancelAll
        \/ CloseHandle
        \/ \E w \in {"zero", "past", "future"} : SetBegin(w)
    BY DEF FileNext, OpStep, CloseStep, SetStep, TimerStep, fileVarsAll,
           deadlineVars, opVars, SetStop, SetWait, SetRenew, TimerFires,
           TimerMarks, TimerShuts
  <2>2. QED
    BY <2>1, <1>1, <1>2, <1>3, <1>4, <1>5, <1>6, <1>7, <1>8, <1>9, <1>10,
       <1>11, <1>12, <1>13

\* The channels of the deadline are numbered in order.
LEMMA DeadlineTypeStep ==
  ASSUME DeadlineType, [FileNext]_fileVarsAll
  PROVE  DeadlineType'
<1> USE FileAssumption DEF DeadlineType
<1>1. CASE UNCHANGED <<channel, shut, timer, setter, wanted>>
  BY <1>1
<1>2. CASE SetStop
  BY <1>2 DEF SetStop, opVars
<1>3. CASE SetWait
  BY <1>3 DEF SetWait, opVars
<1>4. CASE SetRenew
  BY <1>4 DEF SetRenew, opVars
<1>5. CASE TimerFires
  BY <1>5 DEF TimerFires, opVars
<1>6. CASE TimerMarks
  BY <1>6 DEF TimerMarks, opVars
<1>7. CASE TimerShuts
  BY <1>7 DEF TimerShuts, opVars
<1>8. ASSUME NEW w \in {"zero", "past", "future"}, SetBegin(w)
       PROVE  DeadlineType'
  BY <1>8 DEF SetBegin
<1> HIDE DEF DeadlineType
<1>9. QED
  <2>1. \/ UNCHANGED <<channel, shut, timer, setter, wanted>>
        \/ SetStop
        \/ SetWait
        \/ SetRenew
        \/ TimerFires
        \/ TimerMarks
        \/ TimerShuts
        \/ \E w \in {"zero", "past", "future"} : SetBegin(w)
    BY DEF FileNext, OpStep, CloseStep, SetStep, TimerStep, fileVarsAll,
           deadlineVars, opVars, Issue, CheckClosing, PickUp, Receive,
           TimeOut, Post, Prepare, Complete, CloseBegin, CancelAll,
           CloseHandle
  <2>2. QED
    BY <2>1, <1>1, <1>2, <1>3, <1>4, <1>5, <1>6, <1>7, <1>8

\* The flags stay Booleans.
LEMMA FlagTypeStep ==
  ASSUME FlagType, [FileNext]_fileVarsAll
  PROVE  FlagType'
<1> USE FileAssumption DEF FlagType
<1>1. CASE UNCHANGED <<closing, timedout>>
  BY <1>1
<1>2. CASE CloseBegin
  BY <1>2 DEF CloseBegin, deadlineVars, opVars
<1>3. CASE SetRenew
  BY <1>3 DEF SetRenew, opVars
<1>4. CASE TimerMarks
  BY <1>4 DEF TimerMarks, opVars
<1> HIDE DEF FlagType
<1>5. QED
  <2>1. \/ UNCHANGED <<closing, timedout>>
        \/ CloseBegin
        \/ SetRenew
        \/ TimerMarks
    BY DEF FileNext, OpStep, CloseStep, SetStep, TimerStep, fileVarsAll,
           deadlineVars, opVars, Issue, CheckClosing, PickUp, Receive,
           TimeOut, Post, Prepare, Complete, CancelAll, CloseHandle, SetStop,
           SetWait, TimerFires, TimerShuts, SetBegin
  <2>2. QED
    BY <2>1, <1>1, <1>2, <1>3, <1>4

\* A request that is posted is outstanding until its operation has received
\* it.
LEMMA KernelServesStep ==
  ASSUME KernelServes, PipeType, [FileNext]_fileVarsAll
  PROVE  KernelServes'
<1> USE FileAssumption DEF KernelServes, PipeType, Outstanding, OpPc
<1>1. CASE UNCHANGED <<at, kernel, posted>>
  BY <1>1
<1>2. ASSUME NEW o \in Op, Issue(o)
       PROVE  KernelServes'
  BY <1>2 DEF Issue, Return, deadlineVars
<1>3. ASSUME NEW o \in Op, CheckClosing(o)
       PROVE  KernelServes'
  BY <1>3 DEF CheckClosing, Canceled, deadlineVars
<1>4. ASSUME NEW o \in Op, PickUp(o)
       PROVE  KernelServes'
  BY <1>4 DEF PickUp, deadlineVars
<1>5. ASSUME NEW o \in Op, Receive(o)
       PROVE  KernelServes'
  BY <1>5 DEF Receive, Return, deadlineVars
<1>6. ASSUME NEW o \in Op, TimeOut(o)
       PROVE  KernelServes'
  BY <1>6 DEF TimeOut, Canceled, deadlineVars
<1>7. ASSUME NEW o \in Op, Post(o)
       PROVE  KernelServes'
  BY <1>7 DEF Post, deadlineVars
<1>8. ASSUME NEW o \in Op, Prepare(o)
       PROVE  KernelServes'
  BY <1>8 DEF Prepare, deadlineVars
<1>9. ASSUME NEW o \in Op, Complete(o)
       PROVE  KernelServes'
  BY <1>9 DEF Complete, deadlineVars
<1>10. CASE CancelAll
  BY <1>10 DEF CancelAll, Canceled, deadlineVars
<1> HIDE DEF KernelServes, PipeType, Outstanding, OpPc
<1>11. QED
  <2>1. \/ UNCHANGED <<at, kernel, posted>>
        \/ \E o \in Op : Issue(o)
        \/ \E o \in Op : CheckClosing(o)
        \/ \E o \in Op : PickUp(o)
        \/ \E o \in Op : Receive(o)
        \/ \E o \in Op : TimeOut(o)
        \/ \E o \in Op : Post(o)
        \/ \E o \in Op : Prepare(o)
        \/ \E o \in Op : Complete(o)
        \/ CancelAll
    BY DEF FileNext, OpStep, CloseStep, SetStep, TimerStep, fileVarsAll,
           deadlineVars, opVars, CloseBegin, CloseHandle, SetStop, SetWait,
           SetRenew, TimerFires, TimerMarks, TimerShuts, SetBegin
  <2>2. QED
    BY <2>1, <1>1, <1>2, <1>3, <1>4, <1>5, <1>6, <1>7, <1>8, <1>9, <1>10

\* Nothing is prepared once the file is closing.
LEMMA CloserStep ==
  ASSUME Closer, PipeType, FlagType, [FileNext]_fileVarsAll
  PROVE  Closer'
<1> USE FileAssumption DEF Closer, PipeType, FlagType, InFlight, OpPc
<1>1. CASE UNCHANGED <<closing, closer, at>>
  BY <1>1
<1>2. ASSUME NEW o \in Op, Issue(o)
       PROVE  Closer'
  BY <1>2 DEF Issue, Return, deadlineVars
<1>3. ASSUME NEW o \in Op, CheckClosing(o)
       PROVE  Closer'
  BY <1>3 DEF CheckClosing, Canceled, deadlineVars
<1>4. ASSUME NEW o \in Op, PickUp(o)
       PROVE  Closer'
  BY <1>4 DEF PickUp, deadlineVars
<1>5. ASSUME NEW o \in Op, Receive(o)
       PROVE  Closer'
  BY <1>5 DEF Receive, Return, deadlineVars
<1>6. ASSUME NEW o \in Op, TimeOut(o)
       PROVE  Closer'
  BY <1>6 DEF TimeOut, Canceled, deadlineVars
<1>7. ASSUME NEW o \in Op, Prepare(o)
       PROVE  Closer'
  BY <1>7 DEF Prepare, deadlineVars
<1>8. CASE CloseBegin
  BY <1>8 DEF CloseBegin, deadlineVars, opVars
<1>9. CASE CancelAll
  BY <1>9 DEF CancelAll, Canceled, deadlineVars
<1>10. CASE CloseHandle
  BY <1>10 DEF CloseHandle, deadlineVars, opVars
<1> HIDE DEF Closer, PipeType, FlagType, InFlight, OpPc
<1>11. QED
  <2>1. \/ UNCHANGED <<closing, closer, at>>
        \/ \E o \in Op : Issue(o)
        \/ \E o \in Op : CheckClosing(o)
        \/ \E o \in Op : PickUp(o)
        \/ \E o \in Op : Receive(o)
        \/ \E o \in Op : TimeOut(o)
        \/ \E o \in Op : Prepare(o)
        \/ CloseBegin
        \/ CancelAll
        \/ CloseHandle
    BY DEF FileNext, OpStep, CloseStep, SetStep, TimerStep, fileVarsAll,
           deadlineVars, opVars, Post, Complete, SetStop, SetWait, SetRenew,
           TimerFires, TimerMarks, TimerShuts, SetBegin
  <2>2. QED
    BY <2>1, <1>1, <1>2, <1>3, <1>4, <1>5, <1>6, <1>7, <1>8, <1>9, <1>10

\* No timer runs when the deadline is renewed.
LEMMA TimerStoppedStep ==
  ASSUME TimerStopped, [FileNext]_fileVarsAll
  PROVE  TimerStopped'
<1> USE FileAssumption DEF TimerStopped
<1>1. CASE UNCHANGED <<timer, setter>>
  BY <1>1
<1>2. CASE SetStop
  BY <1>2 DEF SetStop, opVars
<1>3. CASE SetWait
  BY <1>3 DEF SetWait, opVars
<1>4. CASE SetRenew
  BY <1>4 DEF SetRenew, opVars
<1>5. CASE TimerFires
  BY <1>5 DEF TimerFires, opVars
<1>6. CASE TimerMarks
  BY <1>6 DEF TimerMarks, opVars
<1>7. CASE TimerShuts
  BY <1>7 DEF TimerShuts, opVars
<1>8. ASSUME NEW w \in {"zero", "past", "future"}, SetBegin(w)
       PROVE  TimerStopped'
  BY <1>8 DEF SetBegin
<1> HIDE DEF TimerStopped
<1>9. QED
  <2>1. \/ UNCHANGED <<timer, setter>>
        \/ SetStop
        \/ SetWait
        \/ SetRenew
        \/ TimerFires
        \/ TimerMarks
        \/ TimerShuts
        \/ \E w \in {"zero", "past", "future"} : SetBegin(w)
    BY DEF FileNext, OpStep, CloseStep, SetStep, TimerStep, fileVarsAll,
           deadlineVars, opVars, Issue, CheckClosing, PickUp, Receive,
           TimeOut, Post, Prepare, Complete, CloseBegin, CancelAll,
           CloseHandle
  <2>2. QED
    BY <2>1, <1>1, <1>2, <1>3, <1>4, <1>5, <1>6, <1>7, <1>8

\* Clearing a deadline leaves no timer that could still end an operation.
LEMMA ClearedStep ==
  ASSUME Cleared, DeadlineType, TimerStopped, FlagType, PipeType,
         [FileNext]_fileVarsAll
  PROVE  Cleared'
<1> USE FileAssumption DEF Cleared, DeadlineType, TimerStopped, FlagType,
        PipeType, OpPc
<1>1. CASE UNCHANGED <<channel, shut, timedout, timer, setter, wanted, free>>
  BY <1>1
<1>2. ASSUME NEW o \in Op, Prepare(o)
       PROVE  Cleared'
  BY <1>2 DEF Prepare, deadlineVars
<1>3. CASE SetStop
  BY <1>3 DEF SetStop, opVars
<1>4. CASE SetWait
  BY <1>4 DEF SetWait, opVars
<1>5. CASE SetRenew
  <2>1. timer = "none" /\ timer' = (IF wanted = "future" THEN "armed" ELSE timer)
        /\ wanted' = wanted /\ free' = free /\ setter' = "idle"
    BY <1>5 DEF SetRenew, opVars
  <2>2. ASSUME wanted = "zero"
        PROVE  ~timedout' /\ channel' \notin shut'
    <3>1. timedout' = (wanted = "past")
      BY <1>5 DEF SetRenew
    <3>2. ~timedout'
      BY <2>2, <3>1
    <3>3. shut' = shut /\ channel' = IF channel \in shut THEN channel + 1 ELSE channel
      BY <2>2, <1>5 DEF SetRenew
    <3>4. QED
      BY <3>2, <3>3
  <2>3. free # {} => wanted = "zero"
    OBVIOUS
  <2>4. QED
    BY <2>1, <2>2, <2>3
<1>6. CASE TimerFires
  BY <1>6 DEF TimerFires, opVars
<1>7. CASE TimerMarks
  BY <1>7 DEF TimerMarks, opVars
<1>8. CASE TimerShuts
  BY <1>8 DEF TimerShuts, opVars
<1>9. ASSUME NEW w \in {"zero", "past", "future"}, SetBegin(w)
       PROVE  Cleared'
  BY <1>9 DEF SetBegin
<1> HIDE DEF Cleared, DeadlineType, TimerStopped, FlagType, PipeType, OpPc
<1>10. QED
  <2>1. \/ UNCHANGED <<channel, shut, timedout, timer, setter, wanted, free>>
        \/ \E o \in Op : Prepare(o)
        \/ SetStop
        \/ SetWait
        \/ SetRenew
        \/ TimerFires
        \/ TimerMarks
        \/ TimerShuts
        \/ \E w \in {"zero", "past", "future"} : SetBegin(w)
    BY DEF FileNext, OpStep, CloseStep, SetStep, TimerStep, fileVarsAll,
           deadlineVars, opVars, Issue, CheckClosing, PickUp, Receive,
           TimeOut, Post, Complete, CloseBegin, CancelAll, CloseHandle
  <2>2. QED
    BY <2>1, <1>1, <1>2, <1>3, <1>4, <1>5, <1>6, <1>7, <1>8, <1>9

\* What began without a deadline is not ended by one.
LEMMA FreeWatchesStep ==
  ASSUME FreeWatches, Cleared, PipeType, DeadlineType, [FileNext]_fileVarsAll
  PROVE  FreeWatches'
<1> USE FileAssumption DEF FreeWatches, Cleared, PipeType, DeadlineType, OpPc
<1>1. CASE UNCHANGED <<at, result, watched, channel, free>>
  BY <1>1
<1>2. ASSUME NEW o \in Op, Issue(o)
       PROVE  FreeWatches'
  BY <1>2 DEF Issue, Return, deadlineVars
<1>3. ASSUME NEW o \in Op, CheckClosing(o)
       PROVE  FreeWatches'
  BY <1>3 DEF CheckClosing, Canceled, deadlineVars
<1>4. ASSUME NEW o \in Op, PickUp(o)
       PROVE  FreeWatches'
  BY <1>4 DEF PickUp, deadlineVars
<1>5. ASSUME NEW o \in Op, Receive(o)
       PROVE  FreeWatches'
  BY <1>5 DEF Receive, Return, deadlineVars
<1>6. ASSUME NEW o \in Op, TimeOut(o)
       PROVE  FreeWatches'
  BY <1>6 DEF TimeOut, Canceled, deadlineVars
<1>7. ASSUME NEW o \in Op, Prepare(o)
       PROVE  FreeWatches'
  BY <1>7 DEF Prepare, deadlineVars
<1>8. CASE SetRenew
  BY <1>8 DEF SetRenew, opVars
<1>9. ASSUME NEW w \in {"zero", "past", "future"}, SetBegin(w)
       PROVE  FreeWatches'
  BY <1>9 DEF SetBegin
<1> HIDE DEF FreeWatches, Cleared, PipeType, DeadlineType, OpPc
<1>10. QED
  <2>1. \/ UNCHANGED <<at, result, watched, channel, free>>
        \/ \E o \in Op : Issue(o)
        \/ \E o \in Op : CheckClosing(o)
        \/ \E o \in Op : PickUp(o)
        \/ \E o \in Op : Receive(o)
        \/ \E o \in Op : TimeOut(o)
        \/ \E o \in Op : Prepare(o)
        \/ SetRenew
        \/ \E w \in {"zero", "past", "future"} : SetBegin(w)
    BY DEF FileNext, OpStep, CloseStep, SetStep, TimerStep, fileVarsAll,
           deadlineVars, opVars, Post, Complete, CloseBegin, CancelAll,
           CloseHandle, SetStop, SetWait, TimerFires, TimerMarks, TimerShuts
  <2>2. QED
    BY <2>1, <1>1, <1>2, <1>3, <1>4, <1>5, <1>6, <1>7, <1>8, <1>9

LEMMA PipeInit == FileInit => PipeInv
<1> SUFFICES ASSUME FileInit PROVE PipeInv
  OBVIOUS
<1>1. FlagType
  BY Zenon DEF FileInit, FlagType
<1>2. PipeType /\ DeadlineType
  BY DEF FileInit, PipeType, OpPc, DeadlineType
<1>3. KernelServes /\ Closer /\ TimerStopped /\ Cleared /\ FreeWatches
  BY DEF FileInit, KernelServes, Outstanding, Closer, InFlight, TimerStopped,
         Cleared, FreeWatches
<1>4. QED
  BY <1>1, <1>2, <1>3 DEF PipeInv

LEMMA PipeInvStep == PipeInv /\ [FileNext]_fileVarsAll => PipeInv'
<1> SUFFICES ASSUME PipeInv, [FileNext]_fileVarsAll PROVE PipeInv'
  OBVIOUS
<1> USE DEF PipeInv
<1>1. PipeType' /\ DeadlineType' /\ FlagType'
  BY PipeTypeStep, DeadlineTypeStep, FlagTypeStep
<1>2. KernelServes' /\ Closer' /\ TimerStopped'
  BY KernelServesStep, CloserStep, TimerStoppedStep
<1>3. Cleared' /\ FreeWatches'
  BY ClearedStep, FreeWatchesStep
<1>4. QED
  BY <1>1, <1>2, <1>3

\* However operations, Close, SetReadDeadline, timers and the completion port
\* interleave, the handle is closed only after the last operation has received
\* its result and none uses it later, and an operation that began with no
\* deadline set, and was given none, never reports one (closeHandle, prepareIo,
\* asyncIo, deadlineHandler.set).
THEOREM FileAlwaysSound == FileSpec => []FileSound
<1>1. ASSUME PipeInv
      PROVE  FileSound
  <2>1. NoUseAfterClose
    <3> SUFFICES ASSUME closer = "closed" PROVE InFlight = {} /\ posted = NoOp
      BY DEF NoUseAfterClose
    <3>1. InFlight = {}
      BY <1>1 DEF PipeInv, Closer
    <3>2. posted \in Op => at[posted] # "idle"
      BY <1>1, FileAssumption DEF PipeInv, KernelServes, Outstanding, PipeType
    <3>3. QED
      BY <1>1, <3>1, <3>2 DEF PipeInv, PipeType, InFlight
  <2>2. NoStaleTimeout
    BY <1>1 DEF PipeInv, FreeWatches, NoStaleTimeout
  <2>3. QED
    BY <2>1, <2>2 DEF FileSound
<1>2. QED
  BY PipeInit, PipeInvStep, <1>1, PTL DEF FileSpec

\* A server pipe is either being connected, or handed to the Accept that waits
\* for it, or closed: whatever fails or is closed meanwhile, listenerRoutine
\* loses none (makeConnectedServerPipe, listenerRoutine).
THEOREM PipesAlwaysAccounted == ListenerSpec => []PipesAccounted
<1>1. ListenerInit => PipesAccounted
  BY DEF ListenerInit, PipesAccounted
<1>2. ASSUME PipesAccounted, [ListenerNext]_listenerVars
      PROVE  PipesAccounted'
  <2> USE DEF PipesAccounted
  <2>1. CASE UNCHANGED <<routine, pipe, answer>>
    BY <1>2, <2>1
  <2>2. CASE SelectClose
    BY <1>2, <2>2 DEF SelectClose, TakeClose
  <2>3. ASSUME NEW a \in Acceptor, SelectAccept(a)
        PROVE  PipesAccounted'
    BY <1>2, <2>3 DEF SelectAccept
  <2>4. CASE MakePipe
    BY <1>2, <2>4 DEF MakePipe
  <2>5. CASE Connected
    BY <1>2, <2>5 DEF Connected
  <2>6. CASE InterruptConnect
    BY <1>2, <2>6 DEF InterruptConnect
  <2>7. CASE Aborted
    BY <1>2, <2>7 DEF Aborted
  <2>8. CASE Respond \/ Leave
    BY <1>2, <2>8 DEF Respond, Leave
  <2>9. QED
    BY <1>2, <2>1, <2>2, <2>3, <2>4, <2>5, <2>6, <2>7, <2>8
       DEF ListenerNext, listenerVars, RoutineStep, Connects, AcceptCall,
           AcceptDone, CloseCall, CloseReturn
<1>3. QED
  BY <1>1, <1>2, PTL DEF ListenerSpec
=============================================================================
