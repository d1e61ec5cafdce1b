------------------------------- MODULE PipeFile -------------------------------
(***************************************************************************)
(* file and deadlineHandler of the named pipe: overlapped reads and writes *)
(* on a Windows handle, which are ended by data, by a deadline, or by      *)
(* Close, whichever comes first.                                           *)
(*                                                                         *)
(* An operation, Close, SetReadDeadline, a timer and the goroutine that    *)
(* serves the completion port run concurrently; the kernel completes or    *)
(* cancels operations in between.                                          *)
(***************************************************************************)
EXTENDS Naturals

CONSTANTS
  Op,             \* concurrent calls of Read
  NoOp,
  MaxDeadlines,   \* bound: calls of SetReadDeadline
  MaxCalls        \* bound: calls of Read

ASSUME FileAssumption == NoOp \notin Op /\ MaxDeadlines \in Nat /\ MaxCalls \in Nat

VARIABLES
  closing,        \* file.closing
  closer,         \* closeHandle: "open", "cancel", "wait", "closed"
  at,             \* where each operation is
  kernel,         \* the overlapped request: "none", "pending", or its result
  result,         \* what the operation returned
  posted,         \* the result that ioCompletionProcessor holds for an op
  watched,        \* the timeout channel an operation has picked up
  channel, shut,  \* deadlineHandler.channel: its number, the closed channels
  timedout,
  timer,          \* "none", "armed", or it has fired and its function is to
                  \* run ("fired"), has set timedout ("marked") or has also
                  \* closed the channel ("over")
  setter,         \* SetReadDeadline: "idle", "stop", "wait", "renew"
  wanted,         \* its argument: "zero", "past" or "future"
  free,           \* history: operations begun after the deadline had been
                  \* cleared or before any, and none set since
  calls, deadlines

deadlineVars == <<channel, shut, timedout, timer, setter, wanted, deadlines>>
fileVarsAll == <<closing, closer, at, kernel, result, posted, watched, free, calls, deadlineVars>>
opVars == <<at, kernel, result, posted, watched, free, calls>>

\* Operations between prepareIo and wg.Done: what closeHandle waits for.
InFlight == {o \in Op : at[o] # "idle"}

-----------------------------------------------------------------------------
(* Read (Write differs in the handler of its deadline only).               *)

\* Mutant: closing is not looked at.
PrepareUnchecked(o) ==
  /\ at[o] = "idle" /\ calls < MaxCalls /\ calls' = calls + 1
  /\ at' = [at EXCEPT ![o] = "prepared"] /\ result' = [result EXCEPT ![o] = "none"]
  /\ free' = free \ {o}
  /\ UNCHANGED <<closing, closer, kernel, posted, watched, deadlineVars>>

\* prepareIo, under the lock that closeHandle takes: refused once closing.
Prepare(o) ==
  /\ at[o] = "idle" /\ calls < MaxCalls /\ calls' = calls + 1
  /\ IF closing
       THEN result' = [result EXCEPT ![o] = "closed"] /\ UNCHANGED at
       ELSE at' = [at EXCEPT ![o] = "prepared"] /\ result' = [result EXCEPT ![o] = "none"]
  /\ free' = IF setter = "idle" /\ wanted = "zero" THEN free \cup {o} ELSE free \ {o}
  /\ UNCHANGED <<closing, closer, kernel, posted, watched, deadlineVars>>

Return(o, r) ==
  /\ at' = [at EXCEPT ![o] = "idle"]
  /\ result' = [result EXCEPT ![o] = r]

\* The check of timedout, and ReadFile: it returns at once or is pending.
Issue(o) ==
  /\ at[o] = "prepared"
  /\ \/ timedout /\ Return(o, "deadline") /\ UNCHANGED kernel
     \/ ~timedout /\ Return(o, "data") /\ UNCHANGED kernel
     \/ /\ ~timedout
        /\ kernel' = [kernel EXCEPT ![o] = "pending"]
        /\ at' = [at EXCEPT ![o] = "issued"] /\ UNCHANGED result
  /\ UNCHANGED <<closing, closer, posted, watched, free, calls, deadlineVars>>

Canceled(o) == IF kernel[o] = "pending" THEN "aborted" ELSE kernel[o]

\* Mutant: closing is checked before the request is issued only.
CheckNothing(o) ==
  /\ at[o] = "issued"
  /\ at' = [at EXCEPT ![o] = "watch"]
  /\ UNCHANGED <<closing, closer, kernel, result, posted, watched, free, calls, deadlineVars>>

\* asyncIo of a pending request: canceled if the file is closing meanwhile.
CheckClosing(o) ==
  /\ at[o] = "issued"
  /\ kernel' = IF closing THEN [kernel EXCEPT ![o] = Canceled(o)] ELSE kernel
  /\ at' = [at EXCEPT ![o] = "watch"]
  /\ UNCHANGED <<closing, closer, result, posted, watched, free, calls, deadlineVars>>

\* The operation picks up the channel of its deadline.
PickUp(o) ==
  /\ at[o] = "watch"
  /\ watched' = [watched EXCEPT ![o] = channel]
  /\ at' = [at EXCEPT ![o] = "select"]
  /\ UNCHANGED <<closing, closer, kernel, result, posted, free, calls, deadlineVars>>

\* The result arrives; an aborted request of a closing file was closed.
Receive(o) ==
  /\ at[o] \in {"select", "timeout"} /\ posted = o
  /\ Return(o, IF kernel[o] # "aborted" THEN kernel[o]
               ELSE IF at[o] = "timeout" THEN "deadline"
               ELSE IF closing THEN "closed" ELSE "aborted")
  /\ posted' = NoOp /\ kernel' = [kernel EXCEPT ![o] = "none"]
  /\ UNCHANGED <<closing, closer, watched, free, calls, deadlineVars>>

\* The channel is closed: the request is canceled, its result awaited.
TimeOut(o) ==
  /\ at[o] = "select" /\ watched[o] \in shut
  /\ kernel' = [kernel EXCEPT ![o] = Canceled(o)]
  /\ at' = [at EXCEPT ![o] = "timeout"]
  /\ UNCHANGED <<closing, closer, result, posted, watched, free, calls, deadlineVars>>

\* External: the kernel completes a request by itself, with data, the end of
\* the stream or an error, all of which the operation just hands on.
Complete(o) ==
  /\ kernel[o] = "pending"
  /\ kernel' = [kernel EXCEPT ![o] = "data"]
  /\ UNCHANGED <<closing, closer, at, result, posted, watched, free, calls, deadlineVars>>

\* ioCompletionProcessor takes one completion at a time, and holds it until
\* the operation receives it.
Post(o) ==
  /\ posted = NoOp /\ kernel[o] \notin {"none", "pending"}
  /\ posted' = o
  /\ UNCHANGED <<closing, closer, at, kernel, result, watched, free, calls, deadlineVars>>

-----------------------------------------------------------------------------
(* closeHandle.                                                            *)

CloseBegin ==
  /\ ~closing /\ closing' = TRUE /\ closer' = "cancel"
  /\ UNCHANGED <<opVars, deadlineVars>>

CancelAll ==
  /\ closer = "cancel" /\ closer' = "wait"
  /\ kernel' = [o \in Op |-> Canceled(o)]
  /\ UNCHANGED <<closing, at, result, posted, watched, free, calls, deadlineVars>>

\* wg.Wait, and then the handle is closed.
CloseHandle ==
  /\ closer = "wait" /\ InFlight = {} /\ closer' = "closed"
  /\ UNCHANGED <<closing, opVars, deadlineVars>>

-----------------------------------------------------------------------------
(* deadlineHandler.set, and the function of its timer.                     *)

TimerFires ==
  /\ timer = "armed" /\ timer' = "fired"
  /\ UNCHANGED <<closing, closer, opVars, channel, shut, timedout, setter, wanted, deadlines>>

TimerMarks ==
  /\ timer = "fired" /\ timer' = "marked" /\ timedout' = TRUE
  /\ UNCHANGED <<closing, closer, opVars, channel, shut, setter, wanted, deadlines>>

\* The timer stays in d.timer, and Stop returns false from now on.
TimerShuts ==
  /\ timer = "marked" /\ timer' = "over" /\ shut' = shut \cup {channel}
  /\ UNCHANGED <<closing, closer, opVars, channel, timedout, setter, wanted, deadlines>>

SetBegin(w) ==
  /\ setter = "idle" /\ deadlines < MaxDeadlines /\ deadlines' = deadlines + 1
  /\ setter' = "stop" /\ wanted' = w
  /\ free' = IF w = "zero" THEN free ELSE {}
  /\ UNCHANGED <<closing, closer, at, kernel, result, posted, watched, calls,
                 channel, shut, timedout, timer>>

\* Mutant: a timer that has fired is not waited for.
SetStopOnly ==
  /\ setter = "stop" /\ setter' = "renew"
  /\ timer' = IF timer \in {"none", "armed"} THEN "none" ELSE timer
  /\ UNCHANGED <<closing, closer, opVars, channel, shut, timedout, wanted, deadlines>>

\* timer.Stop: a timer that has fired is waited for, through its channel.
SetStop ==
  /\ setter = "stop"
  /\ IF timer \in {"none", "armed"}
       THEN setter' = "renew" /\ timer' = "none"
       ELSE setter' = "wait" /\ UNCHANGED timer
  /\ UNCHANGED <<closing, closer, opVars, channel, shut, timedout, wanted, deadlines>>

SetWait ==
  /\ setter = "wait" /\ channel \in shut
  /\ setter' = "renew" /\ timer' = "none"
  /\ UNCHANGED <<closing, closer, opVars, channel, shut, timedout, wanted, deadlines>>

\* Mutant: every call makes a new channel.
SetRenewAlways ==
  LET fresh == channel + 1 IN
  /\ setter = "renew" /\ setter' = "idle"
  /\ channel' = fresh
  /\ timedout' = (wanted = "past")
  /\ shut' = IF wanted = "past" THEN shut \cup {fresh} ELSE shut
  /\ timer' = IF wanted = "future" THEN "armed" ELSE timer
  /\ UNCHANGED <<closing, closer, opVars, wanted, deadlines>>

\* timedout is cleared, a closed channel is replaced, and the new deadline is
\* armed, or has passed and closes the channel now.
SetRenew ==
  LET fresh == IF channel \in shut THEN channel + 1 ELSE channel IN
  /\ setter = "renew" /\ setter' = "idle"
  /\ channel' = fresh
  /\ timedout' = (wanted = "past")
  /\ shut' = IF wanted = "past" THEN shut \cup {fresh} ELSE shut
  /\ timer' = IF wanted = "future" THEN "armed" ELSE timer
  /\ UNCHANGED <<closing, closer, opVars, wanted, deadlines>>

-----------------------------------------------------------------------------
FileInit ==
  /\ closing = FALSE /\ closer = "open"
  /\ at = [o \in Op |-> "idle"] /\ kernel = [o \in Op |-> "none"]
  /\ result = [o \in Op |-> "none"] /\ posted = NoOp /\ watched = [o \in Op |-> 0]
  /\ channel = 1 /\ shut = {} /\ timedout = FALSE /\ timer = "none"
  /\ setter = "idle" /\ wanted = "zero" /\ free = {} /\ calls = 0 /\ deadlines = 0

\* The steps of goroutines that are under way.
OpStep(o) ==
  \/ Issue(o) \/ CheckClosing(o) \/ PickUp(o) \/ Receive(o) \/ TimeOut(o) \/ Post(o)
CloseStep == CancelAll \/ CloseHandle
SetStep == SetStop \/ SetWait \/ SetRenew
TimerStep == TimerFires \/ TimerMarks \/ TimerShuts

FileNext ==
  \/ \E o \in Op : OpStep(o) \/ Prepare(o) \/ Complete(o)
  \/ CloseBegin \/ CloseStep
  \/ SetStep \/ TimerStep \/ \E w \in {"zero", "past", "future"} : SetBegin(w)

FileSpec == FileInit /\ [][FileNext]_fileVarsAll

\* Goroutines that can run do run, and timers fire; no peer has to send.
FileFairness ==
  /\ \A o \in Op : WF_fileVarsAll(OpStep(o))
  /\ WF_fileVarsAll(CloseStep) /\ WF_fileVarsAll(SetStep) /\ WF_fileVarsAll(TimerStep)

-----------------------------------------------------------------------------
\* The handle is closed only when no operation uses it, and none uses it
\* afterwards (closeHandle, prepareIo).
NoUseAfterClose == closer = "closed" => InFlight = {} /\ posted = NoOp

\* Close ends, even if an operation is issued between the cancellation and the
\* wait, and no peer ever sends (closeHandle, asyncIo).
FileCloseReturns == closing ~> closer = "closed"

\* A deadline that has passed ends the operations that wait, whether they
\* began before or after it was set (deadlineHandler.set, asyncIo).
DeadlineEndsRead ==
  \A o \in Op : at[o] = "select" /\ timedout ~> at[o] # "select" \/ ~timedout

\* An operation that begins when no deadline is set, and is not given a
\* deadline while it runs, does not end by one: a timer that fired before the
\* deadline was cleared has no effect afterwards (deadlineHandler.set).
NoStaleTimeout == \A o \in free : result[o] # "deadline"

\* Operations end for the reason they report: the handle is not used after it
\* is closed and a cleared deadline ends nothing (file.go).
FileSound == NoUseAfterClose /\ NoStaleTimeout

\* Close and deadlines end what waits, although no peer sends (file.go).
FileOpsEnd == FileCloseReturns /\ DeadlineEndsRead
=============================================================================
