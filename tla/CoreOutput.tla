----------------------------- MODULE CoreOutput -----------------------------
(***************************************************************************)
(* What a launch does with the output of the core while it starts and      *)
(* runs.  Two goroutines copy stdout and stderr, cut anywhere, to the same *)
(* two watchers: startupLogWatcher looks for a fatal line, for             *)
(* waitForStartup; coreLogEventWatcher publishes an event for lines that   *)
(* match a rule, until the cleanup of the launch stops it.  Both keep the  *)
(* unfinished line, one for both streams.                                  *)
(*                                                                         *)
(* Text is a sequence of pieces, "nl" ends a line; a line is fatal, or     *)
(* matches a rule, if it holds the two pieces of a marker next to one      *)
(* another.                                                                *)
(***************************************************************************)
EXTENDS Naturals, Sequences

CONSTANTS
  Stream,         \* stdout and stderr
  Piece,          \* what output is made of
  Texts,          \* what the core may write: functions of Stream
  FatalMarker,
  EventMarkers,   \* coreLogEventRules: a marker for each, in order
  LineLimit,      \* startupLineLimit
  MaxCut          \* bound: pieces that are read at once

Marker == (Piece \ {"nl"}) \X (Piece \ {"nl"})

ASSUME OutputAssumption ==
  /\ LineLimit \in Nat /\ MaxCut \in Nat \ {0}
  /\ Texts \subseteq [Stream -> Seq(Piece)]
  /\ FatalMarker \in Marker /\ EventMarkers \in Seq(Marker)

VARIABLES
  text, pump, chunk,     \* unread output; the goroutines and what they read
  startLine, reported,   \* startupLogWatcher (its channel holds one error)
  eventLine, active, eventMutex,   \* coreLogEventWatcher
  todo, writeRule,       \* its Write: finished lines, the rule that is tried next
  stopper, stopLine, stopRule,     \* its Stop
  waiter,                \* waitForStartup
  postUp, exited, died, timedOut,  \* its channels; died: the core ended
  graceOver,             \* graceTimer has fired before the second select
  events,                \* events published, with the place where their line ends
  startHeard, eventHeard, clipped,  \* history: text that the watchers took, lines cut
  dealt,                 \* history: how much of eventHeard is before todo
  knewFatal              \* history: reported when waitForStartup decided

pumpVars == <<text, pump, chunk>>
startVars == <<startLine, reported, startHeard>>
eventVars == <<eventLine, active, eventMutex, todo, writeRule, stopper, stopLine, stopRule,
               events, eventHeard, dealt>>
waitVars == <<waiter, postUp, exited, timedOut, graceOver, knewFatal>>
outputVars == <<pumpVars, startVars, eventVars, waitVars, died, clipped>>

OutputInit ==
  /\ text \in Texts /\ died = FALSE /\ clipped = {}
  /\ pump = [s \in Stream |-> "read"] /\ chunk = [s \in Stream |-> <<>>]
  /\ startLine = <<>> /\ reported = FALSE /\ startHeard = <<>>
  /\ eventLine = <<>> /\ active = TRUE /\ eventMutex = "free"
  /\ todo = <<>> /\ writeRule = 1 /\ stopper = "no" /\ stopLine = <<>> /\ stopRule = 1
  /\ events = <<>> /\ eventHeard = <<>> /\ dealt = 0
  /\ waiter = "enter" /\ postUp = FALSE /\ exited = FALSE /\ timedOut = FALSE
  /\ graceOver = FALSE /\ knewFatal = FALSE

-----------------------------------------------------------------------------
Ends(pieces) == {b \in DOMAIN pieces : pieces[b] = "nl"}
FirstEnd(pieces) == CHOOSE b \in Ends(pieces) : \A e \in Ends(pieces) : b <= e
LastEnd(pieces) == CHOOSE b \in Ends(pieces) \cup {0} : \A e \in Ends(pieces) : e <= b

\* The finished lines and the unfinished one.
Finished(pieces) == SubSeq(pieces, 1, LastEnd(pieces))
Unfinished(pieces) == SubSeq(pieces, LastEnd(pieces) + 1, Len(pieces))

\* The line that ends before position b holds a marker.
LineHolds(pieces, b, marker) ==
  \E i \in 1 .. (b - 2) : /\ pieces[i] = marker[1] /\ pieces[i + 1] = marker[2]
                          /\ \A k \in i .. (b - 1) : pieces[k] # "nl"
startupFatalLineError(pieces, b) == LineHolds(pieces, b, FatalMarker)

Clip(line) ==
  IF Len(line) > LineLimit THEN SubSeq(line, Len(line) - LineLimit + 1, Len(line))
  ELSE line
ClippedBy(who, line) ==
  clipped' = IF Len(line) > LineLimit THEN clipped \cup {who} ELSE clipped

-----------------------------------------------------------------------------
(***************************************************************************)
(* waitForStartup.  It selects: what is there when it enters may be taken  *)
(* in any order, and when it waits the first arrival ends the wait.        *)
(***************************************************************************)
Decides(how) == waiter' = how /\ knewFatal' = reported
Waiting == waiter \in {"select", "grace"}

PostUpArrives ==
  /\ ~postUp /\ ~died /\ postUp' = TRUE
  /\ waiter' = IF waiter = "select" THEN "ready" ELSE waiter
  /\ UNCHANGED <<pumpVars, startVars, eventVars, exited, died, timedOut,
                 graceOver, knewFatal, clipped>>

EnterIdle == UNCHANGED <<pumpVars, startVars, eventVars, postUp, exited, died,
                         timedOut, clipped>>

\* The first select; nothing is there: it waits.
EnterSelect ==
  /\ waiter = "enter"
  /\ \/ postUp /\ waiter' = "ready" /\ UNCHANGED knewFatal
     \/ reported /\ Decides("fatal")
     \/ exited /\ Decides("exited")
     \/ timedOut /\ Decides("timeout")
     \/ ~(postUp \/ reported \/ exited \/ timedOut) /\ waiter' = "select"
        /\ UNCHANGED knewFatal
  /\ EnterIdle /\ UNCHANGED graceOver

\* Mutant: the core is started once it has reported that it is up.
EnterGraceNever ==
  waiter = "ready" /\ Decides("ok") /\ EnterIdle /\ UNCHANGED graceOver

\* The core is up: the second select, of which graceTimer is one case.  Go takes
\* any case that is ready, so a timer that has fired by then may win over a
\* fatal line, an exit or a timeout.
EnterGrace ==
  /\ waiter = "ready"
  /\ \/ reported /\ Decides("fatal")
     \/ exited /\ Decides("exited")
     \/ timedOut /\ Decides("timeout")
     \/ graceOver /\ Decides("ok")
     \/ ~(reported \/ exited \/ timedOut \/ graceOver) /\ waiter' = "grace"
        /\ UNCHANGED knewFatal
  /\ EnterIdle /\ UNCHANGED graceOver

\* graceTimer runs from before the second select: it ends the wait, or it has
\* fired when a goroutine that was held up gets there.
GraceEnds ==
  /\ \/ waiter = "grace" /\ Decides("ok") /\ UNCHANGED graceOver
     \/ waiter = "ready" /\ ~graceOver /\ graceOver' = TRUE /\ UNCHANGED <<waiter, knewFatal>>
  /\ EnterIdle

TimesOut ==
  /\ ~timedOut /\ timedOut' = TRUE
  /\ IF Waiting THEN Decides("timeout") ELSE UNCHANGED <<waiter, knewFatal>>
  /\ UNCHANGED <<pumpVars, startVars, eventVars, postUp, exited, died, graceOver, clipped>>

\* The core ends; what it did not write is never written.
CoreDies ==
  /\ ~died /\ died' = TRUE /\ text' = [s \in Stream |-> <<>>]
  /\ UNCHANGED <<pump, chunk, startVars, eventVars, waitVars, clipped>>

\* Wait returns when the copying goroutines have ended.
WaitReturns ==
  /\ died /\ ~exited /\ \A s \in Stream : pump[s] = "read" /\ text[s] = <<>>
  /\ exited' = TRUE
  /\ IF Waiting THEN Decides("exited") ELSE UNCHANGED <<waiter, knewFatal>>
  /\ UNCHANGED <<pumpVars, startVars, eventVars, postUp, died, timedOut, graceOver, clipped>>

-----------------------------------------------------------------------------
(***************************************************************************)
(* A copying goroutine calls the two watchers in turn (then the log file's *)
(* writer, of which LogWriter is the model).                               *)
(***************************************************************************)
PumpAt(s, where) == pump' = [pump EXCEPT ![s] = where]

ReadOutput(s, n) ==
  /\ pump[s] = "read" /\ n <= Len(text[s]) /\ PumpAt(s, "startup")
  /\ chunk' = [chunk EXCEPT ![s] = SubSeq(text[s], 1, n)]
  /\ text' = [text EXCEPT ![s] = SubSeq(@, n + 1, Len(@))]
  /\ UNCHANGED <<startVars, eventVars, waitVars, died, clipped>>

StartupTakes(s, fatal) ==
  LET rest == Unfinished(startLine \o chunk[s])
  IN  /\ pump[s] = "startup" /\ PumpAt(s, "check")
      /\ startLine' = Clip(rest) /\ ClippedBy("startup", rest)
      /\ startHeard' = startHeard \o chunk[s]
      /\ reported' = (reported \/ fatal)
      /\ IF reported' /\ ~reported /\ Waiting THEN Decides("fatal")
         ELSE UNCHANGED <<waiter, knewFatal>>
      /\ UNCHANGED <<text, chunk, eventVars, postUp, exited, died, timedOut, graceOver>>

FinishedFatal(combined) == \E b \in Ends(combined) : startupFatalLineError(combined, b)

\* Mutant: only finished lines are looked at.
StartupWriteLines(s) == StartupTakes(s, FinishedFatal(startLine \o chunk[s]))

\* The unfinished line is looked at, too: the core may hang after it.
StartupWrite(s) ==
  LET combined == startLine \o chunk[s]
      line == Clip(Unfinished(combined))
  IN  StartupTakes(s, FinishedFatal(combined) \/ startupFatalLineError(line, Len(line) + 1))

\* coreLogEventWatcher.Write looks at active before and after it locks.
EventCheck(s) ==
  /\ pump[s] = "check" /\ PumpAt(s, IF active THEN "lock" ELSE "read")
  /\ UNCHANGED <<text, chunk, startVars, eventVars, waitVars, died, clipped>>

EventTakes(s) ==
  LET combined == eventLine \o chunk[s]
  IN  /\ eventLine' = Clip(Unfinished(combined)) /\ ClippedBy("events", Unfinished(combined))
      /\ eventHeard' = eventHeard \o chunk[s]
      /\ todo' = Finished(combined) /\ dealt' = Len(eventHeard) - Len(eventLine)
      /\ eventMutex' = "writer" /\ PumpAt(s, "publish")

LockIdle == UNCHANGED <<text, chunk, startVars, active, writeRule, stopper, stopLine,
                        stopRule, events, waitVars, died>>

\* Mutant: active is not looked at again.
EventLockBlind(s) == pump[s] = "lock" /\ eventMutex = "free" /\ EventTakes(s) /\ LockIdle

EventLock(s) ==
  /\ pump[s] = "lock" /\ eventMutex = "free"
  /\ IF active THEN EventTakes(s)
     ELSE PumpAt(s, "read")
          /\ UNCHANGED <<eventLine, eventHeard, todo, dealt, eventMutex, clipped>>
  /\ LockIdle

\* One rule of publishCoreLogEvent is tried on the line that ends before b.
publishCoreLogEvent(pieces, b, r, end) ==
  events' = IF LineHolds(pieces, b, EventMarkers[r])
            THEN Append(events, [end |-> end, rule |-> r]) ELSE events

EventIdle == UNCHANGED <<text, chunk, startVars, eventLine, active, stopper, stopLine,
                         stopRule, eventHeard, waitVars, died, clipped>>

PublishRule(s) ==
  /\ pump[s] = "publish" /\ todo # <<>> /\ writeRule <= Len(EventMarkers)
  /\ publishCoreLogEvent(todo, FirstEnd(todo), writeRule, dealt + FirstEnd(todo))
  /\ writeRule' = writeRule + 1
  /\ UNCHANGED <<pump, eventMutex, todo, dealt>> /\ EventIdle

\* All rules were tried: the next line.
PublishLine(s) ==
  /\ pump[s] = "publish" /\ todo # <<>> /\ writeRule > Len(EventMarkers)
  /\ todo' = SubSeq(todo, FirstEnd(todo) + 1, Len(todo))
  /\ dealt' = dealt + FirstEnd(todo) /\ writeRule' = 1
  /\ UNCHANGED <<pump, eventMutex, events>> /\ EventIdle

EventUnlock(s) ==
  /\ pump[s] = "publish" /\ todo = <<>> /\ eventMutex' = "free" /\ PumpAt(s, "read")
  /\ UNCHANGED <<todo, dealt, writeRule, events>> /\ EventIdle

-----------------------------------------------------------------------------
(***************************************************************************)
(* coreLogEventWatcher.Stop, when the launch has failed or is stopped.     *)
(***************************************************************************)
StopIdle == UNCHANGED <<pumpVars, startVars, eventMutex, todo, writeRule, eventHeard,
                        dealt, waitVars, died, clipped>>

StopSwaps ==
  /\ stopper = "no" /\ waiter \in {"ok", "fatal", "exited", "timeout"}
  /\ active' = FALSE /\ stopper' = "swapped"
  /\ UNCHANGED <<eventLine, stopLine, stopRule, events>> /\ StopIdle

StopTakes ==
  /\ stopper = "swapped" /\ eventMutex = "free" /\ stopper' = "taken"
  /\ stopLine' = eventLine /\ eventLine' = <<>>
  /\ UNCHANGED <<active, stopRule, events>> /\ StopIdle

StopPublishes ==
  /\ stopper = "taken" /\ stopRule <= Len(EventMarkers)
  /\ publishCoreLogEvent(stopLine, Len(stopLine) + 1, stopRule, Len(eventHeard) + 1)
  /\ stopRule' = stopRule + 1
  /\ UNCHANGED <<active, eventLine, stopper, stopLine>> /\ StopIdle

StopReturns ==
  /\ stopper = "taken" /\ stopRule > Len(EventMarkers)
  /\ stopper' = "done" /\ stopLine' = <<>>
  /\ UNCHANGED <<active, eventLine, stopRule, events>> /\ StopIdle

OutputNext ==
  \/ PostUpArrives \/ EnterSelect \/ EnterGrace \/ GraceEnds \/ TimesOut
  \/ CoreDies \/ WaitReturns \/ StopSwaps \/ StopTakes \/ StopPublishes
  \/ StopReturns
  \/ \E s \in Stream : \/ \E n \in 1 .. MaxCut : ReadOutput(s, n)
                       \/ StartupWrite(s) \/ EventCheck(s) \/ EventLock(s)
                       \/ PublishRule(s) \/ PublishLine(s) \/ EventUnlock(s)

OutputSpec == OutputInit /\ [][OutputNext]_outputVars

-----------------------------------------------------------------------------
\* A fatal line is reported as soon as its marker has been read, finished or
\* not, and nothing else is, however the output was cut into chunks.
Fatal == \E i \in 1 .. (Len(startHeard) - 1) : /\ startHeard[i] = FatalMarker[1]
                                               /\ startHeard[i + 1] = FatalMarker[2]
FatalHeard == (reported => Fatal) /\ ("startup" \notin clipped => (Fatal => reported))

\* A start that succeeds knew of no fatal line, whether it was reported before
\* the core was up or while waitForStartup waited a moment longer - unless that
\* moment had passed before waitForStartup began to wait for it: then the timer
\* and the fatal line are both there, and the second select may take either
\* (waitForStartup, startupLogWatcher).
StartedMeansNoFatal == waiter = "ok" /\ knewFatal => graceOver

\* An event is for a line of the text that the watcher took and a rule that it
\* matches; no line and rule come twice or out of order.
Precedes(e, f) == e.end < f.end \/ (e.end = f.end /\ e.rule < f.rule)
EventsTrue ==
  /\ \A i \in DOMAIN events : LineHolds(eventHeard, events[i].end, EventMarkers[events[i].rule])
  /\ \A i, j \in DOMAIN events : i < j => Precedes(events[i], events[j])

\* Every line that matches a rule is published, however the text was cut, by
\* Write when it is finished or by Stop.
EventsComplete ==
  "events" \notin clipped /\ todo = <<>> /\ stopper # "taken" =>
    \A b \in Ends(eventHeard) \cup (IF stopper = "done" THEN {Len(eventHeard) + 1} ELSE {}) :
      \A r \in DOMAIN EventMarkers :
        LineHolds(eventHeard, b, EventMarkers[r]) =>
          \E i \in DOMAIN events : events[i] = [end |-> b, rule |-> r]

\* When Stop has returned, the launch publishes no more: output that is still
\* being copied cannot be taken for output of the next core.
NoEventAfterStop == [][stopper = "done" => UNCHANGED events]_outputVars

\* Both watchers hear what the core says, however its output is cut.
OutputHeard == FatalHeard /\ EventsTrue /\ EventsComplete
=============================================================================
