---------------------------- MODULE OutputProofs ----------------------------
(***************************************************************************)
(* Proofs about what becomes of the output and of the events of the core:  *)
(* CoreOutput (waitForStartup and the watcher of events), LogWriter (the   *)
(* log file) and EventHub (the streams of events).                         *)
(***************************************************************************)
EXTENDS CoreOutput, LogWriter, EventHub, SequenceTheorems, WellFoundedInduction,
        NaturalsInduction, TLAPS

\* Among natural numbers there is a least.
LEMMA LeastExists ==
  ASSUME NEW S \in SUBSET Nat, S # {}
  PROVE  \E i \in S : \A j \in S : i <= j
<1>0. S \in SUBSET Nat
  OBVIOUS
<1>1. PICK x \in S : TRUE
  OBVIOUS
<1>2. PICK i \in S : \A j \in S : <<j, i>> \notin OpToRel(<, Nat)
  BY <1>0, <1>1, NatLessThanWellFounded, WFMin
<1>3. \A j \in S : ~(j < i)
  BY <1>0, <1>2 DEF OpToRel
<1>4. QED
  BY <1>3

-----------------------------------------------------------------------------
(***************************************************************************)
(* waitForStartup.                                                         *)
(***************************************************************************)
\* While it waits a moment longer for a core that is up, no fatal line has been
\* reported: the report would have ended the wait.  Only a timer that fired
\* before that wait lets a start succeed that knew of one.
GraceKnows ==
  /\ waiter = "grace" => ~reported
  /\ waiter = "ok" /\ knewFatal => graceOver

LEMMA GraceKnowsStep ==
  ASSUME GraceKnows, [OutputNext]_outputVars
  PROVE  GraceKnows'
<1> USE DEF GraceKnows
<1>1. CASE UNCHANGED <<waiter, reported, graceOver, knewFatal>>
  BY <1>1
<1>2. CASE PostUpArrives
  BY <1>2 DEF PostUpArrives, startVars
<1>3. CASE EnterSelect
  BY <1>3 DEF EnterSelect, Decides, EnterIdle, startVars
<1>4. CASE EnterGrace
  BY <1>4 DEF EnterGrace, Decides, EnterIdle, startVars
<1>5. CASE GraceEnds
  BY <1>5 DEF GraceEnds, Decides, EnterIdle, startVars
<1>6. CASE TimesOut
  BY <1>6 DEF TimesOut, Decides, startVars
<1>7. CASE WaitReturns
  BY <1>7 DEF WaitReturns, Decides, startVars
<1>8. ASSUME NEW s \in Stream, StartupWrite(s)
      PROVE  GraceKnows'
  <2>1. \/ waiter' = "fatal"
        \/ /\ UNCHANGED <<waiter, graceOver, knewFatal>>
           /\ ~reported' \/ reported \/ ~Waiting
    BY <1>8 DEF StartupWrite, StartupTakes, Decides
  <2>2. QED
    BY <2>1 DEF Waiting
<1>9. QED
  <2>1. CASE CoreDies \/ StopSwaps \/ StopTakes \/ StopPublishes \/ StopReturns
    BY <2>1, <1>1 DEF CoreDies, StopSwaps, StopTakes, StopPublishes, StopReturns, StopIdle,
                      startVars, waitVars
  <2>2. ASSUME NEW s \in Stream,
               (\E n \in 1 .. MaxCut : ReadOutput(s, n)) \/ EventCheck(s) \/ EventLock(s)
        PROVE  GraceKnows'
    BY <2>2, <1>1 DEF ReadOutput, EventCheck, EventLock, LockIdle, startVars, waitVars
  <2>3. ASSUME NEW s \in Stream, PublishRule(s) \/ PublishLine(s) \/ EventUnlock(s)
        PROVE  GraceKnows'
    <3>1. EventIdle
      BY <2>3 DEF PublishRule, PublishLine, EventUnlock
    <3>2. QED
      BY <3>1, <1>1 DEF EventIdle, startVars, waitVars
  <2>4. CASE UNCHANGED outputVars
    BY <2>4, <1>1 DEF outputVars, startVars, waitVars
  <2>5. QED
    BY <1>2, <1>3, <1>4, <1>5, <1>6, <1>7, <1>8, <2>1, <2>2, <2>3, <2>4 DEF OutputNext

\* However the output is cut and however the timeout, the end of the core, its
\* notification and its output race one another, a start succeeds only if no
\* fatal line had been reported when waitForStartup decided, or if the timer of
\* the second select had fired before that select was reached.
THEOREM StartAlwaysKnowsFatal == OutputSpec => []StartedMeansNoFatal
<1>1. OutputInit => GraceKnows
  BY DEF OutputInit, GraceKnows
<1>2. GraceKnows => StartedMeansNoFatal
  BY DEF GraceKnows, StartedMeansNoFatal
<1>3. QED
  BY <1>1, <1>2, GraceKnowsStep, PTL DEF OutputSpec

-----------------------------------------------------------------------------
(***************************************************************************)
(* The watcher of events.                                                  *)
(***************************************************************************)
\* One goroutine at a time publishes, under the watcher's mutex; once Stop has
\* taken the unfinished line none does, and none will.
WatcherQuiet ==
  /\ pump \in [Stream -> {"read", "startup", "check", "lock", "publish"}]
  /\ \A s \in Stream : pump[s] = "publish" => eventMutex = "writer"
  /\ \A s, t \in Stream : pump[s] = "publish" /\ pump[t] = "publish" => s = t
  /\ stopper # "no" => ~active
  /\ stopper \in {"taken", "done"} => \A s \in Stream : pump[s] # "publish"

LEMMA WatcherQuietStep ==
  ASSUME WatcherQuiet, [OutputNext]_outputVars
  PROVE  WatcherQuiet'
<1> USE DEF WatcherQuiet
<1>1. CASE UNCHANGED <<pump, eventMutex, stopper, active>>
  BY <1>1
<1>2. ASSUME NEW s \in Stream, NEW n \in 1 .. MaxCut, ReadOutput(s, n)
      PROVE  WatcherQuiet'
  BY <1>2 DEF ReadOutput, PumpAt, eventVars
<1>3. ASSUME NEW s \in Stream, StartupWrite(s)
      PROVE  WatcherQuiet'
  BY <1>3 DEF StartupWrite, StartupTakes, PumpAt, eventVars
<1>4. ASSUME NEW s \in Stream, EventCheck(s)
      PROVE  WatcherQuiet'
  BY <1>4 DEF EventCheck, PumpAt, eventVars
<1>5. ASSUME NEW s \in Stream, EventLock(s)
      PROVE  WatcherQuiet'
  BY <1>5 DEF EventLock, LockIdle, EventTakes, PumpAt
<1>6. ASSUME NEW s \in Stream, PublishRule(s) \/ PublishLine(s) \/ EventUnlock(s)
      PROVE  WatcherQuiet'
  <2>1. CASE PublishRule(s)
    BY <2>1, <1>1 DEF PublishRule, EventIdle
  <2>2. CASE PublishLine(s)
    BY <2>2, <1>1 DEF PublishLine, EventIdle
  <2>3. CASE EventUnlock(s)
    BY <2>3 DEF EventUnlock, EventIdle, PumpAt
  <2>4. QED
    BY <1>6, <2>1, <2>2, <2>3
<1>7. CASE StopSwaps
  BY <1>7 DEF StopSwaps, StopIdle, pumpVars
<1>8. CASE StopTakes
  BY <1>8 DEF StopTakes, StopIdle, pumpVars
<1>9. CASE StopPublishes \/ StopReturns
  BY <1>9 DEF StopPublishes, StopReturns, StopIdle, pumpVars
<1>10. QED
  <2>1. CASE PostUpArrives \/ EnterSelect \/ EnterGrace \/ GraceEnds \/ TimesOut
    BY <2>1, <1>1 DEF PostUpArrives, EnterSelect, EnterGrace, GraceEnds, TimesOut,
                      EnterIdle, pumpVars, eventVars
  <2>2. CASE CoreDies \/ WaitReturns
    BY <2>2, <1>1 DEF CoreDies, WaitReturns, pumpVars, eventVars
  <2>3. CASE UNCHANGED outputVars
    BY <2>3, <1>1 DEF outputVars, pumpVars, eventVars
  <2>4. QED
    BY <1>2, <1>3, <1>4, <1>5, <1>6, <1>7, <1>8, <1>9, <2>1, <2>2, <2>3 DEF OutputNext

\* When Stop of the watcher has returned, the launch publishes no more, although
\* both goroutines may still be copying output and may have passed the first
\* look at active (coreLogEventWatcher.Write, Stop).
THEOREM NeverEventAfterStop == OutputSpec => NoEventAfterStop
<1>1. OutputInit => WatcherQuiet
  BY DEF OutputInit, WatcherQuiet
<1>2. ASSUME WatcherQuiet, [OutputNext]_outputVars
      PROVE  [stopper = "done" => UNCHANGED events]_outputVars
  <2> SUFFICES ASSUME stopper = "done", OutputNext PROVE UNCHANGED events
    BY <1>2
  <2>1. CASE PostUpArrives \/ EnterSelect \/ EnterGrace \/ GraceEnds \/ TimesOut
    BY <2>1 DEF PostUpArrives, EnterSelect, EnterGrace, GraceEnds, TimesOut,
                EnterIdle, eventVars
  <2>2. CASE CoreDies \/ WaitReturns
    BY <2>2 DEF CoreDies, WaitReturns, eventVars
  <2>3. CASE StopSwaps \/ StopTakes \/ StopPublishes \/ StopReturns
    BY <2>3 DEF StopSwaps, StopTakes, StopPublishes, StopReturns
  <2>4. ASSUME NEW s \in Stream, (\E n \in 1 .. MaxCut : ReadOutput(s, n))
                                   \/ StartupWrite(s) \/ EventCheck(s) \/ EventLock(s)
        PROVE  UNCHANGED events
    BY <2>4 DEF ReadOutput, StartupWrite, StartupTakes, EventCheck, EventLock, LockIdle,
                eventVars
  <2>5. ASSUME NEW s \in Stream, PublishRule(s) \/ PublishLine(s) \/ EventUnlock(s)
        PROVE  UNCHANGED events
    BY <1>2, <2>5 DEF PublishRule, PublishLine, EventUnlock, WatcherQuiet
  <2>6. QED
    BY <2>1, <2>2, <2>3, <2>4, <2>5 DEF OutputNext
<1>3. QED
  BY <1>1, <1>2, WatcherQuietStep, PTL DEF OutputSpec, NoEventAfterStop
-----------------------------------------------------------------------------
(***************************************************************************)
(* What the watchers hear.                                                 *)
(***************************************************************************)
\* heard has line behind its first n pieces; behind n a line begins.
HasAt(heard, n, line) ==
  n \in Nat /\ n + Len(line) <= Len(heard) /\ \A k \in 1 .. Len(line) : heard[n + k] = line[k]
LineBegins(heard, n) == n = 0 \/ heard[n] = "nl"

OutputTyped ==
  text \in [Stream -> Seq(Piece)] /\ chunk \in [Stream -> Seq(Piece)]

\* The startup watcher's line is the end of what it heard, without an end of a
\* line, and all of the line if nothing was cut.
StartBuffered ==
  /\ startLine \in Seq(Piece) /\ startHeard \in Seq(Piece) /\ Ends(startLine) = {}
  /\ HasAt(startHeard, Len(startHeard) - Len(startLine), startLine)
  /\ "startup" \notin clipped => LineBegins(startHeard, Len(startHeard) - Len(startLine))

\* So is the event watcher's, or the one that Stop took; before it are the
\* lines that Write has still to publish.
EventTyped ==
  /\ eventLine \in Seq(Piece) /\ todo \in Seq(Piece) /\ stopLine \in Seq(Piece)
  /\ eventHeard \in Seq(Piece) /\ writeRule \in 1 .. (Len(EventMarkers) + 1)
  /\ stopRule \in 1 .. (Len(EventMarkers) + 1)
  /\ events \in Seq([end: Nat, rule: 1 .. Len(EventMarkers)])
  /\ stopper \in {"no", "swapped", "taken", "done"}

EventBuffered ==
  /\ HasAt(eventHeard, dealt, todo)
  /\ HasAt(eventHeard, Len(eventHeard) - Len(eventLine), eventLine)
  /\ HasAt(eventHeard, Len(eventHeard) - Len(stopLine), stopLine)
  /\ \A k \in (dealt + Len(todo) + 1) .. Len(eventHeard) : eventHeard[k] # "nl"
  /\ dealt + Len(todo) + Len(eventLine) + Len(stopLine) <= Len(eventHeard)
  /\ "events" \notin clipped =>
       /\ LineBegins(eventHeard, dealt)
       /\ stopper # "done" =>
            dealt + Len(todo) + Len(eventLine) + Len(stopLine) = Len(eventHeard)

EventPhases ==
  /\ IF todo = <<>> THEN writeRule = 1 ELSE eventMutex = "writer" /\ todo[Len(todo)] = "nl"
  /\ stopper \in {"no", "swapped"} => stopLine = <<>> /\ stopRule = 1
  /\ stopper \in {"taken", "done"} => eventLine = <<>> /\ todo = <<>>
  /\ stopper = "done" => stopLine = <<>> /\ stopRule = Len(EventMarkers) + 1

\* Rules up to r have been tried on the line that ends at b.
Tried(b, r) ==
  \/ b <= dealt
  \/ todo # <<>> /\ b = dealt + FirstEnd(todo) /\ r < writeRule
  \/ stopper \in {"taken", "done"} /\ b = Len(eventHeard) + 1 /\ r < stopRule

TriedTrue ==
  /\ \A i \in DOMAIN events : Tried(events[i].end, events[i].rule)
  /\ EventsTrue
TriedComplete ==
  "events" \notin clipped =>
    \A b \in Ends(eventHeard) \cup {Len(eventHeard) + 1}, r \in DOMAIN EventMarkers :
      Tried(b, r) /\ LineHolds(eventHeard, b, EventMarkers[r]) =>
        \E i \in DOMAIN events : events[i] = [end |-> b, rule |-> r]

StartInv == StartBuffered /\ FatalHeard
EventInv == EventTyped /\ EventBuffered /\ EventPhases /\ TriedTrue /\ TriedComplete
HeardInv == OutputTyped /\ WatcherQuiet /\ StartInv /\ EventInv

LEMMA FirstEndIs ==
  ASSUME NEW t \in Seq(Piece), Ends(t) # {}
  PROVE  /\ FirstEnd(t) \in 1 .. Len(t) /\ t[FirstEnd(t)] = "nl"
         /\ \A k \in 1 .. (FirstEnd(t) - 1) : t[k] # "nl"
<1>1. Len(t) \in Nat /\ DOMAIN t = 1 .. Len(t)
  OBVIOUS
<1>2. Ends(t) \in SUBSET Nat /\ Ends(t) \subseteq 1 .. Len(t)
  BY <1>1 DEF Ends
<1>3. \E b \in Ends(t) : \A e \in Ends(t) : b <= e
  BY <1>2, LeastExists
<1>4. FirstEnd(t) \in Ends(t) /\ \A e \in Ends(t) : FirstEnd(t) <= e
  BY <1>3 DEF FirstEnd
<1>5. \A k \in 1 .. (FirstEnd(t) - 1) : k \notin Ends(t) /\ k \in 1 .. Len(t)
  BY <1>1, <1>2, <1>4
<1>6. QED
  BY <1>1, <1>2, <1>4, <1>5 DEF Ends

LEMMA LastEndIs ==
  ASSUME NEW t \in Seq(Piece)
  PROVE  /\ LastEnd(t) \in 0 .. Len(t) /\ (LastEnd(t) # 0 => t[LastEnd(t)] = "nl")
         /\ \A k \in (LastEnd(t) + 1) .. Len(t) : t[k] # "nl"
<1>1. Len(t) \in Nat /\ DOMAIN t = 1 .. Len(t)
  OBVIOUS
<1> DEFINE Above == {k \in 0 .. Len(t) : \A e \in Ends(t) : e <= k}
<1>2. Ends(t) \subseteq 1 .. Len(t)
  BY <1>1 DEF Ends
<1>3. Above \in SUBSET Nat /\ Len(t) \in Above
  BY <1>1, <1>2
<1>4. PICK b \in Above : \A k \in Above : b <= k
  BY <1>3, LeastExists
<1>5. b \in Ends(t) \cup {0}
  <2>1. SUFFICES ASSUME b # 0, b \notin Ends(t) PROVE FALSE
    OBVIOUS
  <2>2. b - 1 \in Above
    BY <1>1, <1>2, <1>4, <2>1
  <2>3. QED
    BY <1>1, <1>4, <2>2
<1>6. \E k \in Ends(t) \cup {0} : \A e \in Ends(t) : e <= k
  BY <1>4, <1>5
<1>7. LastEnd(t) \in Ends(t) \cup {0} /\ \A e \in Ends(t) : e <= LastEnd(t)
  BY <1>6 DEF LastEnd
<1>8. LastEnd(t) \in 0 .. Len(t)
  BY <1>1, <1>2, <1>7
<1>9. \A k \in (LastEnd(t) + 1) .. Len(t) : k \notin Ends(t) /\ k \in 1 .. Len(t)
  BY <1>1, <1>7, <1>8
<1>10. QED
  BY <1>1, <1>7, <1>8, <1>9 DEF Ends

\* What Split leaves: lines that are finished, and one that is not.
LEMMA SplitIs ==
  ASSUME NEW t \in Seq(Piece)
  PROVE  /\ Finished(t) \in Seq(Piece) /\ Unfinished(t) \in Seq(Piece)
         /\ Len(Finished(t)) = LastEnd(t) /\ Len(Unfinished(t)) = Len(t) - LastEnd(t)
         /\ LastEnd(t) \in 0 .. Len(t)
         /\ HasAt(t, 0, Finished(t)) /\ HasAt(t, LastEnd(t), Unfinished(t))
         /\ Ends(Unfinished(t)) = {}
         /\ Finished(t) # <<>> => Finished(t)[LastEnd(t)] = "nl"
<1>1. Len(t) \in Nat /\ LastEnd(t) \in 0 .. Len(t)
  BY LastEndIs
<1> DEFINE n == LastEnd(t)
<1>2. /\ Finished(t) \in Seq(Piece) /\ Len(Finished(t)) = n
      /\ \A k \in 1 .. n : Finished(t)[k] = t[k]
  BY <1>1 DEF Finished
<1>3. /\ Unfinished(t) \in Seq(Piece) /\ Len(Unfinished(t)) = Len(t) - n
      /\ \A k \in 1 .. (Len(t) - n) : Unfinished(t)[k] = t[n + k]
  BY <1>1 DEF Unfinished
<1>4. HasAt(t, 0, Finished(t))
  BY <1>1, <1>2 DEF HasAt
<1>5. HasAt(t, n, Unfinished(t))
  BY <1>1, <1>3 DEF HasAt
<1>6. Ends(Unfinished(t)) = {}
  <2>1. \A k \in 1 .. (Len(t) - n) : t[n + k] # "nl"
    BY <1>1, LastEndIs
  <2>2. QED
    BY <1>1, <1>3, <2>1 DEF Ends
<1>7. ASSUME Finished(t) # <<>> PROVE Finished(t)[n] = "nl"
  <2>1. n # 0
    BY <1>1, <1>2, <1>7
  <2>2. n \in 1 .. n /\ t[n] = "nl"
    BY <1>1, <2>1, LastEndIs
  <2>3. QED
    BY <1>2, <2>2
<1>8. QED
  BY <1>1, <1>2, <1>3, <1>4, <1>5, <1>6, <1>7

\* A line that is too long is cut in front.
LEMMA ClipIs ==
  ASSUME NEW t \in Seq(Piece)
  PROVE  /\ Clip(t) \in Seq(Piece) /\ Len(Clip(t)) <= Len(t)
         /\ HasAt(t, Len(t) - Len(Clip(t)), Clip(t))
         /\ ~(Len(t) > LineLimit) => Clip(t) = t
         /\ Ends(t) = {} => Ends(Clip(t)) = {}
<1>1. Len(t) \in Nat /\ LineLimit \in Nat
  BY OutputAssumption
<1>2. /\ Clip(t) \in Seq(Piece) /\ Len(Clip(t)) \in 0 .. Len(t)
      /\ \A k \in 1 .. Len(Clip(t)) : t[(Len(t) - Len(Clip(t))) + k] = Clip(t)[k]
  <2>1. CASE Len(t) > LineLimit
    <3> DEFINE a == Len(t) - LineLimit + 1
    <3>1. a \in 1 .. (Len(t) + 1)
      BY <1>1, <2>1
    <3>2. /\ Clip(t) \in Seq(Piece) /\ Len(Clip(t)) = LineLimit
          /\ \A k \in 1 .. LineLimit : Clip(t)[k] = t[(a - 1) + k]
      BY <1>1, <2>1, <3>1 DEF Clip
    <3>3. QED
      BY <1>1, <2>1, <3>2
  <2>2. CASE ~(Len(t) > LineLimit)
    BY <1>1, <2>2 DEF Clip
  <2>3. QED
    BY <2>1, <2>2
<1>3. HasAt(t, Len(t) - Len(Clip(t)), Clip(t))
  BY <1>1, <1>2 DEF HasAt
<1>4. ~(Len(t) > LineLimit) => Clip(t) = t
  BY DEF Clip
<1>5. ASSUME Ends(t) = {} PROVE Ends(Clip(t)) = {}
  <2>1. \A k \in 1 .. Len(t) : t[k] # "nl"
    BY <1>1, <1>5 DEF Ends
  <2>2. \A k \in 1 .. Len(Clip(t)) : (Len(t) - Len(Clip(t))) + k \in 1 .. Len(t)
    BY <1>1, <1>2
  <2>3. \A k \in 1 .. Len(Clip(t)) : Clip(t)[k] # "nl"
    BY <1>2, <2>1, <2>2
  <2>4. DOMAIN Clip(t) = 1 .. Len(Clip(t))
    BY <1>2
  <2>5. QED
    BY <2>3, <2>4 DEF Ends
<1>6. QED
  BY <1>1, <1>2, <1>3, <1>4, <1>5

LEMMA HasAtThrough ==
  ASSUME NEW h \in Seq(Piece), NEW t \in Seq(Piece), NEW u \in Seq(Piece), NEW n, NEW m,
         HasAt(h, n, t), HasAt(t, m, u)
  PROVE  HasAt(h, n + m, u)
<1>1. Len(h) \in Nat /\ Len(t) \in Nat /\ Len(u) \in Nat /\ n \in Nat /\ m \in Nat
  BY DEF HasAt
<1>2. ASSUME NEW k \in 1 .. Len(u) PROVE h[(n + m) + k] = u[k]
  <2>1. m + k \in 1 .. Len(t) /\ t[m + k] = u[k] /\ n + (m + k) = (n + m) + k
    BY <1>1 DEF HasAt
  <2>2. QED
    BY <2>1 DEF HasAt
<1>3. QED
  BY <1>1, <1>2 DEF HasAt

\* A chunk that goes into the text also goes to the end of the line.
LEMMA HasAtMore ==
  ASSUME NEW h \in Seq(Piece), NEW t \in Seq(Piece), NEW c \in Seq(Piece),
         HasAt(h, Len(h) - Len(t), t)
  PROVE  /\ h \o c \in Seq(Piece) /\ t \o c \in Seq(Piece)
         /\ Len(h \o c) = Len(h) + Len(c) /\ Len(t \o c) = Len(t) + Len(c)
         /\ HasAt(h \o c, Len(h) - Len(t), t \o c)
         /\ \A k \in 1 .. Len(h) : (h \o c)[k] = h[k]
         /\ Len(h) - Len(t) \in Nat
<1> DEFINE n == Len(h) - Len(t)
<1>1. Len(h) \in Nat /\ Len(t) \in Nat /\ Len(c) \in Nat /\ n \in Nat
  BY DEF HasAt
<1>2. /\ h \o c \in Seq(Piece) /\ t \o c \in Seq(Piece)
      /\ Len(h \o c) = Len(h) + Len(c) /\ Len(t \o c) = Len(t) + Len(c)
  BY ConcatProperties
<1>3. \A k \in 1 .. Len(h) : (h \o c)[k] = h[k]
  BY ConcatProperties, <1>1
<1>4. ASSUME NEW k \in 1 .. (Len(t) + Len(c)) PROVE (h \o c)[n + k] = (t \o c)[k]
  <2>1. CASE k <= Len(t)
    <3>1. k \in 1 .. Len(t) /\ n + k \in 1 .. Len(h)
      BY <1>1, <2>1
    <3>2. (t \o c)[k] = t[k] /\ (h \o c)[n + k] = h[n + k]
      BY <3>1, <1>1, ConcatProperties
    <3>3. QED
      BY <3>1, <3>2 DEF HasAt
  <2>2. CASE k > Len(t)
    <3>1. k - Len(t) \in 1 .. Len(c) /\ (n + k) - Len(h) = k - Len(t) /\ n + k > Len(h)
          /\ n + k \in 1 .. (Len(h) + Len(c))
      BY <1>1, <2>2
    <3>2. (t \o c)[k] = c[k - Len(t)] /\ (h \o c)[n + k] = c[(n + k) - Len(h)]
      BY <3>1, <2>2, <1>1, ConcatProperties
    <3>3. QED
      BY <3>1, <3>2
  <2>3. QED
    BY <1>1, <2>1, <2>2
<1>5. HasAt(h \o c, n, t \o c)
  BY <1>1, <1>2, <1>4 DEF HasAt
<1>6. QED
  BY <1>1, <1>2, <1>3, <1>5

\* A line holds what the text holds there, if it begins where the line does.
LEMMA LineShift ==
  ASSUME NEW h \in Seq(Piece), NEW t \in Seq(Piece), NEW n, HasAt(h, n, t),
         NEW b \in 1 .. (Len(t) + 1), NEW m
  PROVE  /\ LineHolds(t, b, m) => LineHolds(h, n + b, m)
         /\ LineBegins(h, n) /\ LineHolds(h, n + b, m) => LineHolds(t, b, m)
<1>1. Len(h) \in Nat /\ Len(t) \in Nat /\ n \in Nat /\ b \in Nat
      /\ \A k \in 1 .. (b - 1) : k \in 1 .. Len(t) /\ h[n + k] = t[k]
  BY DEF HasAt
<1>2. ASSUME LineHolds(t, b, m) PROVE LineHolds(h, n + b, m)
  <2>1. PICK i \in 1 .. (b - 2) : /\ t[i] = m[1] /\ t[i + 1] = m[2]
                                  /\ \A k \in i .. (b - 1) : t[k] # "nl"
    BY <1>2 DEF LineHolds
  <2>2. /\ i \in 1 .. (b - 1) /\ i + 1 \in 1 .. (b - 1) /\ (n + i) + 1 = n + (i + 1)
        /\ n + i \in 1 .. ((n + b) - 2)
    BY <1>1
  <2>3. ASSUME NEW k \in (n + i) .. ((n + b) - 1) PROVE h[k] # "nl"
    <3>1. k - n \in i .. (b - 1) /\ n + (k - n) = k /\ k - n \in 1 .. (b - 1)
      BY <1>1
    <3>2. QED
      BY <1>1, <2>1, <3>1
  <2>4. h[n + i] = m[1] /\ h[(n + i) + 1] = m[2]
    BY <1>1, <2>1, <2>2
  <2>5. QED
    BY <2>2, <2>3, <2>4 DEF LineHolds
<1>3. ASSUME LineBegins(h, n), LineHolds(h, n + b, m) PROVE LineHolds(t, b, m)
  <2>1. PICK i \in 1 .. ((n + b) - 2) : /\ h[i] = m[1] /\ h[i + 1] = m[2]
                                        /\ \A k \in i .. ((n + b) - 1) : h[k] # "nl"
    BY <1>3 DEF LineHolds
  <2>2. i > n
    <3>1. SUFFICES ASSUME i <= n PROVE FALSE
      BY <1>1
    <3>2. n # 0 /\ n \in i .. ((n + b) - 1)
      BY <1>1, <3>1
    <3>3. QED
      BY <1>3, <2>1, <3>2 DEF LineBegins
  <2>3. /\ i - n \in 1 .. (b - 2) /\ n + (i - n) = i /\ n + ((i - n) + 1) = i + 1
        /\ i - n \in 1 .. (b - 1) /\ (i - n) + 1 \in 1 .. (b - 1)
    BY <1>1, <2>2
  <2>4. ASSUME NEW k \in (i - n) .. (b - 1) PROVE t[k] # "nl"
    <3>1. n + k \in i .. ((n + b) - 1) /\ k \in 1 .. (b - 1)
      BY <1>1, <2>2
    <3>2. QED
      BY <1>1, <2>1, <3>1
  <2>5. t[i - n] = m[1] /\ t[(i - n) + 1] = m[2]
    BY <1>1, <2>1, <2>3
  <2>6. QED
    BY <2>3, <2>4, <2>5 DEF LineHolds
<1>4. QED
  BY <1>2, <1>3

\* A watcher takes a chunk c: what it has heard goes from h to g, its unfinished
\* line from t to line, the end of u; finished lines end at e.
BufferedStep(h, t, n, g, u, line, e) ==
  /\ g \in Seq(Piece) /\ u \in Seq(Piece) /\ line \in Seq(Piece) /\ Ends(line) = {}
  /\ n \in Nat /\ HasAt(g, n, u) /\ HasAt(g, 0, h)
  /\ HasAt(g, Len(g) - Len(line), line) /\ HasAt(g, n, Finished(u))
  /\ Len(Finished(u)) = LastEnd(u) /\ e \in Nat /\ e + Len(line) <= Len(g)
  /\ (~(Len(Unfinished(u)) > LineLimit) => line = Unfinished(u) /\ e + Len(line) = Len(g))
  /\ \A k \in (e + 1) .. Len(g) : g[k] # "nl"
  /\ (LineBegins(h, n) => LineBegins(g, n) /\ LineBegins(g, e))

LEMMA PlaceSum ==
  ASSUME NEW n \in Nat, NEW l \in Nat, NEW u \in Nat, NEW r \in Nat, NEW g \in Nat,
         NEW m \in Nat, r = u - l, n + u = g, m <= r
  PROVE  (n + l) + r = g /\ (n + l) + m <= g
OBVIOUS

BufferPlaced(h, g, u, n, l, done, rest, line) ==
  /\ h \in Seq(Piece) /\ g \in Seq(Piece) /\ u \in Seq(Piece) /\ n \in Nat /\ n <= Len(h)
  /\ HasAt(g, n, u) /\ n + Len(u) = Len(g) /\ Len(h) <= Len(g)
  /\ \A k \in 1 .. Len(h) : g[k] = h[k]
  /\ l \in 0 .. Len(u) /\ done \in Seq(Piece) /\ rest \in Seq(Piece)
  /\ HasAt(u, 0, done) /\ HasAt(u, l, rest) /\ Len(rest) = Len(u) - l
  /\ (l # 0 => u[l] = "nl") /\ \A k \in (l + 1) .. Len(u) : u[k] # "nl"
  /\ line \in Seq(Piece) /\ Len(line) <= Len(rest) /\ HasAt(rest, Len(rest) - Len(line), line)

LEMMA BufferPlaces ==
  ASSUME NEW h, NEW g, NEW u, NEW n, NEW l, NEW done, NEW rest, NEW line,
         BufferPlaced(h, g, u, n, l, done, rest, line)
  PROVE  /\ HasAt(g, 0, h) /\ HasAt(g, n, done) /\ HasAt(g, Len(g) - Len(line), line)
         /\ n + l \in Nat /\ (n + l) + Len(line) <= Len(g)
         /\ (line = rest => (n + l) + Len(line) = Len(g))
         /\ \A k \in ((n + l) + 1) .. Len(g) : g[k] # "nl"
         /\ (LineBegins(h, n) => LineBegins(g, n) /\ LineBegins(g, n + l))
<1> USE DEF BufferPlaced
<1>1. /\ Len(h) \in Nat /\ Len(g) \in Nat /\ Len(u) \in Nat /\ Len(rest) \in Nat
      /\ Len(line) \in Nat /\ l \in Nat /\ n + l \in Nat
  OBVIOUS
<1>2. HasAt(g, 0, h)
  BY <1>1 DEF HasAt
<1>3. HasAt(g, n, done)
  <2>1. HasAt(g, n + 0, done)
    BY HasAtThrough
  <2>2. QED
    BY <2>1
<1>4. (n + l) + Len(rest) = Len(g) /\ (n + l) + Len(line) <= Len(g)
  BY <1>1, PlaceSum
<1>5. HasAt(g, Len(g) - Len(line), line)
  <2>1. HasAt(g, n + l, rest)
    BY HasAtThrough
  <2>2. HasAt(g, (n + l) + (Len(rest) - Len(line)), line)
    BY <2>1, HasAtThrough
  <2>3. (n + l) + (Len(rest) - Len(line)) = Len(g) - Len(line)
    BY <1>1, <1>4
  <2>4. QED
    BY <2>2, <2>3
<1>6. line = rest => (n + l) + Len(line) = Len(g)
  BY <1>4
<1>7. ASSUME NEW k \in ((n + l) + 1) .. Len(g) PROVE g[k] # "nl"
  <2>1. k - n \in (l + 1) .. Len(u) /\ k - n \in 1 .. Len(u) /\ n + (k - n) = k
    BY <1>1
  <2>2. u[k - n] # "nl"
    BY <2>1
  <2>3. QED
    BY <2>1, <2>2 DEF HasAt
<1>8. ASSUME LineBegins(h, n) PROVE LineBegins(g, n) /\ LineBegins(g, n + l)
  <2>1. LineBegins(g, n)
    <3>1. n = 0 \/ n \in 1 .. Len(h)
      BY <1>1
    <3>2. QED
      BY <1>8, <3>1 DEF LineBegins
  <2>2. LineBegins(g, n + l)
    <3>1. CASE l = 0
      <4>1. n + l = n
        BY <3>1
      <4>2. QED
        BY <2>1, <4>1
    <3>2. CASE l # 0
      <4>1. u[l] = "nl" /\ l \in 1 .. Len(u)
        BY <1>1, <3>2
      <4>2. QED
        BY <4>1 DEF HasAt, LineBegins
    <3>3. QED
      BY <3>1, <3>2
  <2>3. QED
    BY <2>1, <2>2
<1>9. QED
  BY <1>1, <1>2, <1>3, <1>4, <1>5, <1>6, <1>7, <1>8

LEMMA BufferStep ==
  ASSUME NEW h \in Seq(Piece), NEW t \in Seq(Piece), NEW c \in Seq(Piece),
         HasAt(h, Len(h) - Len(t), t)
  PROVE  BufferedStep(h, t, Len(h) - Len(t), h \o c, t \o c, Clip(Unfinished(t \o c)),
                      (Len(h) - Len(t)) + LastEnd(t \o c))
<1>1. PICK g : g = h \o c
  OBVIOUS
<1>2. PICK u : u = t \o c
  OBVIOUS
<1>3. PICK n : n = Len(h) - Len(t)
  OBVIOUS
<1>4. PICK rest : rest = Unfinished(u)
  OBVIOUS
<1>5. PICK l : l = LastEnd(u)
  OBVIOUS
<1>6. PICK line : line = Clip(rest)
  OBVIOUS
<1>7. /\ g \in Seq(Piece) /\ u \in Seq(Piece) /\ Len(g) = Len(h) + Len(c)
      /\ Len(u) = Len(t) + Len(c) /\ HasAt(g, n, u) /\ n \in Nat
      /\ \A k \in 1 .. Len(h) : g[k] = h[k]
  BY HasAtMore, <1>1, <1>2, <1>3
<1>8. /\ Len(h) \in Nat /\ Len(t) \in Nat /\ Len(c) \in Nat /\ n <= Len(h)
      /\ n + Len(u) = Len(g) /\ Len(h) <= Len(g)
  <2>1. Len(h) \in Nat /\ Len(t) \in Nat /\ Len(c) \in Nat
    OBVIOUS
  <2>2. QED
    BY <2>1, <1>3, <1>7
<1>9. /\ Finished(u) \in Seq(Piece) /\ rest \in Seq(Piece) /\ Len(Finished(u)) = l
      /\ Len(rest) = Len(u) - l /\ l \in 0 .. Len(u) /\ HasAt(u, 0, Finished(u))
      /\ HasAt(u, l, rest) /\ Ends(rest) = {} /\ (l # 0 => u[l] = "nl")
      /\ \A k \in (l + 1) .. Len(u) : u[k] # "nl"
  BY <1>7, <1>4, <1>5, SplitIs, LastEndIs
<1>10. /\ line \in Seq(Piece) /\ Len(line) <= Len(rest) /\ Ends(line) = {}
       /\ HasAt(rest, Len(rest) - Len(line), line) /\ (~(Len(rest) > LineLimit) => line = rest)
  BY <1>6, <1>9, ClipIs
<1>11. /\ HasAt(g, 0, h) /\ HasAt(g, n, Finished(u)) /\ HasAt(g, Len(g) - Len(line), line)
       /\ n + l \in Nat /\ (n + l) + Len(line) <= Len(g)
       /\ (line = rest => (n + l) + Len(line) = Len(g))
       /\ \A k \in ((n + l) + 1) .. Len(g) : g[k] # "nl"
       /\ (LineBegins(h, n) => LineBegins(g, n) /\ LineBegins(g, n + l))
  <2>1. BufferPlaced(h, g, u, n, l, Finished(u), rest, line)
    BY <1>7, <1>8, <1>9, <1>10 DEF BufferPlaced
  <2>2. QED
    BY <2>1, BufferPlaces
<1>12. BufferedStep(h, t, n, g, u, line, n + l)
  BY <1>4, <1>5, <1>7, <1>9, <1>10, <1>11 DEF BufferedStep
<1>13. QED
  BY <1>12, <1>1, <1>2, <1>3, <1>4, <1>5, <1>6

\* A marker is on a line that is finished or on the one that is not.
LEMMA MarkerSplit ==
  ASSUME NEW t \in Seq(Piece), NEW j \in 1 .. (Len(t) - 1),
         t[j] = FatalMarker[1], t[j + 1] = FatalMarker[2]
  PROVE  \/ FinishedFatal(t)
         \/ startupFatalLineError(Unfinished(t), Len(Unfinished(t)) + 1)
<1> DEFINE l == LastEnd(t)  rest == Unfinished(t)
<1>1. t[j] # "nl" /\ t[j + 1] # "nl" /\ Len(t) \in Nat /\ DOMAIN t = 1 .. Len(t)
  BY OutputAssumption DEF Marker
<1>2. /\ l \in 0 .. Len(t) /\ (l # 0 => t[l] = "nl") /\ \A k \in (l + 1) .. Len(t) : t[k] # "nl"
  BY LastEndIs
<1>3. CASE j + 1 <= l
  <2> DEFINE S == {b \in Ends(t) : b >= j + 2}
  <2>1. l \in S
    <3>1. l # j + 1 /\ l # 0
      BY <1>1, <1>2, <1>3
    <3>2. QED
      BY <1>1, <1>2, <1>3, <3>1 DEF Ends
  <2>2. S \in SUBSET Nat
    BY <1>1 DEF Ends
  <2>3. PICK b \in S : \A k \in S : b <= k
    BY <2>1, <2>2, LeastExists
  <2>4. b \in 1 .. Len(t) /\ b >= j + 2 /\ b \in Ends(t)
    BY <1>1, <2>3 DEF Ends
  <2>5. ASSUME NEW k \in j .. (b - 1) PROVE t[k] # "nl"
    <3>1. CASE k = j \/ k = j + 1
      BY <1>1, <3>1
    <3>2. CASE k >= j + 2
      <4>1. k \notin S /\ k \in 1 .. Len(t)
        BY <1>1, <2>3, <2>4, <3>2
      <4>2. QED
        BY <1>1, <3>2, <4>1 DEF Ends
    <3>3. QED
      BY <3>1, <3>2, <2>4
  <2>6. j \in 1 .. (b - 2)
    BY <2>4
  <2>7. LineHolds(t, b, FatalMarker)
    BY <2>5, <2>6 DEF LineHolds
  <2>8. QED
    BY <2>4, <2>7 DEF FinishedFatal, startupFatalLineError
<1>4. CASE ~(j + 1 <= l)
  <2>1. j > l
    BY <1>1, <1>2, <1>4
  <2>2. /\ rest \in Seq(Piece) /\ Len(rest) = Len(t) - l
        /\ \A k \in 1 .. Len(rest) : t[l + k] = rest[k]
    BY SplitIs DEF HasAt
  <2> DEFINE i == j - l
  <2>3. /\ i \in 1 .. ((Len(rest) + 1) - 2) /\ l + i = j /\ l + (i + 1) = j + 1
        /\ i \in 1 .. Len(rest) /\ i + 1 \in 1 .. Len(rest)
    BY <1>1, <1>2, <2>1, <2>2
  <2>4. rest[i] = FatalMarker[1] /\ rest[i + 1] = FatalMarker[2]
    BY <2>2, <2>3
  <2>5. ASSUME NEW k \in i .. ((Len(rest) + 1) - 1) PROVE rest[k] # "nl"
    <3>1. k \in 1 .. Len(rest) /\ l + k \in (l + 1) .. Len(t)
      <4>1. Len(rest) \in Nat /\ k \in i .. Len(rest) /\ i >= 1
        BY <2>2, <2>3
      <4>2. QED
        BY <1>1, <1>2, <2>2, <4>1
    <3>2. QED
      BY <1>2, <2>2, <3>1
  <2>6. LineHolds(rest, Len(rest) + 1, FatalMarker)
    BY <2>3, <2>4, <2>5 DEF LineHolds
  <2>7. QED
    BY <2>6 DEF startupFatalLineError
<1>5. QED
  BY <1>3, <1>4

LEMMA StartupHears ==
  ASSUME HeardInv, NEW s \in Stream, StartupWrite(s)
  PROVE  StartInv'
<1> DEFINE h == startHeard  t == startLine  c == chunk[s]  g == h \o c  u == t \o c
           n == Len(h) - Len(t)  rest == Unfinished(u)  line == Clip(rest)  e == n + LastEnd(u)
           fatal == FinishedFatal(u) \/ startupFatalLineError(line, Len(line) + 1)
<1>1. /\ startLine' = line /\ startHeard' = g /\ reported' = (reported \/ fatal)
      /\ clipped' = IF Len(rest) > LineLimit THEN clipped \cup {"startup"} ELSE clipped
  BY DEF StartupWrite, StartupTakes, ClippedBy
<1>2. /\ h \in Seq(Piece) /\ t \in Seq(Piece) /\ c \in Seq(Piece) /\ HasAt(h, n, t)
      /\ ("startup" \notin clipped => LineBegins(h, n)) /\ FatalHeard
  BY DEF HeardInv, StartInv, StartBuffered, OutputTyped
<1>3. /\ BufferedStep(h, t, n, g, u, line, e) /\ Len(g) = Len(h) + Len(c)
      /\ Len(u) = Len(t) + Len(c)
  BY <1>2, BufferStep, HasAtMore
<1>4. /\ Len(h) \in Nat /\ Len(t) \in Nat /\ Len(g) \in Nat /\ Len(u) \in Nat /\ Len(line) \in Nat
      /\ Len(c) \in Nat /\ Len(g) = Len(h) + Len(c) /\ Len(u) = Len(t) + Len(c)
      /\ n = Len(h) - Len(t)
  BY <1>2, <1>3 DEF BufferedStep
<1> HIDE DEF c, g, u, n, line, e
<1>5. /\ g \in Seq(Piece) /\ u \in Seq(Piece) /\ line \in Seq(Piece) /\ Ends(line) = {}
      /\ n \in Nat /\ HasAt(g, n, u) /\ HasAt(g, 0, h)
      /\ HasAt(g, Len(g) - Len(line), line)
      /\ e \in Nat /\ e + Len(line) <= Len(g)
      /\ (~(Len(rest) > LineLimit) => line = rest /\ e + Len(line) = Len(g))
      /\ (LineBegins(h, n) => LineBegins(g, n) /\ LineBegins(g, e))
  BY <1>3 DEF BufferedStep
<1>6. "startup" \notin clipped' => /\ "startup" \notin clipped /\ line = rest
                                   /\ LineBegins(h, n) /\ e = Len(g) - Len(line)
  BY <1>1, <1>2, <1>5, <1>4
<1>7. StartBuffered'
  BY <1>1, <1>5, <1>6 DEF StartBuffered
<1>8. ASSUME fatal PROVE Fatal'
  <2>1. ASSUME NEW b \in 1 .. (Len(g) + 1), LineHolds(g, b, FatalMarker) PROVE Fatal'
    <3>1. PICK i \in 1 .. (b - 2) : g[i] = FatalMarker[1] /\ g[i + 1] = FatalMarker[2]
      BY <2>1 DEF LineHolds
    <3>2. i \in 1 .. (Len(g) - 1)
      BY <1>4
    <3>3. QED
      BY <1>1, <3>1, <3>2 DEF Fatal
  <2>2. CASE FinishedFatal(u)
    <3>1. PICK b \in Ends(u) : LineHolds(u, b, FatalMarker)
      BY <2>2 DEF FinishedFatal, startupFatalLineError
    <3>2. b \in 1 .. Len(u) /\ b \in 1 .. (Len(u) + 1)
      BY <1>5, <1>4 DEF Ends
    <3>3. LineHolds(g, n + b, FatalMarker)
      BY <1>5, <3>1, <3>2, LineShift
    <3>4. n + b \in 1 .. (Len(g) + 1)
      BY <1>5, <1>4, <3>2
    <3>5. QED
      BY <2>1, <3>3, <3>4
  <2>3. CASE startupFatalLineError(line, Len(line) + 1)
    <3> DEFINE a == Len(g) - Len(line)
    <3>1. LineHolds(line, Len(line) + 1, FatalMarker) /\ Len(line) + 1 \in 1 .. (Len(line) + 1)
      BY <1>4, <2>3 DEF startupFatalLineError
    <3>2. LineHolds(g, a + (Len(line) + 1), FatalMarker)
      BY <1>5, <3>1, LineShift
    <3>3. a + (Len(line) + 1) = Len(g) + 1
      BY <1>4
    <3>4. QED
      BY <1>4, <2>1, <3>2, <3>3
  <2>4. QED
    BY <1>8, <2>2, <2>3
<1>9. ASSUME Fatal PROVE Fatal'
  <2>1. PICK i \in 1 .. (Len(h) - 1) : h[i] = FatalMarker[1] /\ h[i + 1] = FatalMarker[2]
    BY <1>9 DEF Fatal
  <2>2. /\ i \in 1 .. Len(h) /\ i + 1 \in 1 .. Len(h) /\ i \in 1 .. (Len(g) - 1)
        /\ 0 + i = i /\ 0 + (i + 1) = i + 1
    BY <1>4
  <2>3. g[i] = h[i] /\ g[i + 1] = h[i + 1]
    BY <1>5, <2>2 DEF HasAt
  <2>4. QED
    BY <1>1, <2>1, <2>2, <2>3 DEF Fatal
<1>10. ASSUME "startup" \notin clipped', Fatal' PROVE reported \/ fatal
  <2>1. PICK i \in 1 .. (Len(g) - 1) : g[i] = FatalMarker[1] /\ g[i + 1] = FatalMarker[2]
    BY <1>1, <1>10 DEF Fatal
  <2>2. CASE i + 1 <= Len(h)
    <3>1. /\ i \in 1 .. (Len(h) - 1) /\ i \in 1 .. Len(h) /\ i + 1 \in 1 .. Len(h)
          /\ 0 + i = i /\ 0 + (i + 1) = i + 1
      BY <1>4, <2>2
    <3>2. h[i] = FatalMarker[1] /\ h[i + 1] = FatalMarker[2]
      BY <1>5, <2>1, <3>1 DEF HasAt
    <3>3. Fatal
      BY <3>1, <3>2 DEF Fatal
    <3>4. QED
      BY <1>2, <1>6, <1>10, <3>3 DEF FatalHeard
  <2>3. CASE ~(i + 1 <= Len(h))
    <3>1. i > n
      <4>1. SUFFICES ASSUME i <= n PROVE FALSE
        BY <1>5
      <4>2. i = n /\ n # 0
        BY <1>4, <2>3, <4>1
      <4>3. g[n] = "nl"
        BY <1>5, <1>6, <1>10, <4>2 DEF LineBegins
      <4>4. QED
        BY <2>1, <4>2, <4>3, OutputAssumption DEF Marker
    <3>2. /\ i - n \in 1 .. (Len(u) - 1) /\ n + (i - n) = i /\ n + ((i - n) + 1) = i + 1
          /\ i - n \in 1 .. Len(u) /\ (i - n) + 1 \in 1 .. Len(u)
      BY <1>5, <1>4, <3>1
    <3>3. u[i - n] = FatalMarker[1] /\ u[(i - n) + 1] = FatalMarker[2]
      BY <1>5, <2>1, <3>2 DEF HasAt
    <3>4. FinishedFatal(u) \/ startupFatalLineError(rest, Len(rest) + 1)
      BY <1>5, <3>2, <3>3, MarkerSplit
    <3>5. QED
      BY <1>6, <1>10, <3>4
  <2>4. QED
    BY <2>2, <2>3
<1>11. FatalHeard'
  BY <1>1, <1>2, <1>8, <1>9, <1>10 DEF FatalHeard
<1>12. QED
  BY <1>7, <1>11 DEF StartInv

-----------------------------------------------------------------------------
LEMMA StartStill ==
  ASSUME StartInv, UNCHANGED startVars, "startup" \in clipped' <=> "startup" \in clipped
  PROVE  StartInv'
BY DEF StartInv, StartBuffered, FatalHeard, Fatal, startVars

LEMMA EventStill ==
  ASSUME EventInv, UNCHANGED eventVars, "events" \in clipped' <=> "events" \in clipped
  PROVE  EventInv'
<1>1. EventTyped' /\ EventBuffered' /\ EventPhases'
  BY DEF EventInv, EventTyped, EventBuffered, EventPhases, eventVars
<1>2. TriedTrue' /\ TriedComplete'
  BY DEF EventInv, TriedTrue, TriedComplete, Tried, EventsTrue, eventVars
<1>3. QED
  BY <1>1, <1>2 DEF EventInv

\* Text that comes later does not change what a line holds.
LEMMA LineGrows ==
  ASSUME NEW h \in Seq(Piece), NEW g \in Seq(Piece), HasAt(g, 0, h), NEW b \in Nat,
         b <= Len(h) + 1, NEW m
  PROVE  LineHolds(h, b, m) <=> LineHolds(g, b, m)
<1>1. Len(h) \in Nat
  OBVIOUS
<1>2. CASE b = 0
  BY <1>2 DEF LineHolds
<1>3. CASE b # 0
  <2>1. b \in 1 .. (Len(h) + 1) /\ 0 + b = b /\ LineBegins(g, 0)
    BY <1>1, <1>3 DEF LineBegins
  <2>2. /\ LineHolds(h, b, m) => LineHolds(g, 0 + b, m)
        /\ LineBegins(g, 0) /\ LineHolds(g, 0 + b, m) => LineHolds(h, b, m)
    BY <2>1, LineShift
  <2>3. QED
    BY <2>1, <2>2
<1>4. QED
  BY <1>2, <1>3

LogEvent == [end: Nat, rule: 1 .. Len(EventMarkers)]

LEMMA RuleCount ==
  Len(EventMarkers) \in Nat /\ DOMAIN EventMarkers = 1 .. Len(EventMarkers)
BY OutputAssumption

\* One rule is tried on a line of the text: the events before it precede it.
Publishing(pieces, n, b, r, end) ==
  /\ events \in Seq(LogEvent) /\ eventHeard \in Seq(Piece) /\ EventsTrue
  /\ pieces \in Seq(Piece) /\ HasAt(eventHeard, n, pieces) /\ b \in 1 .. (Len(pieces) + 1)
  /\ r \in 1 .. Len(EventMarkers) /\ end = n + b
  /\ publishCoreLogEvent(pieces, b, r, end) /\ eventHeard' = eventHeard
  /\ \A i \in DOMAIN events : Precedes(events[i], [end |-> end, rule |-> r])

LEMMA Publishes ==
  ASSUME NEW pieces, NEW n, NEW b, NEW r, NEW end, Publishing(pieces, n, b, r, end)
  PROVE  /\ events' \in Seq(LogEvent) /\ EventsTrue'
         /\ \A i \in DOMAIN events : i \in DOMAIN events' /\ events'[i] = events[i]
         /\ \A i \in DOMAIN events' : \/ i \in DOMAIN events /\ events'[i] = events[i]
                                      \/ events'[i] = [end |-> end, rule |-> r]
         /\ LineBegins(eventHeard, n) /\ LineHolds(eventHeard, end, EventMarkers[r])
              => \E i \in DOMAIN events' : events'[i] = [end |-> end, rule |-> r]
<1> USE DEF Publishing
<1> DEFINE new == [end |-> end, rule |-> r]
           holds == LineHolds(pieces, b, EventMarkers[r])
<1>1. n \in Nat /\ end \in Nat /\ end = n + b /\ Len(pieces) \in Nat /\ Len(events) \in Nat
  BY DEF HasAt
<1>2. new \in LogEvent /\ new.end = end /\ new.rule = r
  BY <1>1 DEF LogEvent
<1>3. /\ holds => LineHolds(eventHeard, end, EventMarkers[r])
      /\ LineBegins(eventHeard, n) /\ LineHolds(eventHeard, end, EventMarkers[r]) => holds
  BY LineShift
<1>4. events' = IF holds THEN Append(events, new) ELSE events
  BY DEF publishCoreLogEvent
<1>5. DOMAIN events = 1 .. Len(events)
  OBVIOUS
<1>6. \A i \in DOMAIN events : Precedes(events[i], new)
  OBVIOUS
<1> HIDE DEF new, holds
<1>7. CASE ~holds
  <2>1. events' = events
    BY <1>4, <1>7
  <2>2. EventsTrue'
    BY <2>1 DEF EventsTrue
  <2>3. QED
    BY <1>3, <1>7, <2>1, <2>2
<1>8. CASE holds
  <2> DEFINE k == Len(events) + 1
  <2>1. /\ events' = Append(events, new) /\ events' \in Seq(LogEvent) /\ Len(events') = k
        /\ \A i \in 1 .. Len(events) : events'[i] = events[i]
        /\ events'[k] = new
    <3>1. events' = Append(events, new)
      BY <1>4, <1>8
    <3>2. QED
      BY <1>2, <3>1, AppendProperties
  <2>2. DOMAIN events' = 1 .. k /\ k \in DOMAIN events'
    BY <1>1, <2>1
  <2>3. \A i \in DOMAIN events : i \in DOMAIN events' /\ events'[i] = events[i]
    BY <1>1, <1>5, <2>1, <2>2
  <2>4. \A i \in DOMAIN events' : i \in DOMAIN events \/ i = k
    BY <1>1, <1>5, <2>2
  <2> HIDE DEF k
  <2>5. \A i \in DOMAIN events' : (i \in DOMAIN events /\ events'[i] = events[i]) \/ events'[i] = new
    BY <2>1, <2>3, <2>4
  <2>6. ASSUME NEW i \in DOMAIN events'
        PROVE  LineHolds(eventHeard', events'[i].end, EventMarkers[events'[i].rule])
    BY <1>2, <1>3, <1>8, <2>5 DEF EventsTrue
  <2>7. ASSUME NEW i \in DOMAIN events', NEW j \in DOMAIN events', i < j
        PROVE  Precedes(events'[i], events'[j])
    <3>1. CASE j = k
      <4>1. i \in DOMAIN events /\ events'[j] = new
        BY <2>1, <2>4, <2>7, <3>1, <1>1, <1>5 DEF k
      <4>2. QED
        BY <1>6, <2>3, <4>1
    <3>2. CASE j # k
      <4>1. j \in DOMAIN events /\ i \in DOMAIN events
        BY <1>1, <1>5, <2>2, <2>4, <2>7, <3>2 DEF k
      <4>2. Precedes(events[i], events[j])
        BY <2>7, <4>1 DEF EventsTrue
      <4>3. QED
        BY <2>3, <4>1, <4>2
    <3>3. QED
      BY <3>1, <3>2
  <2>8. EventsTrue'
    BY <2>6, <2>7 DEF EventsTrue
  <2>9. QED
    BY <2>1, <2>2, <2>3, <2>5, <2>8 DEF new
<1>9. QED
  BY <1>7, <1>8 DEF new

LEMMA EventLockHears ==
  ASSUME HeardInv, NEW s \in Stream, EventLock(s)
  PROVE  EventInv'
<1>1. CASE ~active
  <2>1. UNCHANGED eventVars /\ clipped' = clipped
    BY <1>1 DEF EventLock, LockIdle, eventVars
  <2>2. QED
    BY <2>1, EventStill DEF HeardInv
<1>2. CASE active
  <2>1. /\ eventMutex = "free" /\ EventTakes(s) /\ stopper = "no" /\ stopper' = "no"
        /\ writeRule' = writeRule /\ stopLine' = stopLine /\ stopRule' = stopRule
        /\ events' = events
    BY <1>2 DEF EventLock, LockIdle, HeardInv, WatcherQuiet
  <2>2. PICK h : h = eventHeard
    OBVIOUS
  <2>3. PICK c : c = chunk[s]
    OBVIOUS
  <2>4. PICK g : g = eventHeard \o chunk[s]
    OBVIOUS
  <2>5. PICK u : u = eventLine \o chunk[s]
    OBVIOUS
  <2>6. PICK n : n = Len(eventHeard) - Len(eventLine)
    OBVIOUS
  <2>7. PICK line : line = Clip(Unfinished(u))
    OBVIOUS
  <2>8. PICK e : e = n + LastEnd(u)
    OBVIOUS
  <2>9. /\ eventLine' = line /\ eventHeard' = g /\ todo' = Finished(u) /\ dealt' = n
        /\ eventMutex' = "writer"
        /\ ("events" \notin clipped' => "events" \notin clipped /\ ~(Len(Unfinished(u)) > LineLimit))
    BY <2>1, <2>4, <2>5, <2>6, <2>7 DEF EventTakes, ClippedBy
  <2>10. /\ h \in Seq(Piece) /\ eventLine \in Seq(Piece) /\ c \in Seq(Piece) /\ Len(h) \in Nat
         /\ Len(eventLine) \in Nat /\ HasAt(h, n, eventLine) /\ todo = <<>> /\ writeRule = 1
         /\ stopLine = <<>> /\ stopRule = 1 /\ events \in Seq(LogEvent)
    BY <2>1, <2>2, <2>3, <2>6
    DEF HeardInv, OutputTyped, EventInv, EventTyped, EventBuffered, EventPhases, LogEvent
  <2>11. BufferedStep(h, eventLine, n, g, u, line, e)
    BY <2>2, <2>3, <2>4, <2>5, <2>6, <2>7, <2>8, <2>10, BufferStep
  <2>12. /\ g \in Seq(Piece) /\ u \in Seq(Piece) /\ line \in Seq(Piece) /\ n \in Nat
         /\ Len(g) \in Nat /\ Len(line) \in Nat /\ HasAt(g, 0, h) /\ Len(h) <= Len(g)
         /\ HasAt(g, Len(g) - Len(line), line) /\ HasAt(g, n, todo')
         /\ Len(todo') = LastEnd(u) /\ e \in Nat /\ e + Len(line) <= Len(g)
         /\ \A k \in (e + 1) .. Len(g) : g[k] # "nl"
    BY <2>9, <2>11 DEF BufferedStep, HasAt
  <2>13. todo' \in Seq(Piece) /\ (todo' # <<>> => todo'[Len(todo')] = "nl")
    BY <2>9, <2>12, SplitIs
  <2>14. /\ dealt \in Nat /\ dealt + Len(eventLine) <= Len(h) /\ dealt <= n
         /\ ("events" \notin clipped => dealt = n /\ LineBegins(h, n))
    <3>1. /\ dealt \in Nat /\ dealt + Len(<<>>) + Len(eventLine) + Len(<<>>) <= Len(h)
          /\ ("events" \notin clipped =>
                /\ LineBegins(h, dealt)
                /\ dealt + Len(<<>>) + Len(eventLine) + Len(<<>>) = Len(h))
      BY <2>1, <2>2, <2>10 DEF HeardInv, EventInv, EventBuffered, HasAt
    <3>2. dealt \in Nat /\ Len(<<>>) = 0
      BY <3>1
    <3>3. QED
      BY <2>2, <2>6, <2>10, <3>1, <3>2
  <2>15. ASSUME "events" \notin clipped'
         PROVE  LineBegins(g, n) /\ e + Len(line) = Len(g) /\ dealt = n
    BY <2>9, <2>11, <2>14, <2>15 DEF BufferedStep
  <2>16. dealt' + Len(todo') = e /\ Len(<<>>) = 0
    BY <2>8, <2>9, <2>12
  <2>17. EventTyped'
    BY <2>1, <2>9, <2>10, <2>12, <2>13, RuleCount DEF HeardInv, EventInv, EventTyped
  <2>18. EventBuffered'
    <3>1. HasAt(g, Len(g) - Len(<<>>), <<>>)
      BY <2>12, <2>16 DEF HasAt
    <3>2. dealt' + Len(todo') + Len(line) + Len(<<>>) = e + Len(line)
      BY <2>12, <2>16
    <3>3. QED
      BY <2>1, <2>9, <2>10, <2>12, <2>15, <2>16, <3>1, <3>2 DEF EventBuffered
  <2>19. EventPhases'
    BY <2>1, <2>9, <2>10, <2>13 DEF EventPhases
  <2>20. ASSUME NEW i \in DOMAIN events PROVE events[i].end \in Nat /\ events[i].end <= dealt
    <3>1. events[i] \in LogEvent /\ Tried(events[i].end, events[i].rule)
      BY <2>10 DEF HeardInv, EventInv, TriedTrue
    <3>2. QED
      BY <2>1, <2>10, <3>1 DEF Tried, LogEvent
  <2>21. TriedTrue'
    <3>1. ASSUME NEW i \in DOMAIN events PROVE Tried(events[i].end, events[i].rule)'
      BY <2>1, <2>9, <2>12, <2>14, <2>20 DEF Tried
    <3>2. ASSUME NEW i \in DOMAIN events
          PROVE  LineHolds(g, events[i].end, EventMarkers[events[i].rule])
      <4>1. LineHolds(h, events[i].end, EventMarkers[events[i].rule])
        BY <2>2 DEF HeardInv, EventInv, TriedTrue, EventsTrue
      <4>2. events[i].end \in Nat /\ events[i].end <= Len(h) + 1
        BY <2>10, <2>14, <2>20
      <4>3. QED
        BY <2>10, <2>12, <4>1, <4>2, LineGrows
    <3>3. EventsTrue'
      BY <2>1, <2>9, <3>2 DEF HeardInv, EventInv, TriedTrue, EventsTrue
    <3>4. QED
      BY <2>1, <3>1, <3>3 DEF TriedTrue
  <2>22. TriedComplete'
    <3>1. SUFFICES ASSUME "events" \notin clipped', NEW b \in Ends(g) \cup {Len(g) + 1},
                          NEW r \in DOMAIN EventMarkers, Tried(b, r)',
                          LineHolds(g, b, EventMarkers[r])
                   PROVE  \E i \in DOMAIN events : events[i] = [end |-> b, rule |-> r]
      BY <2>1, <2>9 DEF TriedComplete
    <3>2. r \in 1 .. Len(EventMarkers)
      BY RuleCount
    <3>3. b <= n
      BY <2>1, <2>9, <2>10, <3>1, <3>2, RuleCount DEF Tried
    <3>4. b \in 1 .. Len(h) /\ b \in 1 .. Len(g) /\ g[b] = "nl"
      <4>1. DOMAIN g = 1 .. Len(g) /\ b <= Len(h)
        BY <2>6, <2>2, <2>10, <2>12, <3>3, <3>1 DEF Ends
      <4>2. QED
        BY <2>10, <2>12, <4>1 DEF Ends
    <3>5. b \in Ends(h)
      <4>1. h[b] = "nl" /\ DOMAIN h = 1 .. Len(h)
        BY <2>10, <2>12, <3>4 DEF HasAt
      <4>2. QED
        BY <3>4, <4>1 DEF Ends
    <3>6. LineHolds(h, b, EventMarkers[r])
      <4>1. b \in Nat /\ b <= Len(h) + 1
        BY <2>10, <3>4
      <4>2. QED
        BY <2>10, <2>12, <3>1, <4>1, LineGrows
    <3>7. "events" \notin clipped /\ Tried(b, r)
      BY <2>9, <2>15, <3>1, <3>3 DEF Tried
    <3>8. QED
      BY <2>2, <3>5, <3>6, <3>7 DEF HeardInv, EventInv, TriedComplete
  <2>23. QED
    BY <2>17, <2>18, <2>19, <2>21, <2>22 DEF EventInv
<1>3. QED
  BY <1>1, <1>2

\* The first of the lines that Write has still to publish.
LEMMA TodoIs ==
  ASSUME EventInv, todo # <<>>
  PROVE  /\ todo \in Seq(Piece) /\ eventHeard \in Seq(Piece) /\ dealt \in Nat
         /\ Len(todo) \in Nat /\ Len(eventHeard) \in Nat /\ HasAt(eventHeard, dealt, todo)
         /\ dealt + Len(todo) <= Len(eventHeard) /\ todo[Len(todo)] = "nl" /\ Len(todo) # 0
         /\ FirstEnd(todo) \in 1 .. Len(todo) /\ todo[FirstEnd(todo)] = "nl"
         /\ \A k \in 1 .. (FirstEnd(todo) - 1) : todo[k] # "nl"
         /\ stopper \in {"no", "swapped"} /\ stopLine = <<>> /\ stopRule = 1
         /\ events \in Seq(LogEvent) /\ writeRule \in 1 .. (Len(EventMarkers) + 1)
<1>1. /\ todo \in Seq(Piece) /\ eventHeard \in Seq(Piece) /\ Len(todo) \in Nat
      /\ Len(eventHeard) \in Nat /\ events \in Seq(LogEvent)
      /\ writeRule \in 1 .. (Len(EventMarkers) + 1)
  BY DEF EventInv, EventTyped, LogEvent
<1>2. /\ HasAt(eventHeard, dealt, todo) /\ dealt \in Nat
      /\ dealt + Len(todo) <= Len(eventHeard)
  BY DEF EventInv, EventBuffered, HasAt
<1>3. /\ todo[Len(todo)] = "nl" /\ stopper \in {"no", "swapped"} /\ stopLine = <<>>
      /\ stopRule = 1
  BY DEF EventInv, EventPhases, EventTyped
<1>4. Len(todo) # 0
  BY <1>1
<1>5. Ends(todo) # {}
  <2>1. Len(todo) \in DOMAIN todo
    BY <1>1, <1>4
  <2>2. QED
    BY <1>3, <2>1 DEF Ends
<1>6. QED
  BY <1>1, <1>2, <1>3, <1>4, <1>5, FirstEndIs

LEMMA PublishRuleHears ==
  ASSUME EventInv, NEW s \in Stream, PublishRule(s)
  PROVE  EventInv'
<1>1. PICK f : f = FirstEnd(todo)
  OBVIOUS
<1>2. PICK w : w = writeRule
  OBVIOUS
<1>3. /\ todo # <<>> /\ w <= Len(EventMarkers) /\ publishCoreLogEvent(todo, f, w, dealt + f)
      /\ writeRule' = w + 1 /\ eventMutex' = eventMutex /\ todo' = todo /\ dealt' = dealt
      /\ eventLine' = eventLine /\ stopper' = stopper /\ stopLine' = stopLine
      /\ stopRule' = stopRule /\ eventHeard' = eventHeard /\ clipped' = clipped
  BY <1>1, <1>2 DEF PublishRule, EventIdle
<1>4. /\ todo \in Seq(Piece) /\ eventHeard \in Seq(Piece) /\ dealt \in Nat
      /\ Len(todo) \in Nat /\ HasAt(eventHeard, dealt, todo) /\ f \in 1 .. Len(todo)
      /\ f \in 1 .. (Len(todo) + 1) /\ stopper \in {"no", "swapped"}
      /\ events \in Seq(LogEvent) /\ w \in 1 .. Len(EventMarkers) /\ w \in Nat
      /\ dealt + f \in Nat /\ dealt < dealt + f
  <2>1. /\ todo \in Seq(Piece) /\ eventHeard \in Seq(Piece) /\ dealt \in Nat
        /\ Len(todo) \in Nat /\ HasAt(eventHeard, dealt, todo) /\ f \in 1 .. Len(todo)
        /\ stopper \in {"no", "swapped"} /\ events \in Seq(LogEvent)
        /\ w \in 1 .. (Len(EventMarkers) + 1)
    BY <1>1, <1>2, <1>3, TodoIs
  <2>2. QED
    BY <1>3, <2>1, RuleCount
<1>5. ASSUME NEW i \in DOMAIN events
      PROVE  /\ events[i].end \in Nat /\ events[i].rule \in Nat
             /\ (events[i].end <= dealt \/ (events[i].end = dealt + f /\ events[i].rule < w))
  <2>1. events[i] \in LogEvent /\ Tried(events[i].end, events[i].rule)
    BY <1>4 DEF EventInv, TriedTrue
  <2>2. events[i].end \in Nat /\ events[i].rule \in Nat
    BY <2>1, RuleCount DEF LogEvent
  <2>3. QED
    BY <1>1, <1>2, <1>4, <2>1, <2>2 DEF Tried
<1>6. ASSUME NEW i \in DOMAIN events
      PROVE  Precedes(events[i], [end |-> dealt + f, rule |-> w])
  BY <1>4, <1>5 DEF Precedes
<1>7. /\ events' \in Seq(LogEvent) /\ EventsTrue'
      /\ \A i \in DOMAIN events : i \in DOMAIN events' /\ events'[i] = events[i]
      /\ \A i \in DOMAIN events' : \/ i \in DOMAIN events /\ events'[i] = events[i]
                                   \/ events'[i] = [end |-> dealt + f, rule |-> w]
      /\ (LineBegins(eventHeard, dealt) /\ LineHolds(eventHeard, dealt + f, EventMarkers[w])
            => \E i \in DOMAIN events' : events'[i] = [end |-> dealt + f, rule |-> w])
  <2>1. EventsTrue
    BY DEF EventInv, TriedTrue
  <2>2. PICK end : end = dealt + f
    OBVIOUS
  <2>3. /\ publishCoreLogEvent(todo, f, w, end)
        /\ \A i \in DOMAIN events : Precedes(events[i], [end |-> end, rule |-> w])
    BY <1>3, <1>6, <2>2
  <2>4. QED
    <3>1. Publishing(todo, dealt, f, w, end)
      BY <1>3, <1>4, <2>1, <2>2, <2>3 DEF Publishing
    <3>2. QED
      BY <2>2, <3>1, Publishes
<1>8. EventTyped'
  <2>1. w + 1 \in 1 .. (Len(EventMarkers) + 1)
    BY <1>4, RuleCount
  <2>2. events' \in Seq([end: Nat, rule: 1 .. Len(EventMarkers)])
    BY <1>7 DEF LogEvent
  <2>3. QED
    BY <1>3, <2>1, <2>2 DEF EventInv, EventTyped
<1>9. EventBuffered' /\ EventPhases'
  BY <1>3 DEF EventInv, EventBuffered, EventPhases
<1>10. TriedTrue'
  <2>1. ASSUME NEW i \in DOMAIN events' PROVE Tried(events[i].end, events[i].rule)'
    <3>1. CASE i \in DOMAIN events /\ events'[i] = events[i]
      <4>1. events[i].rule < w => events[i].rule < w + 1
        BY <1>4, <1>5, <3>1
      <4>2. \/ events[i].end <= dealt
            \/ events[i].end = dealt + FirstEnd(todo) /\ events[i].rule < w + 1
        BY <1>1, <1>5, <3>1, <4>1
      <4>3. QED
        BY <1>3, <3>1, <4>2 DEF Tried
    <3>2. CASE events'[i] = [end |-> dealt + f, rule |-> w]
      <4>1. events'[i].end = dealt + f /\ events'[i].rule = w /\ w < w + 1
        BY <1>4, <3>2
      <4>2. QED
        BY <1>1, <1>3, <4>1 DEF Tried
    <3>3. QED
      BY <1>7, <3>1, <3>2
  <2>2. QED
    BY <1>7, <2>1 DEF TriedTrue
<1>11. TriedComplete'
  <2>1. SUFFICES ASSUME "events" \notin clipped,
                        NEW b \in Ends(eventHeard) \cup {Len(eventHeard) + 1},
                        NEW r \in DOMAIN EventMarkers, Tried(b, r)',
                        LineHolds(eventHeard, b, EventMarkers[r])
                 PROVE  \E i \in DOMAIN events' : events'[i] = [end |-> b, rule |-> r]
    BY <1>3 DEF TriedComplete
  <2>2. r \in Nat
    BY RuleCount
  <2>3. CASE Tried(b, r)
    <3>1. PICK i \in DOMAIN events : events[i] = [end |-> b, rule |-> r]
      BY <2>1, <2>3 DEF EventInv, TriedComplete
    <3>2. QED
      BY <1>7, <3>1
  <2>4. CASE b = dealt + f /\ r = w
    <3>1. LineBegins(eventHeard, dealt)
      BY <2>1 DEF EventInv, EventBuffered
    <3>2. QED
      BY <1>7, <2>1, <2>4, <3>1
  <2>5. Tried(b, r) \/ (b = dealt + f /\ r = w)
    BY <1>1, <1>2, <1>3, <1>4, <2>1, <2>2 DEF Tried
  <2>6. QED
    BY <2>3, <2>4, <2>5
<1>12. QED
  BY <1>8, <1>9, <1>10, <1>11 DEF EventInv

LEMMA PublishLineHears ==
  ASSUME EventInv, NEW s \in Stream, PublishLine(s)
  PROVE  EventInv'
<1>1. PICK f : f = FirstEnd(todo)
  OBVIOUS
<1>2. PICK t : t = SubSeq(todo, f + 1, Len(todo))
  OBVIOUS
<1>3. /\ todo # <<>> /\ writeRule > Len(EventMarkers) /\ todo' = t /\ dealt' = dealt + f
      /\ writeRule' = 1 /\ eventMutex' = eventMutex /\ events' = events
      /\ eventLine' = eventLine /\ stopper' = stopper /\ stopLine' = stopLine
      /\ stopRule' = stopRule /\ eventHeard' = eventHeard /\ clipped' = clipped
  BY <1>1, <1>2 DEF PublishLine, EventIdle
<1>4. /\ todo \in Seq(Piece) /\ eventHeard \in Seq(Piece) /\ dealt \in Nat
      /\ Len(todo) \in Nat /\ Len(eventHeard) \in Nat /\ HasAt(eventHeard, dealt, todo)
      /\ dealt + Len(todo) <= Len(eventHeard) /\ todo[Len(todo)] = "nl"
      /\ f \in 1 .. Len(todo) /\ todo[f] = "nl"
      /\ \A k \in 1 .. (f - 1) : todo[k] # "nl"
      /\ stopper \in {"no", "swapped"} /\ events \in Seq(LogEvent)
      /\ writeRule \in 1 .. (Len(EventMarkers) + 1) /\ stopLine = <<>> /\ stopRule = 1
  BY <1>1, <1>3, TodoIs
<1>5. /\ t \in Seq(Piece) /\ Len(t) = Len(todo) - f /\ f \in Nat /\ Len(t) \in Nat
      /\ \A k \in 1 .. Len(t) : t[k] = todo[f + k]
  BY <1>2, <1>4
<1>6. /\ (dealt + f) + Len(t) = dealt + Len(todo) /\ dealt + f \in Nat
  BY <1>4, <1>5
<1>7. HasAt(eventHeard, dealt + f, t)
  <2>1. HasAt(todo, f, t)
    BY <1>4, <1>5 DEF HasAt
  <2>2. QED
    BY <1>4, <1>5, <2>1, HasAtThrough
<1>8. LineBegins(eventHeard, dealt + f)
  BY <1>4 DEF HasAt, LineBegins
<1>9. t # <<>> => t[Len(t)] = "nl"
  <2>1. SUFFICES ASSUME t # <<>> PROVE t[Len(t)] = "nl"
    OBVIOUS
  <2>2. Len(t) # 0
    BY <1>5, <2>1
  <2>3. Len(t) \in 1 .. Len(t) /\ f + Len(t) = Len(todo)
    BY <1>4, <1>5, <2>2
  <2>4. QED
    BY <1>4, <1>5, <2>3
<1>10. EventTyped'
  BY <1>3, <1>5, RuleCount DEF EventInv, EventTyped
<1>11. EventBuffered'
  <2>1. /\ dealt + Len(todo) + Len(eventLine) + Len(stopLine)
             = (dealt + f) + Len(t) + Len(eventLine) + Len(stopLine)
        /\ dealt + Len(todo) + 1 = (dealt + f) + Len(t) + 1
    BY <1>6
  <2>2. QED
    BY <1>3, <1>7, <1>8, <2>1 DEF EventInv, EventBuffered
<1>12. EventPhases'
  BY <1>3, <1>4, <1>9 DEF EventInv, EventPhases
<1>13. ASSUME NEW i \in DOMAIN events PROVE Tried(events[i].end, events[i].rule)'
  <2>1. events[i] \in LogEvent /\ Tried(events[i].end, events[i].rule)
    BY <1>4 DEF EventInv, TriedTrue
  <2>2. events[i].end \in Nat
    BY <2>1 DEF LogEvent
  <2>3. events[i].end <= dealt \/ events[i].end = dealt + f
    BY <1>1, <1>4, <2>1 DEF Tried
  <2>4. events[i].end <= dealt + f
    <3>1. dealt \in Nat /\ f \in Nat
      BY <1>4, <1>5
    <3>2. QED
      BY <2>2, <2>3, <3>1
  <2>5. QED
    BY <1>3, <2>4 DEF Tried
<1>14. TriedTrue'
  BY <1>3, <1>13 DEF EventInv, TriedTrue, EventsTrue
<1>15. TriedComplete'
  <2>1. SUFFICES ASSUME "events" \notin clipped,
                        NEW b \in Ends(eventHeard) \cup {Len(eventHeard) + 1},
                        NEW r \in DOMAIN EventMarkers, Tried(b, r)',
                        LineHolds(eventHeard, b, EventMarkers[r])
                 PROVE  \E i \in DOMAIN events : events[i] = [end |-> b, rule |-> r]
    BY <1>3 DEF TriedComplete
  <2>2. r \in 1 .. Len(EventMarkers) /\ r < writeRule
    BY <1>3, <1>4, RuleCount
  <2>3. b <= dealt + f
    BY <1>3, <1>4, <2>1, <2>2, RuleCount DEF Tried
  <2>4. b \in Nat
    BY <1>4 DEF Ends
  <2>5. Tried(b, r)
    <3>1. CASE b <= dealt
      BY <3>1 DEF Tried
    <3>2. CASE ~(b <= dealt)
      <4>1. b # Len(eventHeard) + 1
        BY <1>4, <1>5, <1>6, <2>3
      <4>2. eventHeard[b] = "nl"
        BY <4>1 DEF Ends
      <4>3. b - dealt \in 1 .. f /\ dealt + (b - dealt) = b /\ b - dealt \in 1 .. Len(todo)
        BY <1>4, <1>5, <2>3, <2>4, <3>2
      <4>4. todo[b - dealt] = "nl"
        BY <1>4, <4>2, <4>3 DEF HasAt
      <4>5. b - dealt = f
        <5>1. b - dealt \notin 1 .. (f - 1)
          BY <1>4, <4>4
        <5>2. QED
          BY <1>5, <4>3, <5>1
      <4>6. b = dealt + f
        BY <1>4, <1>5, <2>4, <4>5
      <4>7. QED
        BY <1>1, <1>3, <2>2, <4>6 DEF Tried
    <3>3. QED
      BY <3>1, <3>2
  <2>6. QED
    BY <2>1, <2>5 DEF EventInv, TriedComplete
<1>16. QED
  BY <1>10, <1>11, <1>12, <1>14, <1>15 DEF EventInv

LEMMA UnlockHears ==
  ASSUME EventInv, NEW s \in Stream, EventUnlock(s)
  PROVE  EventInv'
<1>1. /\ todo = <<>> /\ todo' = todo /\ dealt' = dealt /\ writeRule' = writeRule
      /\ events' = events /\ eventLine' = eventLine /\ stopper' = stopper
      /\ stopLine' = stopLine /\ stopRule' = stopRule /\ eventHeard' = eventHeard
      /\ clipped' = clipped
  BY DEF EventUnlock, EventIdle
<1>2. EventTyped' /\ EventBuffered' /\ EventPhases'
  BY <1>1 DEF EventInv, EventTyped, EventBuffered, EventPhases
<1>3. TriedTrue' /\ TriedComplete'
  BY <1>1 DEF EventInv, TriedTrue, TriedComplete, Tried, EventsTrue
<1>4. QED
  BY <1>2, <1>3 DEF EventInv

LEMMA StopSwapsHears ==
  ASSUME EventInv, StopSwaps
  PROVE  EventInv'
<1>1. /\ todo' = todo /\ dealt' = dealt /\ writeRule' = writeRule /\ eventMutex' = eventMutex
      /\ events' = events /\ eventLine' = eventLine /\ stopper = "no" /\ stopper' = "swapped"
      /\ stopLine' = stopLine /\ stopRule' = stopRule /\ eventHeard' = eventHeard
      /\ clipped' = clipped
  BY DEF StopSwaps, StopIdle
<1>2. EventTyped' /\ EventBuffered' /\ EventPhases'
  BY <1>1 DEF EventInv, EventTyped, EventBuffered, EventPhases
<1>3. TriedTrue' /\ TriedComplete'
  BY <1>1 DEF EventInv, TriedTrue, TriedComplete, Tried, EventsTrue
<1>4. QED
  BY <1>2, <1>3 DEF EventInv

\* What the parts of Stop have in common.
LEMMA StopIs ==
  ASSUME EventInv
  PROVE  /\ eventHeard \in Seq(Piece) /\ Len(eventHeard) \in Nat /\ dealt \in Nat
         /\ eventLine \in Seq(Piece) /\ Len(eventLine) \in Nat
         /\ stopLine \in Seq(Piece) /\ Len(stopLine) \in Nat /\ events \in Seq(LogEvent)
         /\ stopRule \in 1 .. (Len(EventMarkers) + 1) /\ Len(<<>>) = 0
         /\ HasAt(eventHeard, Len(eventHeard) - Len(stopLine), stopLine)
         /\ HasAt(eventHeard, Len(eventHeard), <<>>) /\ dealt <= Len(eventHeard)
<1>1. /\ eventHeard \in Seq(Piece) /\ Len(eventHeard) \in Nat
      /\ eventLine \in Seq(Piece) /\ Len(eventLine) \in Nat
      /\ stopLine \in Seq(Piece) /\ Len(stopLine) \in Nat /\ events \in Seq(LogEvent)
      /\ stopRule \in 1 .. (Len(EventMarkers) + 1) /\ Len(todo) \in Nat /\ Len(<<>>) = 0
  BY DEF EventInv, EventTyped, LogEvent
<1>2. /\ HasAt(eventHeard, Len(eventHeard) - Len(stopLine), stopLine) /\ dealt \in Nat
      /\ dealt + Len(todo) <= Len(eventHeard)
  BY DEF EventInv, EventBuffered, HasAt
<1>3. HasAt(eventHeard, Len(eventHeard), <<>>)
  BY <1>1 DEF HasAt
<1>4. QED
  BY <1>1, <1>2, <1>3

LEMMA StopTakesHears ==
  ASSUME EventInv, StopTakes
  PROVE  EventInv'
<1>1. /\ todo' = todo /\ dealt' = dealt /\ writeRule' = writeRule /\ eventMutex' = eventMutex
      /\ events' = events /\ eventLine' = <<>> /\ stopper = "swapped" /\ stopper' = "taken"
      /\ stopLine' = eventLine /\ stopRule' = stopRule /\ eventHeard' = eventHeard
      /\ clipped' = clipped /\ eventMutex = "free"
  BY DEF StopTakes, StopIdle
<1>2. todo = <<>> /\ stopLine = <<>> /\ stopRule = 1
  BY <1>1 DEF EventInv, EventPhases
<1>3. EventTyped'
  BY <1>1 DEF EventInv, EventTyped
<1>4. EventBuffered'
  <2>1. /\ HasAt(eventHeard, dealt, <<>>) /\ Len(eventHeard) - Len(<<>>) = Len(eventHeard)
        /\ dealt + Len(<<>>) + Len(eventLine) + Len(<<>>)
             = dealt + Len(<<>>) + Len(<<>>) + Len(eventLine)
    BY <1>2, StopIs DEF EventInv, EventBuffered
  <2>2. HasAt(eventHeard, Len(eventHeard), <<>>)
    BY StopIs
  <2>3. QED
    BY <1>1, <1>2, <2>1, <2>2 DEF EventInv, EventBuffered
<1>5. EventPhases'
  BY <1>1, <1>2 DEF EventInv, EventPhases
<1>6. TriedTrue'
  BY <1>1 DEF EventInv, TriedTrue, Tried, EventsTrue
<1>7. TriedComplete'
  <2>1. \A b, r : r \in DOMAIN EventMarkers /\ Tried(b, r)' => Tried(b, r)
    BY <1>1, <1>2, RuleCount DEF Tried
  <2>2. QED
    BY <1>1, <2>1 DEF EventInv, TriedComplete
<1>8. QED
  BY <1>3, <1>4, <1>5, <1>6, <1>7 DEF EventInv

LEMMA StopPublishesHears ==
  ASSUME EventInv, StopPublishes
  PROVE  EventInv'
<1>1. PICK n : n = Len(eventHeard) - Len(stopLine)
  OBVIOUS
<1>2. PICK b : b = Len(stopLine) + 1
  OBVIOUS
<1>3. PICK w : w = stopRule
  OBVIOUS
<1>4. PICK end : end = Len(eventHeard) + 1
  OBVIOUS
<1>5. /\ w <= Len(EventMarkers) /\ publishCoreLogEvent(stopLine, b, w, end)
      /\ stopRule' = w + 1 /\ stopper = "taken" /\ stopper' = stopper /\ stopLine' = stopLine
      /\ todo' = todo /\ dealt' = dealt /\ writeRule' = writeRule /\ eventMutex' = eventMutex
      /\ eventLine' = eventLine /\ eventHeard' = eventHeard /\ clipped' = clipped
  BY <1>2, <1>3, <1>4 DEF StopPublishes, StopIdle
<1>6. todo = <<>> /\ eventLine = <<>>
  BY <1>5 DEF EventInv, EventPhases
<1>7. /\ eventHeard \in Seq(Piece) /\ Len(eventHeard) \in Nat /\ dealt \in Nat
      /\ stopLine \in Seq(Piece) /\ Len(stopLine) \in Nat /\ events \in Seq(LogEvent)
      /\ w \in 1 .. Len(EventMarkers) /\ w \in Nat /\ HasAt(eventHeard, n, stopLine)
      /\ dealt <= Len(eventHeard) /\ n \in Nat /\ b \in 1 .. (Len(stopLine) + 1)
      /\ end = n + b /\ dealt < end /\ end \in Nat
  <2>1. /\ eventHeard \in Seq(Piece) /\ Len(eventHeard) \in Nat /\ dealt \in Nat
        /\ stopLine \in Seq(Piece) /\ Len(stopLine) \in Nat /\ events \in Seq(LogEvent)
        /\ w \in 1 .. (Len(EventMarkers) + 1) /\ HasAt(eventHeard, n, stopLine)
        /\ dealt <= Len(eventHeard)
    BY <1>1, <1>3, StopIs
  <2>2. n \in Nat
    BY <2>1 DEF HasAt
  <2>3. w \in 1 .. Len(EventMarkers) /\ w \in Nat
    BY <1>5, <2>1, RuleCount
  <2>4. b \in 1 .. (Len(stopLine) + 1) /\ end = n + b /\ dealt < end /\ end \in Nat
    BY <1>1, <1>2, <1>4, <2>1
  <2>5. QED
    BY <2>1, <2>2, <2>3, <2>4
<1>8. ASSUME NEW i \in DOMAIN events
      PROVE  /\ events[i].end \in Nat /\ events[i].rule \in Nat
             /\ (events[i].end <= dealt \/ (events[i].end = end /\ events[i].rule < w))
  <2>1. events[i] \in LogEvent /\ Tried(events[i].end, events[i].rule)
    BY <1>7 DEF EventInv, TriedTrue
  <2>2. events[i].end \in Nat /\ events[i].rule \in Nat
    BY <2>1, RuleCount DEF LogEvent
  <2>3. QED
    BY <1>3, <1>4, <1>6, <2>1, <2>2 DEF Tried
<1>9. ASSUME NEW i \in DOMAIN events PROVE Precedes(events[i], [end |-> end, rule |-> w])
  BY <1>7, <1>8 DEF Precedes
<1>10. Publishing(stopLine, n, b, w, end)
  BY <1>5, <1>7, <1>9 DEF Publishing, EventInv, TriedTrue
<1>11. /\ events' \in Seq(LogEvent) /\ EventsTrue'
       /\ \A i \in DOMAIN events : i \in DOMAIN events' /\ events'[i] = events[i]
       /\ \A i \in DOMAIN events' : \/ i \in DOMAIN events /\ events'[i] = events[i]
                                    \/ events'[i] = [end |-> end, rule |-> w]
       /\ (LineBegins(eventHeard, n) /\ LineHolds(eventHeard, end, EventMarkers[w])
             => \E i \in DOMAIN events' : events'[i] = [end |-> end, rule |-> w])
  BY <1>10, Publishes
<1>12. EventTyped'
  <2>1. w + 1 \in 1 .. (Len(EventMarkers) + 1)
    BY <1>7, RuleCount
  <2>2. events' \in Seq([end: Nat, rule: 1 .. Len(EventMarkers)])
    BY <1>11 DEF LogEvent
  <2>3. QED
    BY <1>5, <2>1, <2>2 DEF EventInv, EventTyped
<1>13. EventBuffered' /\ EventPhases'
  BY <1>5 DEF EventInv, EventBuffered, EventPhases
<1>14. TriedTrue'
  <2>1. ASSUME NEW i \in DOMAIN events' PROVE Tried(events[i].end, events[i].rule)'
    <3>1. CASE i \in DOMAIN events /\ events'[i] = events[i]
      <4>1. events[i].rule < w => events[i].rule < w + 1
        BY <1>7, <1>8, <3>1
      <4>2. \/ events[i].end <= dealt
            \/ events[i].end = Len(eventHeard) + 1 /\ events[i].rule < w + 1
        BY <1>4, <1>8, <3>1, <4>1
      <4>3. QED
        BY <1>5, <3>1, <4>2 DEF Tried
    <3>2. CASE events'[i] = [end |-> end, rule |-> w]
      <4>1. events'[i].end = end /\ events'[i].rule = w /\ w < w + 1
        BY <1>7, <3>2
      <4>2. QED
        BY <1>4, <1>5, <4>1 DEF Tried
    <3>3. QED
      BY <1>11, <3>1, <3>2
  <2>2. QED
    BY <1>11, <2>1 DEF TriedTrue
<1>15. TriedComplete'
  <2>1. SUFFICES ASSUME "events" \notin clipped, NEW a \in Ends(eventHeard) \cup {end},
                        NEW r \in DOMAIN EventMarkers, Tried(a, r)',
                        LineHolds(eventHeard, a, EventMarkers[r])
                 PROVE  \E i \in DOMAIN events' : events'[i] = [end |-> a, rule |-> r]
    BY <1>4, <1>5 DEF TriedComplete
  <2>2. r \in Nat
    BY RuleCount
  <2>3. CASE Tried(a, r)
    <3>1. PICK i \in DOMAIN events : events[i] = [end |-> a, rule |-> r]
      BY <1>4, <2>1, <2>3 DEF EventInv, TriedComplete
    <3>2. QED
      BY <1>11, <3>1
  <2>4. CASE a = end /\ r = w
    <3>1. LineBegins(eventHeard, dealt)
          /\ dealt + Len(<<>>) + Len(<<>>) + Len(stopLine) = Len(eventHeard)
      BY <1>5, <1>6, <2>1 DEF EventInv, EventBuffered
    <3>2. dealt + Len(stopLine) = Len(eventHeard)
      <4>1. Len(<<>>) = 0
        OBVIOUS
      <4>2. QED
        BY <1>7, <3>1, <4>1
    <3>3. n = dealt
      <4>1. Len(eventHeard) - Len(stopLine) = dealt
        BY <1>7, <3>2
      <4>2. QED
        BY <1>1, <4>1
    <3>4. QED
      BY <1>11, <2>1, <2>4, <3>1, <3>3
  <2>5. Tried(a, r) \/ (a = end /\ r = w)
    BY <1>3, <1>4, <1>5, <1>6, <1>7, <2>1, <2>2 DEF Tried
  <2>6. QED
    BY <2>3, <2>4, <2>5
<1>16. QED
  BY <1>12, <1>13, <1>14, <1>15 DEF EventInv

LEMMA StopReturnsHears ==
  ASSUME EventInv, StopReturns
  PROVE  EventInv'
<1>1. /\ todo' = todo /\ dealt' = dealt /\ writeRule' = writeRule /\ eventMutex' = eventMutex
      /\ events' = events /\ eventLine' = eventLine /\ stopper = "taken" /\ stopper' = "done"
      /\ stopLine' = <<>> /\ stopRule' = stopRule /\ eventHeard' = eventHeard
      /\ clipped' = clipped /\ stopRule > Len(EventMarkers)
  BY DEF StopReturns, StopIdle
<1>2. todo = <<>> /\ eventLine = <<>>
  BY <1>1 DEF EventInv, EventPhases
<1>3. EventTyped'
  BY <1>1, StopIs DEF EventInv, EventTyped
<1>4. EventBuffered'
  <2>1. /\ HasAt(eventHeard, Len(eventHeard) - Len(<<>>), <<>>) /\ HasAt(eventHeard, dealt, <<>>)
        /\ dealt + Len(<<>>) + Len(<<>>) + Len(<<>>) <= Len(eventHeard)
    <3>1. /\ Len(<<>>) = 0 /\ dealt \in Nat /\ Len(eventHeard) \in Nat /\ dealt <= Len(eventHeard)
          /\ HasAt(eventHeard, Len(eventHeard), <<>>)
      BY StopIs
    <3>2. QED
      BY <1>2, <3>1 DEF EventInv, EventBuffered
  <2>2. QED
    BY <1>1, <1>2, <2>1 DEF EventInv, EventBuffered
<1>5. EventPhases'
  <2>1. stopRule = Len(EventMarkers) + 1
    BY <1>1, StopIs, RuleCount
  <2>2. QED
    BY <1>1, <1>2, <2>1 DEF EventInv, EventPhases
<1>6. TriedTrue' /\ TriedComplete'
  BY <1>1 DEF EventInv, TriedTrue, TriedComplete, Tried, EventsTrue
<1>7. QED
  BY <1>3, <1>4, <1>5, <1>6 DEF EventInv

LEMMA OutputTypedStep ==
  ASSUME OutputTyped, [OutputNext]_outputVars
  PROVE  OutputTyped'
<1> USE DEF OutputTyped
<1>1. CASE UNCHANGED <<text, chunk>>
  BY <1>1
<1>2. CASE CoreDies
  BY <1>2 DEF CoreDies
<1>3. ASSUME NEW s \in Stream, NEW n \in 1 .. MaxCut, ReadOutput(s, n)
      PROVE  OutputTyped'
  <2>1. /\ text[s] \in Seq(Piece) /\ Len(text[s]) \in Nat /\ n \in 1 .. Len(text[s])
    BY <1>3, OutputAssumption DEF ReadOutput
  <2>2. /\ SubSeq(text[s], 1, n) \in Seq(Piece)
        /\ SubSeq(text[s], n + 1, Len(text[s])) \in Seq(Piece)
    BY <2>1
  <2>3. QED
    BY <1>3, <2>2 DEF ReadOutput
<1>4. QED
  <2>1. CASE PostUpArrives \/ EnterSelect \/ EnterGrace \/ GraceEnds \/ TimesOut \/ WaitReturns
    BY <2>1, <1>1 DEF PostUpArrives, EnterSelect, EnterGrace, GraceEnds, TimesOut, WaitReturns,
                      EnterIdle, pumpVars
  <2>2. CASE StopSwaps \/ StopTakes \/ StopPublishes \/ StopReturns
    BY <2>2, <1>1 DEF StopSwaps, StopTakes, StopPublishes, StopReturns, StopIdle, pumpVars
  <2>3. ASSUME NEW s \in Stream, StartupWrite(s) \/ EventCheck(s) \/ EventLock(s)
        PROVE  OutputTyped'
    BY <2>3, <1>1 DEF StartupWrite, StartupTakes, EventCheck, EventLock, LockIdle
  <2>4. ASSUME NEW s \in Stream, PublishRule(s) \/ PublishLine(s) \/ EventUnlock(s)
        PROVE  OutputTyped'
    <3>1. EventIdle
      BY <2>4 DEF PublishRule, PublishLine, EventUnlock
    <3>2. QED
      BY <3>1, <1>1 DEF EventIdle
  <2>5. CASE UNCHANGED outputVars
    BY <2>5, <1>1 DEF outputVars, pumpVars
  <2>6. QED
    BY <1>2, <1>3, <2>1, <2>2, <2>3, <2>4, <2>5 DEF OutputNext

LEMMA HeardStep ==
  ASSUME HeardInv, [OutputNext]_outputVars
  PROVE  StartInv' /\ EventInv'
<1>1. StartInv /\ EventInv
  BY DEF HeardInv
<1>2. CASE UNCHANGED <<startVars, eventVars, clipped>>
  BY <1>1, <1>2, StartStill, EventStill
<1>3. ASSUME UNCHANGED startVars, clipped' = clipped, EventInv' PROVE StartInv' /\ EventInv'
  BY <1>1, <1>3, StartStill
<1>4. CASE PostUpArrives \/ EnterSelect \/ EnterGrace \/ GraceEnds \/ TimesOut \/ CoreDies
           \/ WaitReturns
  BY <1>2, <1>4 DEF PostUpArrives, EnterSelect, EnterGrace, GraceEnds, TimesOut, CoreDies,
                    WaitReturns, EnterIdle
<1>5. CASE StopSwaps \/ StopTakes \/ StopPublishes \/ StopReturns
  <2>1. UNCHANGED startVars /\ clipped' = clipped
    BY <1>5 DEF StopSwaps, StopTakes, StopPublishes, StopReturns, StopIdle
  <2>2. EventInv'
    BY <1>1, <1>5, StopSwapsHears, StopTakesHears, StopPublishesHears, StopReturnsHears
  <2>3. QED
    BY <1>3, <2>1, <2>2
<1>6. ASSUME NEW s \in Stream, (\E n \in 1 .. MaxCut : ReadOutput(s, n)) \/ EventCheck(s)
      PROVE  StartInv' /\ EventInv'
  BY <1>2, <1>6 DEF ReadOutput, EventCheck
<1>7. ASSUME NEW s \in Stream, StartupWrite(s) PROVE StartInv' /\ EventInv'
  <2>1. StartInv'
    BY <1>7, StartupHears
  <2>2. UNCHANGED eventVars /\ ("events" \in clipped' <=> "events" \in clipped)
    BY <1>7 DEF StartupWrite, StartupTakes, ClippedBy
  <2>3. QED
    BY <1>1, <2>1, <2>2, EventStill
<1>8. ASSUME NEW s \in Stream, EventLock(s) PROVE StartInv' /\ EventInv'
  <2>1. EventInv'
    BY <1>8, EventLockHears
  <2>2. UNCHANGED startVars /\ ("startup" \in clipped' <=> "startup" \in clipped)
    BY <1>8 DEF EventLock, EventTakes, LockIdle, ClippedBy
  <2>3. QED
    BY <1>1, <2>1, <2>2, StartStill
<1>9. ASSUME NEW s \in Stream, PublishRule(s) \/ PublishLine(s) \/ EventUnlock(s)
      PROVE  StartInv' /\ EventInv'
  <2>1. UNCHANGED startVars /\ clipped' = clipped
    BY <1>9 DEF PublishRule, PublishLine, EventUnlock, EventIdle
  <2>2. EventInv'
    BY <1>1, <1>9, PublishRuleHears, PublishLineHears, UnlockHears
  <2>3. QED
    BY <1>3, <2>1, <2>2
<1>10. CASE UNCHANGED outputVars
  BY <1>2, <1>10 DEF outputVars
<1>11. QED
  BY <1>4, <1>5, <1>6, <1>7, <1>8, <1>9, <1>10 DEF OutputNext

LEMMA HeardMeansOutputHeard ==
  ASSUME HeardInv
  PROVE  OutputHeard
<1>1. FatalHeard /\ EventsTrue
  BY DEF HeardInv, StartInv, EventInv, TriedTrue
<1>2. EventInv /\ TriedComplete
  BY DEF HeardInv, EventInv
<1>3. SUFFICES ASSUME "events" \notin clipped, todo = <<>>, stopper # "taken",
                      NEW b \in Ends(eventHeard)
                                  \cup (IF stopper = "done" THEN {Len(eventHeard) + 1} ELSE {}),
                      NEW r \in DOMAIN EventMarkers, LineHolds(eventHeard, b, EventMarkers[r])
               PROVE  \E i \in DOMAIN events : events[i] = [end |-> b, rule |-> r]
  BY <1>1 DEF OutputHeard, EventsComplete
<1>4. Tried(b, r)
  <2>1. CASE b \in Ends(eventHeard)
    <3>1. /\ eventHeard \in Seq(Piece) /\ Len(eventHeard) \in Nat /\ dealt \in Nat /\ Len(<<>>) = 0
      BY <1>2, StopIs
    <3>2. b \in 1 .. Len(eventHeard) /\ eventHeard[b] = "nl"
      BY <2>1, <3>1 DEF Ends
    <3>3. b \notin (dealt + Len(<<>>) + 1) .. Len(eventHeard)
      BY <1>2, <1>3, <3>2 DEF EventInv, EventBuffered
    <3>4. b <= dealt
      BY <3>1, <3>2, <3>3
    <3>5. QED
      BY <3>4 DEF Tried
  <2>2. CASE stopper = "done" /\ b = Len(eventHeard) + 1
    <3>1. stopRule = Len(EventMarkers) + 1
      BY <1>2, <2>2 DEF EventInv, EventPhases
    <3>2. r < stopRule
      BY <3>1, RuleCount
    <3>3. QED
      BY <2>2, <3>2 DEF Tried
  <2>3. QED
    BY <2>1, <2>2
<1>5. b \in Ends(eventHeard) \cup {Len(eventHeard) + 1}
  OBVIOUS
<1>6. QED
  BY <1>2, <1>3, <1>4, <1>5 DEF TriedComplete

LEMMA HeardInit ==
  ASSUME OutputInit
  PROVE  HeardInv
<1>1. Len(<<>>) = 0 /\ <<>> \in Seq(Piece) /\ Ends(<<>>) = {} /\ DOMAIN <<>> = {}
  BY DEF Ends
<1>2. OutputTyped /\ WatcherQuiet
  BY OutputAssumption DEF OutputInit, OutputTyped, WatcherQuiet
<1>3. HasAt(<<>>, 0, <<>>) /\ LineBegins(<<>>, 0) /\ 0 - 0 = 0
  BY <1>1 DEF HasAt, LineBegins
<1>4. StartInv
  BY <1>1, <1>3 DEF OutputInit, StartInv, StartBuffered, FatalHeard, Fatal
<1>5. EventTyped /\ EventBuffered /\ EventPhases
  BY <1>1, <1>3, RuleCount DEF OutputInit, EventTyped, EventBuffered, EventPhases
<1>6. TriedTrue
  BY <1>1 DEF OutputInit, TriedTrue, EventsTrue
<1>7. TriedComplete
  <2>1. SUFFICES ASSUME NEW b \in Ends(eventHeard) \cup {Len(eventHeard) + 1}, NEW r
                 PROVE  ~Tried(b, r)
    BY DEF TriedComplete
  <2>2. b = 1
    BY <1>1 DEF OutputInit
  <2>3. QED
    BY <2>2 DEF OutputInit, Tried
<1>8. QED
  BY <1>2, <1>4, <1>5, <1>6, <1>7 DEF HeardInv, EventInv

\* However the output is cut into chunks, of both streams and among whichever
\* steps of waitForStartup and of Stop: startupLogWatcher reports a fatal line as
\* soon as its marker is there and no other, and coreLogEventWatcher publishes an
\* event for each line and rule that match, once and in order, and no other.
THEOREM OutputAlwaysHeard == OutputSpec => []OutputHeard
<1>1. OutputInit => HeardInv
  BY HeardInit
<1>2. HeardInv /\ [OutputNext]_outputVars => HeardInv'
  BY OutputTypedStep, WatcherQuietStep, HeardStep DEF HeardInv
<1>3. HeardInv => OutputHeard
  BY HeardMeansOutputHeard
<1>4. QED
  BY <1>1, <1>2, <1>3, PTL DEF OutputSpec


-----------------------------------------------------------------------------
(***************************************************************************)
(* The log file.  First, runs of consecutive bytes.                        *)
(***************************************************************************)
LEMMA BytesType ==
  ASSUME NEW a \in Nat, NEW b \in Nat, a <= b
  PROVE  /\ Bytes(a, b) \in Seq(Nat) /\ Len(Bytes(a, b)) = b - a
         /\ \A i \in 1 .. (b - a) : Bytes(a, b)[i] = a + i
<1> DEFINE n == b - a
<1>1. n \in Nat /\ Bytes(a, b) = [i \in 1 .. n |-> a + i]
  BY DEF Bytes
<1>2. Bytes(a, b) \in [1 .. n -> Nat]
  BY <1>1
<1> HIDE DEF n
<1>3. Bytes(a, b) \in Seq(Nat) /\ Len(Bytes(a, b)) = n
  BY <1>1, <1>2
<1>4. QED
  BY <1>1, <1>3 DEF n

LEMMA BytesPart ==
  ASSUME NEW a \in Nat, NEW b \in Nat, a <= b,
         NEW i \in Nat \ {0}, NEW j \in Nat, i <= j + 1, j <= b - a
  PROVE  SubSeq(Bytes(a, b), i, j) = Bytes(a + i - 1, a + j)
<1>1. /\ Bytes(a, b) \in Seq(Nat) /\ Len(Bytes(a, b)) = b - a
      /\ \A k \in 1 .. (b - a) : Bytes(a, b)[k] = a + k
  BY BytesType
<1> DEFINE s == SubSeq(Bytes(a, b), i, j)
           t == Bytes(a + i - 1, a + j)
<1>2. /\ t \in Seq(Nat) /\ Len(t) = j - i + 1
      /\ \A k \in 1 .. (j - i + 1) : t[k] = a + i - 1 + k
  <2>1. a + i - 1 \in Nat /\ a + j \in Nat /\ a + i - 1 <= a + j
    OBVIOUS
  <2>2. (a + j) - (a + i - 1) = j - i + 1
    OBVIOUS
  <2>3. QED
    BY <2>1, <2>2, BytesType
<1>3. /\ s \in Seq(Nat) /\ Len(s) = j - i + 1
      /\ \A k \in 1 .. (j - i + 1) : s[k] = a + i - 1 + k
  <2>1. s \in Seq(Nat)
    <3>1. CASE i = j + 1
      BY <3>1, <1>1
    <3>2. CASE i <= j
      BY <3>2, <1>1
    <3>3. QED
      BY <3>1, <3>2
  <2>2. Len(s) = j - i + 1
    BY <1>1
  <2>3. ASSUME NEW k \in 1 .. (j - i + 1) PROVE s[k] = a + i - 1 + k
    <3>1. s[k] = Bytes(a, b)[i + k - 1]
      BY <1>1
    <3>2. i + k - 1 \in 1 .. (b - a)
      OBVIOUS
    <3>3. QED
      BY <3>1, <3>2, <1>1
  <2>4. QED
    BY <2>1, <2>2, <2>3
<1> HIDE DEF s, t
<1>4. s = t
  <2>1. \A k \in 1 .. Len(s) : s[k] = t[k]
    BY <1>2, <1>3
  <2>2. QED
    BY <1>2, <1>3, <2>1, SeqEqual
<1>5. QED
  BY <1>4 DEF s, t

LEMMA BytesJoin ==
  ASSUME NEW a \in Nat, NEW b \in Nat, NEW c \in Nat, a <= b, b <= c
  PROVE  Bytes(a, b) \o Bytes(b, c) = Bytes(a, c)
<1> DEFINE s == Bytes(a, b)
           t == Bytes(b, c)
           u == Bytes(a, c)
<1>1. /\ s \in Seq(Nat) /\ Len(s) = b - a /\ \A k \in 1 .. (b - a) : s[k] = a + k
      /\ t \in Seq(Nat) /\ Len(t) = c - b /\ \A k \in 1 .. (c - b) : t[k] = b + k
      /\ u \in Seq(Nat) /\ Len(u) = c - a /\ \A k \in 1 .. (c - a) : u[k] = a + k
  <2>1. s \in Seq(Nat) /\ Len(s) = b - a /\ \A k \in 1 .. (b - a) : s[k] = a + k
    BY BytesType
  <2>2. t \in Seq(Nat) /\ Len(t) = c - b /\ \A k \in 1 .. (c - b) : t[k] = b + k
    BY BytesType
  <2>3. a <= c
    OBVIOUS
  <2>4. u \in Seq(Nat) /\ Len(u) = c - a /\ \A k \in 1 .. (c - a) : u[k] = a + k
    BY <2>3, BytesType
  <2>5. QED
    BY <2>1, <2>2, <2>4
<1> HIDE DEF s, t, u
<1>2. s \o t \in Seq(Nat) /\ Len(s \o t) = c - a
  BY <1>1
<1>3. ASSUME NEW k \in 1 .. (c - a) PROVE (s \o t)[k] = u[k]
  <2>1. CASE k <= b - a
    <3>1. (s \o t)[k] = s[k]
      BY <1>1, <2>1
    <3>2. QED
      BY <3>1, <2>1, <1>1
  <2>2. CASE k > b - a
    <3>1. k \in 1 .. (Len(s) + Len(t)) /\ ~(k <= Len(s))
      BY <1>1, <2>2
    <3>2. (s \o t)[k] = t[k - Len(s)]
      BY <1>1, <3>1, ConcatProperties
    <3>3. k - (b - a) \in 1 .. (c - b)
      BY <2>2
    <3>4. t[k - (b - a)] = b + (k - (b - a))
      BY <3>3, <1>1
    <3>5. (s \o t)[k] = a + k
      BY <3>2, <3>4, <1>1
    <3>6. QED
      BY <3>5, <1>1
  <2>3. k <= b - a \/ k > b - a
    OBVIOUS
  <2>4. QED
    BY <2>1, <2>2, <2>3
<1>4. s \o t = u
  BY <1>1, <1>2, <1>3, SeqEqual
<1>5. QED
  BY <1>4 DEF s, t, u

-----------------------------------------------------------------------------
(***************************************************************************)
(* What a trim keeps.                                                      *)
(***************************************************************************)
\* A file that follows byte f begins with a line, or what some limit keeps lies
\* within one line.
Begins(f) ==
  \/ Newline(f)
  \/ \E m \in LogLimit : \A i \in 1 .. (Target(m) - 1) : ~Newline(f + i)

\* The file holds the bytes up to byte end, at least one if there are any.
Kept(file, end) ==
  \E f \in 0 .. end : file = Bytes(f, end) /\ (end > 0 => f < end) /\ Begins(f)

LEMMA TargetFits ==
  ASSUME NEW m \in LogLimit
  PROVE  Target(m) \in 1 .. m /\ m \in Nat \ {0}
BY LogAssumption DEF Target

LastBytes(file, t) == SubSeq(file, Len(file) - t + 1, Len(file))

\* A file that is too long is cut to its last bytes, and these to the lines that
\* begin among them.
LEMMA TailCut ==
  ASSUME NEW file \in Seq(Nat), NEW t \in Nat \ {0}, Len(file) > t
  PROVE  /\ LastBytes(file, t) \in Seq(Nat) /\ Len(LastBytes(file, t)) = t
         /\ \/ /\ readLogTail(file, t) = LastBytes(file, t)
               /\ \A i \in 1 .. (t - 1) : ~Newline(LastBytes(file, t)[i])
            \/ \E i \in 1 .. (t - 1) :
                 /\ Newline(LastBytes(file, t)[i])
                 /\ readLogTail(file, t) = SubSeq(LastBytes(file, t), i + 1, t)
<1> DEFINE tail == LastBytes(file, t)
           ends == {i \in 1 .. (t - 1) : Newline(tail[i])}
           first == CHOOSE i \in ends : \A j \in ends : i <= j
<1>1. Len(file) \in Nat /\ \A i \in (Len(file) - t + 1) .. Len(file) : file[i] \in Nat
  OBVIOUS
<1>2. tail \in Seq(Nat) /\ Len(tail) = t
  BY <1>1, SubSeqProperties DEF LastBytes
<1>3. ~(Len(file) <= t)
  BY <1>1
<1>4. CASE ends = {}
  <2>1. readLogTail(file, t) = tail
    BY <1>3, <1>4, Zenon DEF readLogTail, LastBytes
  <2>2. QED
    BY <1>2, <1>4, <2>1
<1>5. CASE ends # {}
  <2>1. readLogTail(file, t) = SubSeq(tail, first + 1, t)
    BY <1>3, <1>5, Zenon DEF readLogTail, LastBytes
  <2>2. ends \in SUBSET Nat /\ ends # {}
    BY <1>5
  <2>3. \E i \in ends : \A j \in ends : i <= j
    BY <2>2, LeastExists
  <2>4. first \in ends
    BY <2>3
  <2> HIDE DEF first
  <2>5. QED
    BY <1>2, <2>1, <2>4
<1>6. QED
  BY <1>4, <1>5

\* The end of any file is no longer than asked for.
LEMMA TailType ==
  ASSUME NEW file \in Seq(Nat), NEW t \in Nat \ {0}
  PROVE  readLogTail(file, t) \in Seq(Nat) /\ Len(readLogTail(file, t)) <= t
<1> DEFINE tail == LastBytes(file, t)
<1>1. CASE Len(file) <= t
  BY <1>1 DEF readLogTail
<1>2. CASE Len(file) > t
  <2>1. /\ tail \in Seq(Nat) /\ Len(tail) = t
        /\ \/ readLogTail(file, t) = tail
           \/ \E i \in 1 .. (t - 1) : readLogTail(file, t) = SubSeq(tail, i + 1, t)
    BY <1>2, TailCut
  <2> HIDE DEF tail
  <2>2. CASE readLogTail(file, t) = tail
    BY <2>1, <2>2
  <2>3. CASE \E i \in 1 .. (t - 1) : readLogTail(file, t) = SubSeq(tail, i + 1, t)
    <3>1. PICK i \in 1 .. (t - 1) : readLogTail(file, t) = SubSeq(tail, i + 1, t)
      BY <2>3
    <3>2. i + 1 \in Int /\ t \in Int /\ \A k \in (i + 1) .. t : tail[k] \in Nat
      BY <2>1
    <3>3. QED
      BY <3>1, <3>2, SubSeqProperties
  <2>4. QED
    BY <2>1, <2>2, <2>3
<1>3. Len(file) \in Nat
  OBVIOUS
<1>4. QED
  BY <1>1, <1>2, <1>3

\* A trim keeps the end of the output, from the beginning of a line if there is
\* one in what the limit keeps.
LEMMA TailKept ==
  ASSUME NEW end \in Nat, NEW file, Kept(file, end), NEW m \in LogLimit
  PROVE  file \in Seq(Nat) /\ Kept(readLogTail(file, Target(m)), end)
<1> DEFINE t == Target(m)
           tail == LastBytes(file, t)
<1>1. PICK f \in 0 .. end : file = Bytes(f, end) /\ (end > 0 => f < end) /\ Begins(f)
  BY DEF Kept
<1>2. t \in Nat \ {0} /\ f \in Nat /\ f <= end
  BY TargetFits
<1>3. /\ file \in Seq(Nat) /\ Len(file) = end - f
      /\ \A i \in 1 .. (end - f) : file[i] = f + i
  BY <1>1, <1>2, BytesType
<1> HIDE DEF t
<1>4. CASE Len(file) <= t
  <2>1. readLogTail(file, t) = file
    BY <1>4 DEF readLogTail
  <2>2. QED
    BY <2>1, <1>3 DEF t
<1>5. CASE Len(file) > t
  <2> DEFINE g == end - t
  <2>1. g \in 0 .. end /\ g < end
    BY <1>2, <1>3, <1>5
  <2>2. tail = Bytes(g, end)
    <3>1. /\ Len(file) - t + 1 \in Nat \ {0} /\ Len(file) \in Nat
          /\ Len(file) - t + 1 <= Len(file) + 1 /\ Len(file) <= end - f
      BY <1>2, <1>3, <1>5
    <3>2. f + (Len(file) - t + 1) - 1 = g /\ f + Len(file) = end
      BY <1>2, <1>3, <1>5
    <3>3. SubSeq(Bytes(f, end), Len(file) - t + 1, Len(file))
            = Bytes(f + (Len(file) - t + 1) - 1, f + Len(file))
      BY <1>2, <3>1, BytesPart, ZenonT(40)
    <3>4. QED
      BY <1>1, <3>2, <3>3 DEF LastBytes
  <2>3. /\ tail \in Seq(Nat) /\ Len(tail) = t
        /\ \/ /\ readLogTail(file, t) = tail
              /\ \A i \in 1 .. (t - 1) : ~Newline(tail[i])
           \/ \E i \in 1 .. (t - 1) :
                Newline(tail[i]) /\ readLogTail(file, t) = SubSeq(tail, i + 1, t)
    BY <1>2, <1>3, <1>5, TailCut
  <2>4. \A i \in 1 .. t : tail[i] = g + i
    <3>1. g \in Nat /\ end - g = t /\ g <= end
      BY <2>1, <1>2
    <3> HIDE DEF g
    <3>2. \A i \in 1 .. (end - g) : Bytes(g, end)[i] = g + i
      BY <3>1, BytesType
    <3>3. QED
      BY <2>2, <3>1, <3>2
  <2> HIDE DEF tail, g
  <2>5. CASE readLogTail(file, t) = tail /\ \A i \in 1 .. (t - 1) : ~Newline(tail[i])
    <3>1. \A i \in 1 .. (t - 1) : ~Newline(g + i)
      BY <2>4, <2>5, <1>2
    <3>2. Begins(g)
      BY <3>1 DEF Begins, t
    <3>3. QED
      BY <1>3, <2>1, <2>2, <2>5, <3>2 DEF Kept, t
  <2>6. CASE \E i \in 1 .. (t - 1) :
               Newline(tail[i]) /\ readLogTail(file, t) = SubSeq(tail, i + 1, t)
    <3>1. PICK i \in 1 .. (t - 1) :
                 Newline(tail[i]) /\ readLogTail(file, t) = SubSeq(tail, i + 1, t)
      BY <2>6
    <3>2. i \in Nat \ {0} /\ i < t /\ i \in 1 .. t /\ g \in Nat /\ end - g = t /\ g <= end
      BY <1>2, <2>1 DEF g
    <3>3. SubSeq(tail, i + 1, t) = Bytes(g + i, end)
      <4>1. SubSeq(Bytes(g, end), i + 1, t) = Bytes(g + (i + 1) - 1, g + t)
        <5>1. i + 1 \in Nat \ {0} /\ t \in Nat /\ i + 1 <= t + 1 /\ t <= end - g
          BY <3>2, <1>2
        <5> DEFINE j == i + 1
        <5>2. j \in Nat \ {0} /\ j <= t + 1
          BY <5>1
        <5> HIDE DEF j
        <5>3. SubSeq(Bytes(g, end), j, t) = Bytes(g + j - 1, g + t)
          <6>1. g \in Nat /\ end \in Nat /\ g <= end /\ t \in Nat /\ t <= end - g
            BY <3>2, <5>1
          <6>2. QED
            BY <6>1, <5>2, BytesPart
        <5>4. QED
          BY <5>3 DEF j
      <4>2. g + (i + 1) - 1 = g + i /\ g + t = end
        BY <3>2
      <4>3. QED
        BY <2>2, <4>1, <4>2
    <3>4. g + i \in 0 .. end /\ g + i < end
      BY <3>2
    <3>5. Newline(g + i)
      BY <2>4, <3>1, <3>2
    <3>6. QED
      BY <1>3, <3>1, <3>3, <3>4, <3>5 DEF Kept, Begins, t
  <2>7. QED
    BY <2>3, <2>5, <2>6
<1>6. QED
  BY <1>2, <1>3, <1>4, <1>5

\* Output that is appended, all of it or a part, is kept.
LEMMA AppendKept ==
  ASSUME NEW end \in Nat, NEW file, Kept(file, end), NEW n \in Nat, NEW k \in 0 .. n
  PROVE  Kept(file \o SubSeq(Bytes(end, end + n), 1, k), end + k)
<1>1. PICK f \in 0 .. end : file = Bytes(f, end) /\ (end > 0 => f < end) /\ Begins(f)
  BY DEF Kept
<1>2. SubSeq(Bytes(end, end + n), 1, k) = Bytes(end, end + k)
  <2>1. SubSeq(Bytes(end, end + n), 1, k) = Bytes(end + 1 - 1, end + k)
    <3>1. end + n \in Nat /\ end <= end + n /\ k \in Nat
      OBVIOUS
    <3>2. 1 \in Nat \ {0} /\ 1 <= k + 1 /\ k <= (end + n) - end
      OBVIOUS
    <3> DEFINE c == end + n
    <3> HIDE DEF c
    <3>3. c \in Nat /\ end <= c /\ k <= c - end
      BY <3>1, <3>2 DEF c
    <3>4. SubSeq(Bytes(end, c), 1, k) = Bytes(end + 1 - 1, end + k)
      BY <3>1, <3>2, <3>3, BytesPart, ZenonT(40)
    <3>5. QED
      BY <3>4 DEF c
  <2>2. QED
    BY <2>1
<1>3. file \o Bytes(end, end + k) = Bytes(f, end + k)
  <2>1. f \in Nat /\ end + k \in Nat /\ f <= end /\ end <= end + k
    OBVIOUS
  <2>2. QED
    BY <1>1, <2>1, BytesJoin
<1>4. f \in 0 .. (end + k) /\ (end + k > 0 => f < end + k)
  BY <1>1
<1>5. QED
  BY <1>1, <1>2, <1>3, <1>4 DEF Kept

\* The last byte of a file tells how many bytes reached it.
LEMMA LastTells ==
  ASSUME NEW before \in Nat, NEW end \in Nat, before <= end, NEW file, Kept(file, end)
  PROVE  LastOf(file, before) = end
<1>1. PICK f \in 0 .. end : file = Bytes(f, end) /\ (end > 0 => f < end)
  BY DEF Kept
<1>2. /\ file \in Seq(Nat) /\ Len(file) = end - f
      /\ \A i \in 1 .. (end - f) : file[i] = f + i
  <2>1. f \in Nat /\ f <= end
    OBVIOUS
  <2>2. QED
    BY <1>1, <2>1, BytesType
<1>3. CASE end = 0
  <2>1. file = <<>> /\ before = 0
    BY <1>2, <1>3
  <2>2. QED
    BY <1>3, <2>1 DEF LastOf
<1>4. CASE end > 0
  <2>1. file # <<>> /\ end - f \in 1 .. (end - f)
    BY <1>1, <1>2, <1>4
  <2>2. file[Len(file)] = end
    BY <1>2, <2>1
  <2>3. QED
    BY <2>1, <2>2 DEF LastOf
<1>5. QED
  BY <1>3, <1>4

-----------------------------------------------------------------------------
(***************************************************************************)
(* What can become of a file.                                              *)
(***************************************************************************)
IsResult(r) ==
  r.file \in Seq(Nat) /\ r.open \in BOOLEAN /\ r.err \in BOOLEAN /\ r.torn \in BOOLEAN

LEMMA EnforceDoes ==
  ASSUME NEW file \in Seq(Nat), NEW m \in LogLimit, NEW r \in enforceLimit(file, m)
  PROVE  /\ IsResult(r)
         /\ ~r.err => Len(r.file) <= m /\ ~r.torn
         /\ ~r.torn => r.file = file \/ r.file = readLogTail(file, Target(m))
<1> DEFINE tail == readLogTail(file, Target(m))
<1>1. Target(m) \in Nat \ {0} /\ Target(m) <= m /\ m \in Nat
  BY TargetFits
<1>2. tail \in Seq(Nat) /\ Len(tail) \in Nat /\ Len(tail) <= m
  <2>1. tail \in Seq(Nat) /\ Len(tail) <= Target(m)
    BY <1>1, TailType
  <2> HIDE DEF tail
  <2>2. QED
    BY <1>1, <2>1
<1>3. \/ r = Result(file, TRUE, TRUE)
      \/ Len(file) <= m /\ r = Result(file, TRUE, FALSE)
      \/ r = Result(tail, TRUE, FALSE)
      \/ \E f \in {file, tail}, o \in BOOLEAN : r = Result(f, o, TRUE)
      \/ \E n \in 0 .. (Len(tail) - 1), o \in BOOLEAN : r = Torn(SubSeq(tail, 1, n), o)
  <2> DEFINE S == {Result(f, o, TRUE) : f \in {file, tail}, o \in BOOLEAN}
             T == {Torn(SubSeq(tail, 1, n), o) : n \in 0 .. (Len(tail) - 1), o \in BOOLEAN}
  <2>1. r \in {Result(file, TRUE, TRUE)} \cup
             (IF Len(file) <= m THEN {Result(file, TRUE, FALSE)}
              ELSE {Result(tail, TRUE, FALSE)} \cup S \cup T)
    BY SMT DEF enforceLimit, Result, Torn
  <2>2. r \in S => \E f \in {file, tail}, o \in BOOLEAN : r = Result(f, o, TRUE)
    <3> DEFINE FT == {file, tail}
    <3> HIDE DEF FT
    <3>1. S = {Result(f, o, TRUE) : f \in FT, o \in BOOLEAN}
      BY DEF FT
    <3> HIDE DEF S
    <3>2. r \in S => \E f \in FT, o \in BOOLEAN : r = Result(f, o, TRUE)
      BY <3>1 DEF Result
    <3>3. QED
      BY <3>2, Zenon DEF FT
  <2>3. r \in T => \E n \in 0 .. (Len(tail) - 1), o \in BOOLEAN : r = Torn(SubSeq(tail, 1, n), o)
    OBVIOUS
  <2> HIDE DEF tail, S, T
  <2>4. QED
    BY <2>1, <2>2, <2>3
<1> HIDE DEF tail
<1>4. CASE r = Result(file, TRUE, TRUE)
  BY <1>4 DEF Result, IsResult
<1>5. CASE Len(file) <= m /\ r = Result(file, TRUE, FALSE)
  BY <1>5 DEF Result, IsResult
<1>6. CASE r = Result(tail, TRUE, FALSE)
  BY <1>2, <1>6 DEF Result, IsResult, tail
<1>7. CASE \E f \in {file, tail}, o \in BOOLEAN : r = Result(f, o, TRUE)
  <2>1. PICK f \in {file, tail}, o \in BOOLEAN : r = Result(f, o, TRUE)
    BY <1>7
  <2>2. r.file = f /\ r.open = o /\ r.err = TRUE /\ r.torn = FALSE
    BY <2>1 DEF Result
  <2>3. QED
    BY <1>2, <2>2 DEF IsResult, tail
<1>8. CASE \E n \in 0 .. (Len(tail) - 1), o \in BOOLEAN : r = Torn(SubSeq(tail, 1, n), o)
  <2>1. PICK n \in 0 .. (Len(tail) - 1), o \in BOOLEAN : r = Torn(SubSeq(tail, 1, n), o)
    BY <1>8
  <2>2. r.file = SubSeq(tail, 1, n) /\ r.open = o /\ r.err = TRUE /\ r.torn = TRUE
    BY <2>1 DEF Torn
  <2>3. SubSeq(tail, 1, n) \in Seq(Nat)
    <3>1. n \in Int /\ 1 \in Int /\ \A k \in 1 .. n : tail[k] \in Nat
      BY <1>2
    <3>2. QED
      BY <3>1, SubSeqProperties
  <2>4. QED
    BY <2>2, <2>3 DEF IsResult
<1>9. QED
  BY <1>3, <1>4, <1>5, <1>6, <1>7, <1>8

LEMMA ClosedDoes ==
  ASSUME NEW r, IsResult(r), NEW q, q = ClosedIfFailed(r)
  PROVE  IsResult(q) /\ q.file = r.file /\ q.err = r.err /\ q.torn = r.torn
BY DEF ClosedIfFailed, IsResult

\* A trim does not change which bytes were the last.
LEMMA EnforceKeeps ==
  ASSUME NEW end \in Nat, NEW file, Kept(file, end), NEW m \in LogLimit,
         NEW r \in enforceLimit(file, m), ~r.torn
  PROVE  Kept(r.file, end)
<1>1. file \in Seq(Nat) /\ Kept(readLogTail(file, Target(m)), end)
  BY TailKept
<1>2. r.file = file \/ r.file = readLogTail(file, Target(m))
  BY <1>1, EnforceDoes
<1>3. QED
  BY <1>1, <1>2

LEMMA OpenedDoes ==
  ASSUME NEW file \in Seq(Nat), NEW open \in BOOLEAN, NEW m \in LogLimit,
         NEW r \in ensureOpen(file, open, m)
  PROVE  /\ IsResult(r)
         /\ ~r.err => ~r.torn
         /\ \A end \in Nat : Kept(file, end) /\ ~r.torn => Kept(r.file, end)
<1>1. CASE r = Result(file, TRUE, FALSE) \/ r = Result(file, FALSE, TRUE)
  <2>1. r.file = file /\ r.open \in BOOLEAN /\ r.err \in BOOLEAN /\ r.torn = FALSE
    <3>1. ASSUME NEW o \in BOOLEAN, NEW e \in BOOLEAN, r = Result(file, o, e)
          PROVE  r.file = file /\ r.open \in BOOLEAN /\ r.err \in BOOLEAN /\ r.torn = FALSE
      BY <3>1 DEF Result
    <3>2. QED
      BY <1>1, <3>1
  <2>2. QED
    BY <2>1 DEF IsResult
<1>2. CASE r \in enforceLimit(file, m)
  BY <1>2, EnforceDoes, EnforceKeeps
<1>3. QED
  BY <1>1, <1>2 DEF ensureOpen

\* After a write: the file fits the limit unless something failed, and ends with
\* the piece or a part of it.
LEMMA AppendedDoes ==
  ASSUME NEW path, log[path] \in Seq(Nat), NEW open \in BOOLEAN, NEW m \in LogLimit,
         NEW end \in Nat, NEW n \in Nat,
         NEW r \in Appended(path, open, m, Bytes(end, end + n))
  PROVE  /\ IsResult(r)
         /\ ~r.err => Len(r.file) <= m /\ ~r.torn
         /\ Kept(log[path], end) /\ ~r.torn => \E k \in 0 .. n : Kept(r.file, end + k)
<1> DEFINE piece == Bytes(end, end + n)
<1>0. piece \in Seq(Nat) /\ Len(piece) = n
  <2>1. end + n \in Nat /\ end <= end + n /\ (end + n) - end = n
    OBVIOUS
  <2>2. QED
    BY <2>1, BytesType
<1> HIDE DEF piece
<1>1. PICK o \in ensureOpen(log[path], open, m) :
         r \in IF o.err THEN {o} ELSE append(o.file, piece, m)
  BY DEF Appended, Opened, piece
<1>2. /\ IsResult(o) /\ (~o.err => ~o.torn)
      /\ Kept(log[path], end) /\ ~o.torn => Kept(o.file, end)
  BY OpenedDoes
<1>3. CASE o.err
  <2>1. r = o
    BY <1>1, <1>3
  <2>2. end + 0 = end /\ 0 \in 0 .. n
    OBVIOUS
  <2>3. ASSUME Kept(o.file, end) PROVE \E k \in 0 .. n : Kept(o.file, end + k)
    BY <2>2, <2>3
  <2>4. QED
    BY <1>2, <1>3, <2>1, <2>3
<1>4. CASE ~o.err
  <2>1. ~o.torn /\ o.file \in Seq(Nat)
    BY <1>2, <1>4 DEF IsResult
  <2>2. \/ \E q \in enforceLimit(o.file \o piece, m) : r = ClosedIfFailed(q)
        \/ \E k \in 0 .. (Len(piece) - 1) :
             r = Result(o.file \o SubSeq(piece, 1, k), FALSE, TRUE)
    BY <1>1, <1>4, Zenon DEF append
  <2>3. ASSUME NEW k \in 0 .. n
        PROVE  /\ o.file \o SubSeq(piece, 1, k) \in Seq(Nat)
               /\ Kept(log[path], end) => Kept(o.file \o SubSeq(piece, 1, k), end + k)
    <3>1. SubSeq(piece, 1, k) \in Seq(Nat)
      <4>1. k \in Int /\ 1 \in Int /\ \A i \in 1 .. k : piece[i] \in Nat
        BY <1>0
      <4>2. QED
        BY <4>1, SubSeqProperties
    <3>2. o.file \o SubSeq(piece, 1, k) \in Seq(Nat)
      BY <3>1, <2>1
    <3>3. ASSUME Kept(log[path], end) PROVE Kept(o.file \o SubSeq(piece, 1, k), end + k)
      BY <1>2, <2>1, <3>3, AppendKept DEF piece
    <3>4. QED
      BY <3>2, <3>3
  <2>4. CASE \E q \in enforceLimit(o.file \o piece, m) : r = ClosedIfFailed(q)
    <3>1. PICK q \in enforceLimit(o.file \o piece, m) : r = ClosedIfFailed(q)
      BY <2>4
    <3>2. o.file \o piece \in Seq(Nat)
      BY <1>0, <2>1
    <3>3. /\ IsResult(q) /\ (~q.err => Len(q.file) <= m /\ ~q.torn)
      BY <3>2, EnforceDoes
    <3>4. IsResult(r) /\ r.file = q.file /\ r.err = q.err /\ r.torn = q.torn
      BY <3>1, <3>3, ClosedDoes
    <3>5. ASSUME Kept(log[path], end), ~r.torn PROVE Kept(r.file, end + n)
      <4>1. SubSeq(piece, 1, n) = piece
        BY <1>0
      <4>2. Kept(o.file \o piece, end + n)
        <5>1. n \in 0 .. n
          OBVIOUS
        <5>2. Kept(o.file \o SubSeq(piece, 1, n), end + n)
          BY <2>3, <3>5, <5>1
        <5>3. QED
          BY <4>1, <5>2
      <4>3. end + n \in Nat
        OBVIOUS
      <4>4. QED
        BY <3>4, <3>5, <4>2, <4>3, EnforceKeeps
    <3>6. n \in 0 .. n
      OBVIOUS
    <3>7. QED
      BY <3>3, <3>4, <3>5, <3>6
  <2>5. CASE \E k \in 0 .. (Len(piece) - 1) :
               r = Result(o.file \o SubSeq(piece, 1, k), FALSE, TRUE)
    <3>1. PICK k \in 0 .. (Len(piece) - 1) :
               r = Result(o.file \o SubSeq(piece, 1, k), FALSE, TRUE)
      BY <2>5
    <3>2. k \in 0 .. n
      BY <1>0
    <3>3. /\ r.file = o.file \o SubSeq(piece, 1, k)
          /\ r.open = FALSE /\ r.err = TRUE /\ r.torn = FALSE
      BY <3>1 DEF Result
    <3>4. QED
      BY <2>3, <3>2, <3>3 DEF IsResult
  <2>6. QED
    BY <2>2, <2>4, <2>5
<1>5. QED
  BY <1>3, <1>4

\* After a change of the settings.
LEMMA FittedDoes ==
  ASSUME NEW path, log[path] \in Seq(Nat), NEW open \in BOOLEAN, NEW m \in LogLimit,
         NEW r \in Fitted(path, open, m)
  PROVE  /\ IsResult(r)
         /\ ~r.err => Len(r.file) <= m /\ ~r.torn
         /\ \A end \in Nat : Kept(log[path], end) /\ ~r.torn => Kept(r.file, end)
<1>1. PICK o \in ensureOpen(log[path], open, m) :
         r \in IF o.err THEN {o} ELSE Trimmed(o.file, m)
  BY DEF Fitted, Opened
<1>2. /\ IsResult(o) /\ (~o.err => ~o.torn)
      /\ \A end \in Nat : Kept(log[path], end) /\ ~o.torn => Kept(o.file, end)
  BY OpenedDoes
<1>3. CASE o.err
  BY <1>1, <1>2, <1>3
<1>4. CASE ~o.err
  <2>1. o.file \in Seq(Nat) /\ ~o.torn
    BY <1>2, <1>4 DEF IsResult
  <2>2. PICK q \in enforceLimit(o.file, m) : r = ClosedIfFailed(q)
    BY <1>1, <1>4 DEF Trimmed
  <2>3. /\ IsResult(q) /\ (~q.err => Len(q.file) <= m /\ ~q.torn)
    BY <2>1, EnforceDoes
  <2>4. IsResult(r) /\ r.file = q.file /\ r.err = q.err /\ r.torn = q.torn
    BY <2>2, <2>3, ClosedDoes
  <2>5. ASSUME NEW end \in Nat, Kept(log[path], end), ~r.torn PROVE Kept(r.file, end)
    BY <1>2, <2>1, <2>4, <2>5, EnforceKeeps
  <2>6. QED
    BY <2>3, <2>4, <2>5
<1>5. QED
  BY <1>3, <1>4

-----------------------------------------------------------------------------
(***************************************************************************)
(* The invariant of the writers.                                           *)
(***************************************************************************)
FilesTyped == log \in [LogPath -> Seq(Nat)] /\ logged \in [LogPath -> Nat]

WritersTyped ==
  /\ DOMAIN logWriter = Launch
  /\ \A w \in Launch : /\ logWriter[w].st \in {"none", "live", "closed"}
                       /\ logWriter[w].open \in BOOLEAN
                       /\ logWriter[w].st = "live" => logWriter[w].set \in Settings

\* A launch begins when those before it were cleaned up.
LaunchesInOrder ==
  \A v, w \in Launch : v < w /\ logWriter[w].st # "none" => logWriter[v].st = "closed"

EndsKept == \A p \in LogPath \ torn : Kept(log[p], logged[p])

LogInv ==
  /\ FilesTyped /\ WritersTyped /\ LaunchesInOrder
  /\ EndsKept /\ LogBounded /\ NoHandleAfterClose

\* Only one launch is live.
LEMMA OneLive ==
  ASSUME LaunchesInOrder, NEW v \in Launch, NEW w \in Launch,
         logWriter[v].st = "live", logWriter[w].st = "live"
  PROVE  v = w
<1>1. v \in Nat /\ w \in Nat
  BY LogAssumption
<1>2. ~(v < w) /\ ~(w < v)
  BY DEF LaunchesInOrder
<1>3. QED
  BY <1>1, <1>2

LEMMA SettingsFields ==
  ASSUME NEW s \in Settings
  PROVE  s.path \in LogPath /\ s.save \in BOOLEAN /\ s.max \in LogLimit
BY DEF Settings

LEMMA SettleDoes ==
  ASSUME FilesTyped, WritersTyped, NEW w \in Launch, NEW s \in Settings,
         NEW r, IsResult(r), Settle(w, s, r)
  PROVE  /\ log' \in [LogPath -> Seq(Nat)]
         /\ log'[s.path] = r.file
         /\ \A p \in LogPath : p # s.path => log'[p] = log[p]
         /\ DOMAIN logWriter' = Launch
         /\ logWriter'[w].st = logWriter[w].st
         /\ logWriter'[w].open = r.open /\ logWriter'[w].set = s
         /\ \A v \in Launch : v # w => logWriter'[v] = logWriter[v]
         /\ torn \subseteq torn' /\ (r.torn => s.path \in torn')
         /\ r.err => w \in dirty'
         /\ \A v \in Launch : v # w /\ v \in dirty => v \in dirty'
<1>1. s.path \in LogPath /\ r.file \in Seq(Nat)
  BY SettingsFields DEF IsResult
<1>2. log' = [log EXCEPT ![s.path] = r.file] /\ log \in [LogPath -> Seq(Nat)]
  BY DEF Settle, FilesTyped
<1>3. /\ log' \in [LogPath -> Seq(Nat)] /\ log'[s.path] = r.file
      /\ \A p \in LogPath : p # s.path => log'[p] = log[p]
  BY <1>1, <1>2
<1> DEFINE n == [st |-> logWriter[w].st, open |-> r.open, set |-> s]
<1>4. n.st = logWriter[w].st /\ n.open = r.open /\ n.set = s
  OBVIOUS
<1>5. logWriter' = [logWriter EXCEPT ![w] = n] /\ DOMAIN logWriter = Launch
  BY DEF Settle, WritersTyped
<1> HIDE DEF n
<1>6. /\ DOMAIN logWriter' = Launch /\ logWriter'[w] = n
      /\ \A v \in Launch : v # w => logWriter'[v] = logWriter[v]
  BY <1>5
<1>7. torn \subseteq torn' /\ (r.torn => s.path \in torn')
  BY DEF Settle
<1>8. (r.err => w \in dirty') /\ \A v \in Launch : v # w /\ v \in dirty => v \in dirty'
  BY DEF Settle
<1>9. QED
  BY <1>3, <1>4, <1>6, <1>7, <1>8

\* What an operation of the live writer leaves, but for what the file holds.
LEMMA SettleKeeps ==
  ASSUME LogInv, NEW w \in Launch, logWriter[w].st = "live", NEW s \in Settings,
         NEW r, IsResult(r), Settle(w, s, r),
         r.open /\ ~r.err => Len(r.file) <= s.max
  PROVE  WritersTyped' /\ LaunchesInOrder' /\ LogBounded' /\ NoHandleAfterClose'
<1>1. /\ FilesTyped /\ WritersTyped /\ LaunchesInOrder /\ LogBounded /\ NoHandleAfterClose
  BY DEF LogInv
<1>2. /\ log'[s.path] = r.file
      /\ DOMAIN logWriter' = Launch
      /\ logWriter'[w].st = logWriter[w].st
      /\ logWriter'[w].open = r.open /\ logWriter'[w].set = s
      /\ \A v \in Launch : v # w => logWriter'[v] = logWriter[v]
      /\ r.err => w \in dirty'
  BY <1>1, SettleDoes
<1>3. r.open \in BOOLEAN /\ r.err \in BOOLEAN
  BY DEF IsResult
<1>4. \A v \in Launch : logWriter'[v].st = logWriter[v].st
  BY <1>2
<1>5. WritersTyped'
  <2>1. ASSUME NEW v \in Launch
        PROVE  /\ logWriter'[v].st \in {"none", "live", "closed"}
               /\ logWriter'[v].open \in BOOLEAN
               /\ logWriter'[v].st = "live" => logWriter'[v].set \in Settings
    <3>1. CASE v = w
      BY <1>1, <1>2, <1>3, <3>1 DEF WritersTyped
    <3>2. CASE v # w
      BY <1>1, <1>2, <3>2 DEF WritersTyped
    <3>3. QED
      BY <3>1, <3>2
  <2>2. QED
    BY <1>2, <2>1 DEF WritersTyped
<1>6. LaunchesInOrder'
  BY <1>1, <1>4 DEF LaunchesInOrder
<1>7. \A v \in Launch : v # w => ~logWriter'[v].open
  <2>1. ASSUME NEW v \in Launch, v # w PROVE ~logWriter[v].open
    BY <1>1, <2>1, OneLive DEF NoHandleAfterClose
  <2>2. QED
    BY <1>2, <2>1
<1>8. NoHandleAfterClose'
  BY <1>2, <1>7 DEF NoHandleAfterClose
<1>9. LogBounded'
  <2>1. ASSUME NEW v \in Launch, logWriter'[v].open, v \notin dirty'
        PROVE  Len(log'[logWriter'[v].set.path]) <= logWriter'[v].set.max
    <3>1. v = w
      BY <1>7, <2>1
    <3>2. r.open /\ ~r.err
      BY <1>2, <2>1, <3>1
    <3>3. QED
      BY <1>2, <3>1, <3>2
  <2>2. QED
    BY <2>1 DEF LogBounded
<1>10. QED
  BY <1>5, <1>6, <1>8, <1>9

LEMMA WriteKeeps ==
  ASSUME LogInv, NEW w \in Launch, NEW n \in 1 .. MaxChunk, Write(w, n)
  PROVE  LogInv'
<1> DEFINE s == logWriter[w].set
           p == s.path
           end == logged[p]
<1>1. logWriter[w].st = "live" /\ WriteTo(w, n)
  BY DEF Write
<1>2. FilesTyped /\ WritersTyped /\ EndsKept
  BY DEF LogInv
<1>3. s \in Settings
  BY <1>1, <1>2 DEF WritersTyped
<1>4. /\ p \in LogPath /\ s.max \in LogLimit /\ end \in Nat
      /\ log[p] \in Seq(Nat) /\ logWriter[w].open \in BOOLEAN
  BY <1>2, <1>3, SettingsFields DEF FilesTyped, WritersTyped
<1>5. PICK r \in Appended(p, logWriter[w].open, s.max, Bytes(end, end + n)) :
         /\ Settle(w, s, r)
         /\ logged' = [logged EXCEPT ![p] = LastOf(r.file, end)]
  BY <1>1 DEF WriteTo
<1> HIDE DEF s, p, end
<1>6. n \in Nat
  BY LogAssumption
<1>7. /\ IsResult(r)
      /\ ~r.err => Len(r.file) <= s.max /\ ~r.torn
      /\ Kept(log[p], end) /\ ~r.torn => \E k \in 0 .. n : Kept(r.file, end + k)
  BY <1>4, <1>6, AppendedDoes
<1>8. WritersTyped' /\ LaunchesInOrder' /\ LogBounded' /\ NoHandleAfterClose'
  BY <1>1, <1>3, <1>5, <1>7, SettleKeeps
<1>9. /\ log' \in [LogPath -> Seq(Nat)]
      /\ log'[s.path] = r.file
      /\ \A q \in LogPath : q # s.path => log'[q] = log[q]
      /\ torn \subseteq torn' /\ (r.torn => s.path \in torn')
  BY <1>2, <1>3, <1>5, <1>7, SettleDoes
<1>10. LastOf(r.file, end) \in Nat
  BY <1>4, <1>7 DEF LastOf, IsResult
<1>11. /\ logged' \in [LogPath -> Nat] /\ logged'[p] = LastOf(r.file, end)
       /\ \A q \in LogPath : q # p => logged'[q] = logged[q]
  BY <1>2, <1>4, <1>5, <1>10 DEF FilesTyped
<1>12. EndsKept'
  <2>1. ASSUME NEW q \in LogPath, q \notin torn' PROVE Kept(log'[q], logged'[q])
    <3>1. q \notin torn /\ Kept(log[q], logged[q])
      BY <1>2, <1>9, <2>1 DEF EndsKept
    <3>2. CASE q # p
      BY <1>9, <1>11, <3>1, <3>2 DEF p
    <3>3. CASE q = p
      <4>1. Kept(log[p], end) /\ ~r.torn
        BY <1>9, <2>1, <3>1, <3>3 DEF end, p
      <4>2. PICK k \in 0 .. n : Kept(r.file, end + k)
        BY <1>7, <4>1
      <4>3. LastOf(r.file, end) = end + k
        <5>1. end + k \in Nat /\ end <= end + k
          BY <1>4, <1>6
        <5>2. QED
          BY <1>4, <4>2, <5>1, LastTells
      <4>4. QED
        BY <1>9, <1>11, <3>3, <4>2, <4>3 DEF p
    <3>4. QED
      BY <3>2, <3>3
  <2>2. QED
    BY <2>1 DEF EndsKept
<1>13. QED
  BY <1>8, <1>9, <1>11, <1>12 DEF LogInv, FilesTyped

LEMMA UpdateKeeps ==
  ASSUME LogInv, NEW w \in Launch, NEW s \in Settings, Update(w, s)
  PROVE  LogInv'
<1> DEFINE p == s.path
           open == StaysOpen(w, s)
<1>1. /\ logWriter[w].st = "live" /\ logged' = logged
      /\ IF Saves(s) THEN \E r \in Fitted(p, open, s.max) : Settle(w, s, r)
                     ELSE Settle(w, s, Result(log[p], FALSE, FALSE))
  BY DEF Update, UpdateTo
<1>2. FilesTyped /\ WritersTyped /\ EndsKept
  BY DEF LogInv
<1>3. p \in LogPath /\ s.max \in LogLimit /\ log[p] \in Seq(Nat)
  BY <1>2, SettingsFields DEF FilesTyped
<1>4. open \in BOOLEAN
  BY Zenon DEF StaysOpen
<1> HIDE DEF open
<1>5. \E r : /\ IsResult(r) /\ Settle(w, s, r)
             /\ r.open /\ ~r.err => Len(r.file) <= s.max
             /\ \A end \in Nat : Kept(log[p], end) /\ ~r.torn => Kept(r.file, end)
  <2>1. CASE Saves(s)
    <3>1. PICK r \in Fitted(p, open, s.max) : Settle(w, s, r)
      BY <1>1, <2>1
    <3>2. QED
      BY <1>3, <1>4, <3>1, FittedDoes
  <2>2. CASE ~Saves(s)
    <3> DEFINE r == Result(log[p], FALSE, FALSE)
    <3>1. r.file = log[p] /\ r.open = FALSE /\ r.err = FALSE /\ r.torn = FALSE
      BY DEF Result
    <3>2. Settle(w, s, r)
      BY <1>1, <2>2
    <3> HIDE DEF r
    <3>3. IsResult(r)
      BY <1>3, <3>1 DEF IsResult
    <3>4. QED
      BY <3>1, <3>2, <3>3
  <2>3. QED
    BY <2>1, <2>2
<1>6. PICK r : /\ IsResult(r) /\ Settle(w, s, r)
               /\ r.open /\ ~r.err => Len(r.file) <= s.max
               /\ \A end \in Nat : Kept(log[p], end) /\ ~r.torn => Kept(r.file, end)
  BY <1>5
<1>7. WritersTyped' /\ LaunchesInOrder' /\ LogBounded' /\ NoHandleAfterClose'
  BY <1>1, <1>6, SettleKeeps
<1>8. /\ log' \in [LogPath -> Seq(Nat)]
      /\ log'[s.path] = r.file
      /\ \A q \in LogPath : q # s.path => log'[q] = log[q]
      /\ torn \subseteq torn' /\ (r.torn => s.path \in torn')
  BY <1>2, <1>6, SettleDoes
<1>9. EndsKept'
  <2>1. ASSUME NEW q \in LogPath, q \notin torn' PROVE Kept(log'[q], logged'[q])
    <3>1. q \notin torn /\ Kept(log[q], logged[q]) /\ logged[q] \in Nat
      BY <1>2, <1>8, <2>1 DEF EndsKept, FilesTyped
    <3>2. CASE q # p
      BY <1>1, <1>8, <3>1, <3>2
    <3>3. CASE q = p
      BY <1>1, <1>6, <1>8, <2>1, <3>1, <3>3
    <3>4. QED
      BY <3>2, <3>3
  <2>2. QED
    BY <2>1 DEF EndsKept
<1>10. QED
  BY <1>1, <1>2, <1>7, <1>8, <1>9 DEF LogInv, FilesTyped

\* A launch begins or is cleaned up: the files stay as they are.
LEMMA WriterComesOrGoes ==
  ASSUME LogInv, NEW w \in Launch, NEW n,
         logWriter' = [logWriter EXCEPT ![w] = n],
         n.st \in {"live", "closed"}, n.open = FALSE,
         n.st = "live" => n.set \in Settings,
         n.st = "closed" => logWriter[w].st = "live",
         n.st = "live" => /\ logWriter[w].st = "none"
                          /\ \A v \in Launch : v < w => logWriter[v].st = "closed",
         UNCHANGED <<log, logged, torn, dirty>>
  PROVE  LogInv'
<1>1. FilesTyped /\ WritersTyped /\ LaunchesInOrder /\ EndsKept /\ LogBounded /\ NoHandleAfterClose
  BY DEF LogInv
<1>2. /\ DOMAIN logWriter' = Launch /\ logWriter'[w] = n
      /\ \A v \in Launch : v # w => logWriter'[v] = logWriter[v]
  BY <1>1 DEF WritersTyped
<1>3. FilesTyped' /\ EndsKept'
  BY <1>1 DEF FilesTyped, EndsKept
<1>4. WritersTyped'
  <2>1. ASSUME NEW v \in Launch
        PROVE  /\ logWriter'[v].st \in {"none", "live", "closed"}
               /\ logWriter'[v].open \in BOOLEAN
               /\ logWriter'[v].st = "live" => logWriter'[v].set \in Settings
    BY <1>1, <1>2 DEF WritersTyped
  <2>2. QED
    BY <1>2, <2>1 DEF WritersTyped
<1>5. LaunchesInOrder'
  <2>1. ASSUME NEW u \in Launch, NEW v \in Launch, u < v, logWriter'[v].st # "none"
        PROVE  logWriter'[u].st = "closed"
    <3>1. u \in Nat /\ v \in Nat /\ u # v
      BY <2>1, LogAssumption
    <3>2. CASE v = w
      BY <1>1, <1>2, <2>1, <3>1, <3>2 DEF LaunchesInOrder
    <3>3. CASE v # w
      <4>1. logWriter[u].st = "closed"
        BY <1>1, <1>2, <2>1, <3>3 DEF LaunchesInOrder
      <4>2. QED
        BY <1>2, <4>1
    <3>4. QED
      BY <3>2, <3>3
  <2>2. QED
    BY <2>1 DEF LaunchesInOrder
<1>6. LogBounded'
  BY <1>1, <1>2 DEF LogBounded
<1>7. NoHandleAfterClose'
  BY <1>1, <1>2 DEF NoHandleAfterClose
<1>8. QED
  BY <1>3, <1>4, <1>5, <1>6, <1>7 DEF LogInv

LEMMA LogInvInit == LogInit => LogInv
<1> SUFFICES ASSUME LogInit PROVE LogInv
  OBVIOUS
<1>1. LeftOver \in Nat /\ 0 \in Nat /\ 0 <= LeftOver
  BY LogAssumption
<1>2. Bytes(0, LeftOver) \in Seq(Nat)
  BY <1>1, BytesType
<1>3. FilesTyped
  BY <1>1, <1>2 DEF LogInit, FilesTyped
<1>4. /\ DOMAIN logWriter = Launch
      /\ \A w \in Launch : logWriter[w].st = "none" /\ logWriter[w].open = FALSE
  BY DEF LogInit
<1>5. WritersTyped /\ LaunchesInOrder /\ LogBounded /\ NoHandleAfterClose
  BY <1>4 DEF WritersTyped, LaunchesInOrder, LogBounded, NoHandleAfterClose
<1>6. Kept(Bytes(0, LeftOver), LeftOver)
  <2>1. Newline(0)
    BY LogAssumption DEF Newline
  <2>2. 0 \in 0 .. LeftOver /\ (LeftOver > 0 => 0 < LeftOver) /\ Begins(0)
    BY <1>1, <2>1 DEF Begins
  <2>3. QED
    BY <2>2 DEF Kept
<1>7. EndsKept
  BY <1>6 DEF EndsKept, LogInit
<1>8. QED
  BY <1>3, <1>5, <1>7 DEF LogInv

LEMMA LogInvStep ==
  ASSUME LogInv, [LogNext]_logVars
  PROVE  LogInv'
<1>1. CASE UNCHANGED logVars
  BY <1>1 DEF LogInv, logVars, FilesTyped, WritersTyped, LaunchesInOrder, EndsKept,
              LogBounded, NoHandleAfterClose
<1>2. ASSUME NEW w \in Launch, NEW s \in Settings, NewWriter(w, s) PROVE LogInv'
  <2> DEFINE n == [st |-> "live", open |-> FALSE, set |-> s]
  <2>1. n.st = "live" /\ n.open = FALSE /\ n.set = s
    OBVIOUS
  <2>2. /\ logWriter[w].st = "none"
        /\ \A v \in Launch : v < w => logWriter[v].st = "closed"
        /\ logWriter' = [logWriter EXCEPT ![w] = n]
        /\ UNCHANGED <<log, logged, torn, dirty>>
    BY <1>2 DEF NewWriter
  <2> HIDE DEF n
  <2>3. QED
    BY <2>1, <2>2, WriterComesOrGoes
<1>3. ASSUME NEW w \in Launch, Close(w) PROVE LogInv'
  <2> DEFINE n == [st |-> "closed", open |-> FALSE, set |-> logWriter[w].set]
  <2>1. n.st = "closed" /\ n.open = FALSE
    OBVIOUS
  <2>2. /\ logWriter[w].st = "live"
        /\ logWriter' = [logWriter EXCEPT ![w] = n]
        /\ UNCHANGED <<log, logged, torn, dirty>>
    BY <1>3 DEF Close
  <2> HIDE DEF n
  <2>3. QED
    BY <2>1, <2>2, WriterComesOrGoes
<1>4. QED
  BY <1>1, <1>2, <1>3, WriteKeeps, UpdateKeeps DEF LogNext

\* The bytes that Kept speaks of are those that KeptIsRecent names.
LEMMA LogInvKeeps == LogInv => LogFileKept
<1> SUFFICES ASSUME LogInv PROVE LogFileKept
  OBVIOUS
<1>1. ASSUME NEW p \in LogPath \ torn
      PROVE  LET size == Len(log[p]) first == logged[p] - size
             IN  /\ log[p] = Bytes(first, logged[p])
                 /\ logged[p] > 0 => size > 0
                 /\ Begins(first)
  <2> DEFINE end == logged[p]
  <2>1. Kept(log[p], end) /\ end \in Nat
    BY DEF LogInv, EndsKept, FilesTyped
  <2> HIDE DEF end
  <2>2. PICK f \in 0 .. end : log[p] = Bytes(f, end) /\ (end > 0 => f < end) /\ Begins(f)
    BY <2>1 DEF Kept
  <2>3. Len(log[p]) = end - f
    <3>1. f \in Nat /\ f <= end
      BY <2>1
    <3>2. QED
      BY <2>1, <2>2, <3>1, BytesType
  <2>4. end - Len(log[p]) = f /\ (end > 0 => Len(log[p]) > 0)
    BY <2>1, <2>2, <2>3
  <2>5. QED
    BY <2>2, <2>4 DEF end
<1>2. KeptIsRecent
  BY <1>1 DEF KeptIsRecent, Begins
<1>3. QED
  BY <1>2 DEF LogInv, LogFileKept

\* boundedLogWriter, for every number of launches, paths, limits and line
\* lengths and whatever the file system refuses: a file that is open and whose
\* last operation succeeded is within its limit, what is kept is the end of the
\* output from the beginning of a line, and only the launch that runs has a
\* file open.
THEOREM LogFileAlwaysKept == LogSpec => []LogFileKept
<1>1. LogInit => LogInv
  BY LogInvInit
<1>2. LogInv /\ [LogNext]_logVars => LogInv'
  BY LogInvStep
<1>3. LogInv => LogFileKept
  BY LogInvKeeps
<1>4. QED
  BY <1>1, <1>2, <1>3, PTL DEF LogSpec

-----------------------------------------------------------------------------
(***************************************************************************)
(* The streams of events.  First, the numbers of the events in a sequence. *)
(***************************************************************************)
Event == [n : Nat, live : BOOLEAN]

One(e) == IF e.live THEN {e.n} ELSE {}
Numbers(s) == {s[i].n : i \in LiveIn(s)}
InOrder(s) == \A i, j \in LiveIn(s) : i < j => s[i].n < s[j].n
Before(A, B) == \A x \in A, y \in B : x < y

LEMMA EmptyStream == LiveIn(<<>>) = {} /\ Numbers(<<>>) = {} /\ InOrder(<<>>)
BY DEF LiveIn, Numbers, InOrder

LEMMA OneStream ==
  ASSUME NEW e \in Event
  PROVE  <<e>> \in Seq(Event) /\ Numbers(<<e>>) = One(e) /\ InOrder(<<e>>)
<1>1. <<e>> \in Seq(Event) /\ DOMAIN <<e>> = {1} /\ <<e>>[1] = e
  OBVIOUS
<1> DEFINE s == <<e>>
<1> HIDE DEF s
<1>2. s \in Seq(Event) /\ DOMAIN s = {1} /\ s[1] = e
  BY <1>1 DEF s
<1>3. LiveIn(s) = IF e.live THEN {1} ELSE {}
  BY <1>2 DEF LiveIn
<1>4. Numbers(s) = One(e) /\ InOrder(s)
  BY <1>2, <1>3 DEF Numbers, One, InOrder
<1>5. QED
  BY <1>2, <1>4 DEF s

LEMMA JoinedStream ==
  ASSUME NEW s \in Seq(Event), NEW t \in Seq(Event)
  PROVE  /\ s \o t \in Seq(Event)
         /\ Numbers(s \o t) = Numbers(s) \cup Numbers(t)
         /\ InOrder(s) /\ InOrder(t) /\ Before(Numbers(s), Numbers(t)) => InOrder(s \o t)
<1> DEFINE u == s \o t
           a == Len(s)
           b == Len(t)
<1>1. a \in Nat /\ b \in Nat /\ DOMAIN s = 1 .. a /\ DOMAIN t = 1 .. b
  OBVIOUS
<1>2. u \in Seq(Event) /\ DOMAIN u = 1 .. (a + b)
  OBVIOUS
<1>3. ASSUME NEW i \in 1 .. a PROVE u[i] = s[i]
  BY <1>1
<1>4. ASSUME NEW i \in 1 .. b PROVE u[a + i] = t[i]
  <2>1. a + i \in 1 .. (Len(s) + Len(t)) /\ ~(a + i <= Len(s)) /\ (a + i) - Len(s) = i
    BY <1>1
  <2>2. u[a + i] = t[(a + i) - Len(s)]
    BY <2>1, ConcatProperties
  <2>3. QED
    BY <2>1, <2>2
<1> HIDE DEF u, a, b
<1>5. \A i \in DOMAIN u : i \in 1 .. a \/ (i - a \in 1 .. b /\ i = a + (i - a))
  BY <1>1, <1>2
<1>6. \A i \in DOMAIN u : i \in LiveIn(u) =>
         \/ i \in LiveIn(s) /\ u[i] = s[i]
         \/ i - a \in LiveIn(t) /\ i = a + (i - a) /\ u[i] = t[i - a]
  <2>1. ASSUME NEW i \in DOMAIN u, u[i].live
        PROVE  \/ i \in LiveIn(s) /\ u[i] = s[i]
               \/ i - a \in LiveIn(t) /\ i = a + (i - a) /\ u[i] = t[i - a]
    <3>1. CASE i \in 1 .. a
      BY <1>1, <1>3, <2>1, <3>1 DEF LiveIn
    <3>2. CASE i - a \in 1 .. b /\ i = a + (i - a)
      <4> DEFINE k == i - a
      <4> HIDE DEF k
      <4>1. k \in 1 .. b /\ i = a + k
        BY <3>2 DEF k
      <4>2. u[i] = t[k]
        BY <1>4, <4>1
      <4>3. QED
        BY <1>1, <2>1, <3>2, <4>1, <4>2 DEF LiveIn, k
    <3>3. QED
      BY <1>5, <3>1, <3>2
  <2>2. QED
    BY <2>1 DEF LiveIn
<1>7. \A i \in LiveIn(s) : i \in LiveIn(u) /\ u[i].n = s[i].n
  BY <1>1, <1>2, <1>3 DEF LiveIn
<1>8. \A i \in LiveIn(t) : a + i \in LiveIn(u) /\ u[a + i].n = t[i].n
  <2>1. ASSUME NEW i \in 1 .. b PROVE a + i \in 1 .. (a + b)
    BY <1>1
  <2>2. QED
    BY <1>1, <1>2, <1>4, <2>1 DEF LiveIn
<1>9. LiveIn(u) \subseteq DOMAIN u
  BY DEF LiveIn
<1>10. Numbers(u) = Numbers(s) \cup Numbers(t)
  <2>1. Numbers(u) \subseteq Numbers(s) \cup Numbers(t)
    BY <1>6, <1>9 DEF Numbers
  <2>2. Numbers(s) \subseteq Numbers(u)
    BY <1>7 DEF Numbers
  <2>3. Numbers(t) \subseteq Numbers(u)
    BY <1>8 DEF Numbers
  <2>4. QED
    BY <2>1, <2>2, <2>3
<1>11. ASSUME InOrder(s), InOrder(t), Before(Numbers(s), Numbers(t)) PROVE InOrder(u)
  <2>1. ASSUME NEW i \in LiveIn(u), NEW j \in LiveIn(u), i < j PROVE u[i].n < u[j].n
    <3>1. i \in DOMAIN u /\ j \in DOMAIN u
      BY <1>9
    <3>2. /\ \/ i \in LiveIn(s) /\ u[i] = s[i]
             \/ i - a \in LiveIn(t) /\ i = a + (i - a) /\ u[i] = t[i - a]
          /\ \/ j \in LiveIn(s) /\ u[j] = s[j]
             \/ j - a \in LiveIn(t) /\ j = a + (j - a) /\ u[j] = t[j - a]
      BY <1>6, <2>1, <3>1
    <3>3. i \in Int /\ j \in Int /\ a \in Int
      BY <1>1, <1>2, <3>1
    <3>4. CASE i \in LiveIn(s) /\ u[i] = s[i] /\ j \in LiveIn(s) /\ u[j] = s[j]
      BY <1>11, <2>1, <3>4 DEF InOrder
    <3>5. CASE /\ i \in LiveIn(s) /\ u[i] = s[i]
               /\ j - a \in LiveIn(t) /\ u[j] = t[j - a]
      <4>1. u[i].n \in Numbers(s) /\ u[j].n \in Numbers(t)
        BY <3>5 DEF Numbers
      <4>2. QED
        BY <1>11, <4>1 DEF Before
    <3>6. CASE /\ i - a \in LiveIn(t) /\ u[i] = t[i - a]
               /\ j - a \in LiveIn(t) /\ u[j] = t[j - a]
      <4>1. i - a < j - a
        BY <2>1, <3>3
      <4>2. QED
        BY <1>11, <3>6, <4>1 DEF InOrder
    <3>7. CASE i - a \in LiveIn(t) /\ j \in LiveIn(s)
      <4>1. i - a \in 1 .. b /\ j \in 1 .. a
        BY <1>1, <3>7 DEF LiveIn
      <4>2. QED
        BY <1>1, <2>1, <3>3, <4>1
    <3>8. QED
      BY <3>2, <3>4, <3>5, <3>6, <3>7
  <2>2. QED
    BY <2>1 DEF InOrder
<1>12. QED
  BY <1>2, <1>10, <1>11 DEF u

LEMMA AppendedStream ==
  ASSUME NEW s \in Seq(Event), NEW e \in Event
  PROVE  /\ Append(s, e) \in Seq(Event)
         /\ Numbers(Append(s, e)) = Numbers(s) \cup One(e)
         /\ InOrder(s) /\ Before(Numbers(s), One(e)) => InOrder(Append(s, e))
<1>1. Append(s, e) = s \o <<e>>
  OBVIOUS
<1>2. <<e>> \in Seq(Event) /\ Numbers(<<e>>) = One(e) /\ InOrder(<<e>>)
  BY OneStream
<1>3. /\ s \o <<e>> \in Seq(Event)
      /\ Numbers(s \o <<e>>) = Numbers(s) \cup Numbers(<<e>>)
      /\ InOrder(s) /\ InOrder(<<e>>) /\ Before(Numbers(s), Numbers(<<e>>))
           => InOrder(s \o <<e>>)
  BY <1>2, JoinedStream
<1>4. QED
  BY <1>1, <1>2, <1>3

LEMMA SplitStream ==
  ASSUME NEW s \in Seq(Event), s # <<>>, InOrder(s)
  PROVE  /\ Head(s) \in Event /\ Tail(s) \in Seq(Event)
         /\ Numbers(s) = One(Head(s)) \cup Numbers(Tail(s))
         /\ InOrder(Tail(s)) /\ Before(One(Head(s)), Numbers(Tail(s)))
<1> DEFINE h == Head(s)
           t == Tail(s)
           a == Len(s)
<1>1. /\ h \in Event /\ t \in Seq(Event) /\ a \in Nat \ {0} /\ h = s[1]
      /\ DOMAIN s = 1 .. a /\ DOMAIN t = 1 .. (a - 1)
  BY EmptySeq, HeadTailProperties
<1>2. \A i \in 1 .. (a - 1) : t[i] = s[i + 1]
  BY HeadTailProperties
<1> HIDE DEF h, t, a
<1>3. \A i \in LiveIn(t) : i \in Nat /\ i + 1 \in LiveIn(s) /\ 1 < i + 1 /\ s[i + 1] = t[i]
  BY <1>1, <1>2 DEF LiveIn
<1>4. h.live => 1 \in LiveIn(s)
  BY <1>1 DEF LiveIn
<1>5. \A i \in LiveIn(s) : (i = 1 /\ h.live) \/ (i - 1 \in LiveIn(t) /\ s[i] = t[i - 1])
  <2>1. ASSUME NEW i \in 1 .. a, s[i].live, i # 1
        PROVE  i - 1 \in LiveIn(t) /\ s[i] = t[i - 1]
    <3>1. i - 1 \in 1 .. (a - 1) /\ (i - 1) + 1 = i
      BY <1>1, <2>1
    <3>2. t[i - 1] = s[i]
      BY <1>2, <3>1
    <3>3. QED
      BY <1>1, <2>1, <3>1, <3>2 DEF LiveIn
  <2>2. QED
    BY <1>1, <2>1 DEF LiveIn
<1>6. InOrder(t)
  <2>1. ASSUME NEW i \in LiveIn(t), NEW j \in LiveIn(t), i < j PROVE t[i].n < t[j].n
    <3>1. i + 1 < j + 1 /\ i + 1 \in LiveIn(s) /\ j + 1 \in LiveIn(s)
      BY <1>3, <2>1
    <3>2. s[i + 1].n < s[j + 1].n
      BY <3>1 DEF InOrder
    <3>3. QED
      BY <1>3, <3>2
  <2>2. QED
    BY <2>1 DEF InOrder
<1>7. Before(One(h), Numbers(t))
  <2>1. ASSUME h.live, NEW i \in LiveIn(t) PROVE h.n < t[i].n
    <3>1. s[1].n < s[i + 1].n
      BY <1>3, <1>4, <2>1 DEF InOrder
    <3>2. QED
      BY <1>1, <1>3, <3>1
  <2>2. QED
    BY <2>1 DEF Before, One, Numbers
<1>8. Numbers(s) = One(h) \cup Numbers(t)
  <2>1. Numbers(s) \subseteq One(h) \cup Numbers(t)
    BY <1>1, <1>5 DEF Numbers, One
  <2>2. Numbers(t) \subseteq Numbers(s)
    BY <1>3 DEF Numbers
  <2>3. One(h) \subseteq Numbers(s)
    BY <1>1, <1>4 DEF Numbers, One
  <2>4. QED
    BY <2>1, <2>2, <2>3
<1>9. QED
  BY <1>1, <1>6, <1>7, <1>8 DEF h, t

-----------------------------------------------------------------------------
(***************************************************************************)
(* A stream: what the client got, what the handler holds and what waits in *)
(* the channel, in this order, with what the channel missed, are the       *)
(* events from a + 1 to b.                                                 *)
(***************************************************************************)
Whole(g, h, q, m, a, b) ==
  /\ (Numbers(g) \cup One(h) \cup Numbers(q)) \cap m = {}
  /\ Numbers(g) \cup One(h) \cup Numbers(q) \cup m = (a + 1) .. b

Sorted(g, h, q) ==
  /\ InOrder(g) /\ InOrder(q)
  /\ Before(Numbers(g), One(h)) /\ Before(Numbers(g), Numbers(q))
  /\ Before(One(h), Numbers(q))

LEMMA NoOne == NoEvent \in Event /\ One(NoEvent) = {} /\ ~NoEvent.live
BY DEF NoEvent, Event, One

LEMMA LiveOne ==
  ASSUME NEW n \in Nat
  PROVE  Live(n) \in Event /\ One(Live(n)) = {n}
BY DEF Live, Event, One

\* The hub offers an event: the channel takes it or misses it.
LEMMA StreamOffered ==
  ASSUME NEW g \in Seq(Event), NEW h \in Event, NEW q \in Seq(Event), NEW m,
         NEW a \in Nat, NEW b \in Nat, a <= b,
         Whole(g, h, q, m, a, b), Sorted(g, h, q)
  PROVE  /\ Whole(g, h, Append(q, Live(b + 1)), m, a, b + 1)
         /\ Sorted(g, h, Append(q, Live(b + 1)))
         /\ Whole(g, h, q, m \cup {b + 1}, a, b + 1)
<1> DEFINE r == Append(q, Live(b + 1))
           G == Numbers(g)
           H == One(h)
           Q == Numbers(q)
<1>1. Live(b + 1) \in Event /\ One(Live(b + 1)) = {b + 1}
  <2>1. b + 1 \in Nat
    OBVIOUS
  <2>2. QED
    BY <2>1, LiveOne
<1>2. /\ Numbers(r) = Q \cup {b + 1}
      /\ InOrder(q) /\ Before(Q, {b + 1}) => InOrder(r)
  BY <1>1, AppendedStream
<1>3. /\ (G \cup H \cup Q) \cap m = {} /\ G \cup H \cup Q \cup m = (a + 1) .. b
      /\ InOrder(g) /\ InOrder(q)
      /\ Before(G, H) /\ Before(G, Q) /\ Before(H, Q)
  BY DEF Whole, Sorted
<1> HIDE DEF r, G, H, Q
<1>4. \A x \in G \cup H \cup Q \cup m : x \in Int /\ x < b + 1
  BY <1>3
<1>5. (a + 1) .. (b + 1) = ((a + 1) .. b) \cup {b + 1}
  OBVIOUS
<1>6. /\ (G \cup H \cup (Q \cup {b + 1})) \cap m = {}
      /\ G \cup H \cup (Q \cup {b + 1}) \cup m = (a + 1) .. (b + 1)
  BY <1>3, <1>4, <1>5
<1>7. /\ (G \cup H \cup Q) \cap (m \cup {b + 1}) = {}
      /\ G \cup H \cup Q \cup (m \cup {b + 1}) = (a + 1) .. (b + 1)
  BY <1>3, <1>4, <1>5
<1>8. Before(Q, {b + 1}) /\ Before(G, Q \cup {b + 1}) /\ Before(H, Q \cup {b + 1})
  BY <1>3, <1>4 DEF Before
<1>9. Whole(g, h, r, m, a, b + 1)
  BY <1>2, <1>6 DEF Whole, G, H, Q
<1>10. Sorted(g, h, r)
  BY <1>2, <1>3, <1>8 DEF Sorted, G, H, Q
<1>11. Whole(g, h, q, m \cup {b + 1}, a, b + 1)
  BY <1>7 DEF Whole, G, H, Q
<1>12. QED
  BY <1>9, <1>10, <1>11 DEF r

\* The handler sends the copy to its channel.
LEMMA StreamCopied ==
  ASSUME NEW g \in Seq(Event), NEW h \in Event, NEW q \in Seq(Event), NEW m, NEW a, NEW b,
         ~h.live, Whole(g, h, q, m, a, b), Sorted(g, h, q)
  PROVE  /\ Whole(g, NoEvent, Append(q, h), m, a, b)
         /\ Sorted(g, NoEvent, Append(q, h))
<1>1. One(h) = {} /\ One(NoEvent) = {}
  BY NoOne DEF One
<1>2. /\ Numbers(Append(q, h)) = Numbers(q)
      /\ InOrder(q) => InOrder(Append(q, h))
  BY <1>1, AppendedStream DEF Before
<1>3. QED
  BY <1>1, <1>2 DEF Whole, Sorted

\* The handler takes the first event of its channel.
LEMMA StreamTaken ==
  ASSUME NEW g \in Seq(Event), NEW h \in Event, NEW q \in Seq(Event), NEW m, NEW a, NEW b,
         ~h.live, q # <<>>, Whole(g, h, q, m, a, b), Sorted(g, h, q)
  PROVE  /\ Whole(g, Head(q), Tail(q), m, a, b)
         /\ Sorted(g, Head(q), Tail(q))
<1>1. One(h) = {}
  BY DEF One
<1>2. InOrder(q)
  BY DEF Sorted
<1>3. /\ Numbers(q) = One(Head(q)) \cup Numbers(Tail(q))
      /\ InOrder(Tail(q)) /\ Before(One(Head(q)), Numbers(Tail(q)))
  BY <1>2, SplitStream
<1>4. /\ Before(Numbers(g), One(Head(q))) /\ Before(Numbers(g), Numbers(Tail(q)))
  BY <1>3 DEF Sorted, Before
<1>5. QED
  BY <1>1, <1>3, <1>4 DEF Whole, Sorted

\* The client received what the handler held.
LEMMA StreamWritten ==
  ASSUME NEW g \in Seq(Event), NEW h \in Event, NEW q \in Seq(Event), NEW m, NEW a, NEW b,
         Whole(g, h, q, m, a, b), Sorted(g, h, q)
  PROVE  /\ Whole(Append(g, h), NoEvent, q, m, a, b)
         /\ Sorted(Append(g, h), NoEvent, q)
<1>1. One(NoEvent) = {}
  BY NoOne
<1>2. InOrder(g) /\ Before(Numbers(g), One(h))
  BY DEF Sorted
<1>3. /\ Numbers(Append(g, h)) = Numbers(g) \cup One(h)
      /\ InOrder(Append(g, h))
  BY <1>2, AppendedStream
<1>4. Before(Numbers(g) \cup One(h), Numbers(q))
  BY DEF Sorted, Before
<1>5. QED
  BY <1>1, <1>3, <1>4 DEF Whole, Sorted, Before

\* The parts of a stream, one after the other.
LEMMA StreamJoined ==
  ASSUME NEW g \in Seq(Event), NEW h \in Event, NEW q \in Seq(Event), NEW m, NEW a, NEW b,
         Whole(g, h, q, m, a, b), Sorted(g, h, q)
  PROVE  /\ InOrder(g \o <<h>> \o q)
         /\ Numbers(g \o <<h>> \o q) \cap m = {}
         /\ Numbers(g \o <<h>> \o q) \cup m = (a + 1) .. b
<1> DEFINE o == <<h>>
           u == g \o o
           v == u \o q
<1>1. o \in Seq(Event) /\ Numbers(o) = One(h) /\ InOrder(o)
  BY OneStream
<1> HIDE DEF o
<1>2. /\ InOrder(g) /\ InOrder(q)
      /\ Before(Numbers(g), Numbers(o)) /\ Before(Numbers(g), Numbers(q))
      /\ Before(Numbers(o), Numbers(q))
  BY <1>1 DEF Sorted
<1>3. u \in Seq(Event) /\ Numbers(u) = Numbers(g) \cup Numbers(o) /\ InOrder(u)
  BY <1>1, <1>2, JoinedStream
<1> HIDE DEF u
<1>4. Before(Numbers(u), Numbers(q))
  BY <1>2, <1>3 DEF Before
<1>5. Numbers(v) = Numbers(u) \cup Numbers(q) /\ InOrder(v)
  BY <1>2, <1>3, <1>4, JoinedStream
<1>6. Numbers(v) = Numbers(g) \cup One(h) \cup Numbers(q)
  BY <1>1, <1>3, <1>5
<1> HIDE DEF v
<1>7. InOrder(v) /\ Numbers(v) \cap m = {} /\ Numbers(v) \cup m = (a + 1) .. b
  BY <1>5, <1>6 DEF Whole
<1>8. QED
  BY <1>7 DEF v, u, o

-----------------------------------------------------------------------------
(***************************************************************************)
(* The invariant of the hub.                                               *)
(***************************************************************************)
HubTyped ==
  /\ nextSeq \in Nat /\ last \in Nat
  /\ members \subseteq Client /\ shutQueues \subseteq Client
  /\ DOMAIN handler = Client /\ DOMAIN writer = Client /\ DOMAIN conn = Client
  /\ held \in [Client -> Event]
  /\ queue \in [Client -> Seq(Event)] /\ got \in [Client -> Seq(Event)]
  /\ DOMAIN missed = Client /\ since \in [Client -> Nat]

\* A handler that is registered has not left yet, one whose channel is closed
\* has, and only one that writes holds writeMu.
Place(c) ==
  /\ c \in members <=> handler[c] \in {"copied", "loop", "write", "leave"}
  /\ c \in shutQueues => handler[c] \in {"close", "ended"}
  /\ conn[c] = "none" => handler[c] = "off"
  /\ writer[c] = "handler" => handler[c] = "write"

\* Nothing was offered before the handler registered; between two writes it
\* holds no event that was offered to it.
Idle(c) ==
  /\ handler[c] \in {"off", "open"} => got[c] = <<>> /\ queue[c] = <<>> /\ missed[c] = {}
  /\ handler[c] \in {"copied", "loop"} => ~held[c].live

StreamOf(c) ==
  /\ since[c] <= nextSeq
  /\ handler[c] \in {"copied", "loop", "write"} =>
       /\ Whole(got[c], held[c], queue[c], missed[c], since[c], nextSeq)
       /\ Sorted(got[c], held[c], queue[c])

HubInv ==
  /\ HubTyped /\ ~panicked
  /\ \A c \in Client : Place(c) /\ Idle(c) /\ StreamOf(c)

\* A client that a step does not concern.
LEMMA Unmoved ==
  ASSUME NEW d, Place(d), Idle(d), StreamOf(d),
         handler'[d] = handler[d], held'[d] = held[d], queue'[d] = queue[d],
         got'[d] = got[d], missed'[d] = missed[d], since'[d] = since[d],
         writer'[d] = writer[d], conn'[d] = conn[d],
         d \in members' <=> d \in members, d \in shutQueues' <=> d \in shutQueues,
         nextSeq' = nextSeq
  PROVE  Place(d)' /\ Idle(d)' /\ StreamOf(d)'
<1>1. Place(d)'
  BY DEF Place
<1>2. Idle(d)'
  BY DEF Idle
<1>3. StreamOf(d)'
  BY DEF StreamOf
<1>4. QED
  BY <1>1, <1>2, <1>3

\* Steps of the managers, the readers and the clients.
LEMMA QuietKeeps ==
  ASSUME HubInv, UNCHANGED <<nextSeq, last, members, queue, shutQueues, handler, held,
                             writer, conn, historyVars>>
  PROVE  HubInv'
<1>1. HubTyped'
  BY DEF HubInv, HubTyped, historyVars
<1>2. ASSUME NEW d \in Client PROVE Place(d)' /\ Idle(d)' /\ StreamOf(d)'
  BY Unmoved DEF HubInv, historyVars
<1>3. QED
  BY <1>1, <1>2 DEF HubInv, historyVars

LEMMA LocksKeep ==
  ASSUME HubInv, NEW c \in Client, NEW who,
         writer' = [writer EXCEPT ![c] = who], who = "handler" => handler[c] = "write",
         UNCHANGED <<nextSeq, last, members, queue, shutQueues, handler, held,
                     conn, historyVars>>
  PROVE  HubInv'
<1>1. HubTyped'
  BY DEF HubInv, HubTyped, historyVars
<1>2. writer'[c] = who /\ \A d \in Client : d # c => writer'[d] = writer[d]
  BY DEF HubInv, HubTyped
<1>3. ASSUME NEW d \in Client PROVE Place(d)' /\ Idle(d)' /\ StreamOf(d)'
  <2>0. Place(d) /\ Idle(d) /\ StreamOf(d)
    BY DEF HubInv
  <2>1. CASE d = c
    <3>1. Place(d)'
      BY <1>2, <2>0, <2>1 DEF Place
    <3>2. Idle(d)' /\ StreamOf(d)'
      BY <2>0 DEF Idle, StreamOf, historyVars
    <3>3. QED
      BY <3>1, <3>2
  <2>2. CASE d # c
    BY <1>2, <2>0, <2>2, Unmoved DEF historyVars
  <2>3. QED
    BY <2>1, <2>2
<1>4. QED
  BY <1>1, <1>3 DEF HubInv, historyVars

\* The connection changes, and a handler that is not among the members goes on.
LEMMA ConnKeeps ==
  ASSUME HubInv, NEW c \in Client, NEW to, to # "none",
         conn' = [conn EXCEPT ![c] = to],
         UNCHANGED <<nextSeq, last, members, queue, shutQueues, held, writer, historyVars>>,
         \/ handler' = handler
         \/ handler[c] = "off" /\ handler' = [handler EXCEPT ![c] = "open"]
         \/ handler[c] = "close" /\ handler' = [handler EXCEPT ![c] = "ended"]
  PROVE  HubInv'
<1>1. HubTyped'
  BY DEF HubInv, HubTyped, historyVars
<1>2. conn'[c] = to /\ \A d \in Client : d # c => conn'[d] = conn[d] /\ handler'[d] = handler[d]
  BY DEF HubInv, HubTyped
<1>3. \/ handler'[c] = handler[c]
      \/ handler[c] = "off" /\ handler'[c] = "open"
      \/ handler[c] = "close" /\ handler'[c] = "ended"
  BY DEF HubInv, HubTyped
<1>4. ASSUME NEW d \in Client PROVE Place(d)' /\ Idle(d)' /\ StreamOf(d)'
  <2>0. Place(d) /\ Idle(d) /\ StreamOf(d)
    BY DEF HubInv
  <2>1. CASE d = c
    <3>1. Place(d)'
      BY <1>2, <1>3, <2>0, <2>1 DEF Place
    <3>2. Idle(d)'
      BY <1>3, <2>0, <2>1 DEF Idle, historyVars
    <3>3. StreamOf(d)'
      BY <1>3, <2>0, <2>1 DEF StreamOf, historyVars
    <3>4. QED
      BY <3>1, <3>2, <3>3
  <2>2. CASE d # c
    BY <1>2, <2>0, <2>2, Unmoved DEF historyVars
  <2>3. QED
    BY <2>1, <2>2
<1>5. QED
  BY <1>1, <1>4 DEF HubInv, historyVars

LEMMA PublishKeeps ==
  ASSUME HubInv, Publish
  PROVE  HubInv'
<1>1. HubTyped /\ ~panicked /\ \A c \in Client : Place(c) /\ Idle(c) /\ StreamOf(c)
  BY DEF HubInv
<1> DEFINE e == Live(nextSeq + 1)
<1>2. nextSeq + 1 \in Nat /\ e \in Event
  BY <1>1, LiveOne DEF HubTyped
<1>3. /\ nextSeq' = nextSeq + 1
      /\ queue' = [c \in Client |-> IF c \in members /\ ~Full(c)
                                    THEN Append(queue[c], e) ELSE queue[c]]
      /\ missed' = [c \in Client |-> IF c \in members /\ Full(c)
                                     THEN missed[c] \cup {nextSeq + 1} ELSE missed[c]]
      /\ panicked' = (panicked \/ members \cap shutQueues # {})
      /\ last' = (IF owed = "log" THEN last ELSE nextSeq')
      /\ UNCHANGED <<members, shutQueues, handler, held, writer, conn, got, since>>
  BY DEF Publish, Offered, PublishIdle
<1> HIDE DEF e
<1>4. HubTyped'
  <2>1. \A c \in Client : queue[c] \in Seq(Event) /\ Append(queue[c], e) \in Seq(Event)
    BY <1>1, <1>2 DEF HubTyped
  <2>2. queue' \in [Client -> Seq(Event)]
    BY <1>3, <2>1
  <2>3. last' \in Nat
    BY <1>1, <1>2, <1>3 DEF HubTyped
  <2>4. QED
    BY <1>1, <1>2, <1>3, <2>2, <2>3 DEF HubTyped
<1>5. members \cap shutQueues = {}
  BY <1>1 DEF Place, HubTyped
<1>6. ~panicked'
  BY <1>1, <1>3, <1>5
<1>7. ASSUME NEW c \in Client PROVE Place(c)' /\ Idle(c)' /\ StreamOf(c)'
  <2>0. Place(c) /\ Idle(c) /\ StreamOf(c)
    BY <1>1
  <2>1. Place(c)'
    BY <1>3, <2>0 DEF Place
  <2>2. /\ got[c] \in Seq(Event) /\ held[c] \in Event /\ queue[c] \in Seq(Event)
        /\ since[c] \in Nat /\ nextSeq \in Nat /\ since[c] <= nextSeq
    BY <1>1, <2>0 DEF HubTyped, StreamOf
  <2>3. since'[c] <= nextSeq'
    BY <1>3, <2>2
  <2>4. CASE c \notin members
    <3>1. queue'[c] = queue[c] /\ missed'[c] = missed[c]
      BY <1>3, <2>4
    <3>2. ~(handler[c] \in {"copied", "loop", "write"})
      BY <2>0, <2>4 DEF Place
    <3>3. Idle(c)'
      BY <1>3, <2>0, <3>1 DEF Idle
    <3>4. StreamOf(c)'
      BY <1>3, <2>3, <3>2 DEF StreamOf
    <3>5. QED
      BY <2>1, <3>3, <3>4
  <2>5. CASE c \in members
    <3>1. ~(handler[c] \in {"off", "open"})
      BY <2>0, <2>5 DEF Place
    <3>2. Idle(c)'
      BY <1>3, <2>0, <3>1 DEF Idle
    <3>3. ASSUME handler[c] \in {"copied", "loop", "write"}
          PROVE  /\ Whole(got[c], held[c], queue'[c], missed'[c], since[c], nextSeq + 1)
                 /\ Sorted(got[c], held[c], queue'[c])
      <4>1. /\ Whole(got[c], held[c], queue[c], missed[c], since[c], nextSeq)
            /\ Sorted(got[c], held[c], queue[c])
        BY <2>0, <3>3 DEF StreamOf
      <4>2. /\ Whole(got[c], held[c], Append(queue[c], e), missed[c], since[c], nextSeq + 1)
            /\ Sorted(got[c], held[c], Append(queue[c], e))
            /\ Whole(got[c], held[c], queue[c], missed[c] \cup {nextSeq + 1}, since[c], nextSeq + 1)
        BY <2>2, <4>1, StreamOffered DEF e
      <4>3. CASE Full(c)
        <5>1. queue'[c] = queue[c] /\ missed'[c] = missed[c] \cup {nextSeq + 1}
          BY <1>3, <2>5, <4>3
        <5>2. QED
          BY <4>1, <4>2, <5>1
      <4>4. CASE ~Full(c)
        <5>1. queue'[c] = Append(queue[c], e) /\ missed'[c] = missed[c]
          BY <1>3, <2>5, <4>4
        <5>2. QED
          BY <4>2, <5>1
      <4>5. QED
        BY <4>3, <4>4
    <3>4. StreamOf(c)'
      BY <1>3, <2>3, <3>3 DEF StreamOf
    <3>5. QED
      BY <2>1, <3>2, <3>4
  <2>6. QED
    BY <2>4, <2>5
<1>8. QED
  BY <1>4, <1>6, <1>7 DEF HubInv

LEMMA SubscribeKeeps ==
  ASSUME HubInv, NEW c \in Client, Subscribe(c)
  PROVE  HubInv'
<1>1. HubTyped /\ ~panicked /\ \A d \in Client : Place(d) /\ Idle(d) /\ StreamOf(d)
  BY DEF HubInv
<1> DEFINE e == [n |-> last, live |-> FALSE]
<1>2. e \in Event /\ ~e.live /\ One(e) = {}
  BY <1>1 DEF HubTyped, Event, One
<1>3. /\ handler[c] = "open" /\ handler' = [handler EXCEPT ![c] = "copied"]
      /\ members' = members \cup {c} /\ held' = [held EXCEPT ![c] = e]
      /\ since' = [since EXCEPT ![c] = nextSeq]
      /\ UNCHANGED <<nextSeq, last, queue, shutQueues, writer, conn, got, missed, panicked>>
  BY DEF Subscribe, Goes, SubscribeIdle
<1> HIDE DEF e
<1>4. HubTyped'
  BY <1>1, <1>2, <1>3 DEF HubTyped
<1>5. /\ handler'[c] = "copied" /\ held'[c] = e /\ since'[c] = nextSeq
      /\ \A d \in Client : d # c => /\ handler'[d] = handler[d] /\ held'[d] = held[d]
                                    /\ since'[d] = since[d]
  BY <1>1, <1>3 DEF HubTyped
<1>6. ASSUME NEW d \in Client PROVE Place(d)' /\ Idle(d)' /\ StreamOf(d)'
  <2>0. Place(d) /\ Idle(d) /\ StreamOf(d)
    BY <1>1
  <2>1. CASE d = c
    <3>1. Place(d)'
      BY <1>3, <1>5, <2>0, <2>1 DEF Place
    <3>2. Idle(d)'
      BY <1>2, <1>5, <2>1 DEF Idle
    <3>3. got'[c] = <<>> /\ queue'[c] = <<>> /\ missed'[c] = {}
      BY <1>3, <2>0, <2>1 DEF Idle
    <3>4. /\ Whole(<<>>, e, <<>>, {}, nextSeq, nextSeq) /\ Sorted(<<>>, e, <<>>)
      <4>1. (nextSeq + 1) .. nextSeq = {} /\ nextSeq <= nextSeq
        BY <1>1 DEF HubTyped
      <4>2. QED
        BY <1>2, <4>1, EmptyStream DEF Whole, Sorted, Before
    <3>5. nextSeq <= nextSeq
      BY <1>1 DEF HubTyped
    <3>6. StreamOf(d)'
      BY <1>3, <1>5, <2>1, <3>3, <3>4, <3>5 DEF StreamOf
    <3>7. QED
      BY <3>1, <3>2, <3>6
  <2>2. CASE d # c
    BY <1>3, <1>5, <2>0, <2>2, Unmoved
  <2>3. QED
    BY <2>1, <2>2
<1>7. QED
  BY <1>1, <1>3, <1>4, <1>6 DEF HubInv

\* The handler moves an event: it sends the copy, takes an event from its
\* channel, writes it, or gives up.
LEMMA HandlerMoves ==
  ASSUME HubInv, NEW c \in Client, HubTyped',
         handler[c] \in {"copied", "loop", "write"},
         handler'[c] \in {"loop", "write", "leave"},
         writer'[c] # "handler",
         handler'[c] = "loop" => ~held'[c].live,
         handler'[c] # "leave" =>
           /\ Whole(got'[c], held'[c], queue'[c], missed[c], since[c], nextSeq)
           /\ Sorted(got'[c], held'[c], queue'[c]),
         \A d \in Client : d # c => /\ handler'[d] = handler[d] /\ held'[d] = held[d]
                                   /\ queue'[d] = queue[d] /\ got'[d] = got[d]
                                   /\ writer'[d] = writer[d],
         UNCHANGED <<nextSeq, members, shutQueues, conn, missed, since, panicked>>
  PROVE  HubInv'
<1>1. ~panicked /\ \A d \in Client : Place(d) /\ Idle(d) /\ StreamOf(d)
  BY DEF HubInv
<1>2. ASSUME NEW d \in Client PROVE Place(d)' /\ Idle(d)' /\ StreamOf(d)'
  <2>0. Place(d) /\ Idle(d) /\ StreamOf(d)
    BY <1>1
  <2>1. CASE d = c
    <3>1. Place(d)'
      BY <2>0, <2>1 DEF Place
    <3>2. Idle(d)'
      BY <2>1 DEF Idle
    <3>3. StreamOf(d)'
      BY <2>0, <2>1 DEF StreamOf
    <3>4. QED
      BY <3>1, <3>2, <3>3
  <2>2. CASE d # c
    BY <2>0, <2>2, Unmoved
  <2>3. QED
    BY <2>1, <2>2
<1>3. QED
  BY <1>1, <1>2 DEF HubInv

LEMMA HandlerKeeps ==
  ASSUME HubInv, NEW c \in Client,
         SendCopy(c) \/ Take(c) \/ Notice(c) \/ WriteEnds(c)
  PROVE  HubInv'
<1>1. HubTyped /\ Place(c) /\ Idle(c) /\ StreamOf(c)
  BY DEF HubInv
<1>2. /\ got[c] \in Seq(Event) /\ held[c] \in Event /\ queue[c] \in Seq(Event)
      /\ NoEvent \in Event /\ ~NoEvent.live
  BY <1>1, NoOne DEF HubTyped
<1>3. handler[c] \in {"copied", "loop", "write"} =>
        /\ Whole(got[c], held[c], queue[c], missed[c], since[c], nextSeq)
        /\ Sorted(got[c], held[c], queue[c])
  BY <1>1 DEF StreamOf
<1>4. /\ handler[c] # "write" => writer[c] # "handler"
      /\ handler[c] \in {"copied", "loop"} => ~held[c].live
  BY <1>1 DEF Place, Idle
<1>5. CASE SendCopy(c)
  <2>1. /\ handler[c] = "copied" /\ handler' = [handler EXCEPT ![c] = "loop"]
        /\ queue' = [queue EXCEPT ![c] = Append(queue[c], held[c])]
        /\ held' = [held EXCEPT ![c] = NoEvent]
        /\ UNCHANGED <<nextSeq, last, members, shutQueues, conn, missed, since, panicked, writer, got>>
    BY <1>5 DEF SendCopy, Goes, historyVars
  <2>2. Append(queue[c], held[c]) \in Seq(Event)
    BY <1>2
  <2>3. HubTyped'
    BY <1>1, <1>2, <2>1, <2>2 DEF HubTyped
  <2>4. /\ handler'[c] = "loop" /\ queue'[c] = Append(queue[c], held[c]) /\ held'[c] = NoEvent
        /\ got'[c] = got[c] /\ writer'[c] = writer[c]
        /\ \A d \in Client : d # c => /\ handler'[d] = handler[d] /\ held'[d] = held[d]
                                      /\ queue'[d] = queue[d] /\ got'[d] = got[d]
                                      /\ writer'[d] = writer[d]
    BY <1>1, <2>1 DEF HubTyped
  <2>5. /\ Whole(got[c], NoEvent, Append(queue[c], held[c]), missed[c], since[c], nextSeq)
        /\ Sorted(got[c], NoEvent, Append(queue[c], held[c]))
    BY <1>2, <1>3, <1>4, <2>1, StreamCopied
  <2>6. QED
    BY <1>2, <1>4, <2>1, <2>3, <2>4, <2>5, HandlerMoves
<1>6. CASE Take(c)
  <2>1. /\ handler[c] = "loop" /\ queue[c] # <<>>
        /\ handler' = [handler EXCEPT ![c] = "write"]
        /\ held' = [held EXCEPT ![c] = Head(queue[c])]
        /\ queue' = [queue EXCEPT ![c] = Tail(queue[c])]
        /\ UNCHANGED <<nextSeq, last, members, shutQueues, conn, missed, since, panicked, writer, got>>
    BY <1>6 DEF Take, Goes, LoopIdle, historyVars
  <2>2. Head(queue[c]) \in Event /\ Tail(queue[c]) \in Seq(Event)
    BY <1>2, <2>1, HeadTailProperties
  <2>3. HubTyped'
    BY <1>1, <1>2, <2>1, <2>2 DEF HubTyped
  <2>4. /\ handler'[c] = "write" /\ queue'[c] = Tail(queue[c]) /\ held'[c] = Head(queue[c])
        /\ got'[c] = got[c] /\ writer'[c] = writer[c]
        /\ \A d \in Client : d # c => /\ handler'[d] = handler[d] /\ held'[d] = held[d]
                                      /\ queue'[d] = queue[d] /\ got'[d] = got[d]
                                      /\ writer'[d] = writer[d]
    BY <1>1, <2>1 DEF HubTyped
  <2>5. /\ Whole(got[c], Head(queue[c]), Tail(queue[c]), missed[c], since[c], nextSeq)
        /\ Sorted(got[c], Head(queue[c]), Tail(queue[c]))
    BY <1>2, <1>3, <1>4, <2>1, StreamTaken
  <2>6. QED
    BY <1>4, <2>1, <2>3, <2>4, <2>5, HandlerMoves
<1>7. CASE Notice(c)
  <2>1. /\ handler[c] = "loop" /\ handler' = [handler EXCEPT ![c] = "leave"]
        /\ UNCHANGED <<nextSeq, last, members, shutQueues, conn, missed, since, panicked, writer, got, held, queue>>
    BY <1>7 DEF Notice, Goes, LoopIdle, historyVars
  <2>2. queue' = queue
    BY <2>1
  <2>3. HubTyped'
    BY <1>1, <1>2, <2>1, <2>2 DEF HubTyped
  <2>4. /\ handler'[c] = "leave" /\ writer'[c] = writer[c]
        /\ \A d \in Client : d # c => /\ handler'[d] = handler[d] /\ held'[d] = held[d]
                                      /\ queue'[d] = queue[d] /\ got'[d] = got[d]
                                      /\ writer'[d] = writer[d]
    BY <1>1, <2>1 DEF HubTyped
  <2>5. QED
    BY <1>4, <2>1, <2>3, <2>4, HandlerMoves
<1>8. CASE WriteEnds(c)
  <2>1. /\ writer[c] = "handler" /\ writer' = [writer EXCEPT ![c] = "nobody"]
        /\ held' = [held EXCEPT ![c] = NoEvent]
        /\ \/ /\ handler' = [handler EXCEPT ![c] = "loop"]
              /\ got' = [got EXCEPT ![c] = Append(got[c], held[c])]
           \/ handler' = [handler EXCEPT ![c] = "leave"] /\ got' = got
        /\ UNCHANGED <<nextSeq, last, members, shutQueues, conn, missed, since, panicked, queue>>
    BY <1>8 DEF WriteEnds, Goes
  <2>2. Append(got[c], held[c]) \in Seq(Event) /\ handler[c] = "write"
    BY <1>1, <1>2, <2>1 DEF Place
  <2>3. HubTyped'
    BY <1>1, <1>2, <2>1, <2>2 DEF HubTyped
  <2>4. /\ held'[c] = NoEvent /\ queue'[c] = queue[c] /\ writer'[c] = "nobody"
        /\ \/ handler'[c] = "loop" /\ got'[c] = Append(got[c], held[c])
           \/ handler'[c] = "leave"
        /\ \A d \in Client : d # c => /\ handler'[d] = handler[d] /\ held'[d] = held[d]
                                      /\ queue'[d] = queue[d] /\ got'[d] = got[d]
                                      /\ writer'[d] = writer[d]
    BY <1>1, <2>1 DEF HubTyped
  <2>5. /\ Whole(Append(got[c], held[c]), NoEvent, queue[c], missed[c], since[c], nextSeq)
        /\ Sorted(Append(got[c], held[c]), NoEvent, queue[c])
    BY <1>2, <1>3, <2>2, StreamWritten
  <2>6. QED
    BY <1>2, <2>1, <2>2, <2>3, <2>4, <2>5, HandlerMoves
<1>9. QED
  BY <1>5, <1>6, <1>7, <1>8

LEMMA UnsubscribeSound ==
  ASSUME HubInv, NEW c \in Client, Unsubscribe(c)
  PROVE  HubInv'
<1>1. HubTyped /\ ~panicked /\ \A d \in Client : Place(d) /\ Idle(d) /\ StreamOf(d)
  BY DEF HubInv
<1>2. /\ handler[c] = "leave" /\ handler' = [handler EXCEPT ![c] = "close"]
      /\ members' = members \ {c} /\ shutQueues' = shutQueues \cup {c}
      /\ UNCHANGED <<nextSeq, last, queue, held, writer, conn, got, missed, since, panicked>>
  BY DEF Unsubscribe, Goes, LeaveIdle, historyVars
<1>3. HubTyped'
  BY <1>1, <1>2 DEF HubTyped
<1>4. handler'[c] = "close" /\ \A d \in Client : d # c => handler'[d] = handler[d]
  BY <1>1, <1>2 DEF HubTyped
<1>5. ASSUME NEW d \in Client PROVE Place(d)' /\ Idle(d)' /\ StreamOf(d)'
  <2>0. Place(d) /\ Idle(d) /\ StreamOf(d)
    BY <1>1
  <2>1. CASE d = c
    <3>1. Place(d)'
      BY <1>2, <1>4, <2>0, <2>1 DEF Place
    <3>2. Idle(d)' /\ StreamOf(d)'
      BY <1>2, <1>4, <2>0, <2>1 DEF Idle, StreamOf
    <3>3. QED
      BY <3>1, <3>2
  <2>2. CASE d # c
    BY <1>2, <1>4, <2>0, <2>2, Unmoved
  <2>3. QED
    BY <2>1, <2>2
<1>6. QED
  BY <1>1, <1>2, <1>3, <1>5 DEF HubInv

LEMMA HubInvInit == HubInit => HubInv
<1> SUFFICES ASSUME HubInit PROVE HubInv
  OBVIOUS
<1>1. HubTyped
  <2>1. NoEvent \in Event /\ <<>> \in Seq(Event)
    BY NoOne
  <2>2. QED
    BY <2>1 DEF HubInit, HubTyped
<1>2. ASSUME NEW c \in Client PROVE Place(c) /\ Idle(c) /\ StreamOf(c)
  BY DEF HubInit, Place, Idle, StreamOf
<1>3. QED
  BY <1>1, <1>2 DEF HubInv, HubInit

LEMMA HubInvStep ==
  ASSUME HubInv, [HubNext]_hubVars
  PROVE  HubInv'
<1>1. CASE UNCHANGED hubVars
  BY <1>1, QuietKeeps DEF hubVars
<1>2. ASSUME NEW k \in EventKind, Owe(k) PROVE HubInv'
  BY <1>2, QuietKeeps DEF Owe
<1>3. ASSUME NEW c \in Client, NEW x, Reads(c, x) PROVE HubInv'
  BY <1>3, QuietKeeps DEF Reads
<1>4. ASSUME NEW c \in Client, Connect(c) PROVE HubInv'
  <2>1. handler[c] = "off"
    BY <1>4 DEF Connect, HubInv, Place
  <2>2. /\ conn' = [conn EXCEPT ![c] = "up"] /\ handler' = [handler EXCEPT ![c] = "open"]
        /\ UNCHANGED <<nextSeq, last, members, queue, shutQueues, held, writer, historyVars>>
    BY <1>4 DEF Connect, Goes
  <2>3. QED
    BY <2>1, <2>2, ConnKeeps
<1>5. ASSUME NEW c \in Client, CloseConn(c) PROVE HubInv'
  <2>1. /\ handler[c] = "close" /\ handler' = [handler EXCEPT ![c] = "ended"]
        /\ conn' = [conn EXCEPT ![c] = "gone"]
        /\ UNCHANGED <<nextSeq, last, members, queue, shutQueues, held, writer, historyVars>>
    BY <1>5 DEF CloseConn, Goes, LeaveIdle
  <2>2. QED
    BY <2>1, ConnKeeps
<1>6. ASSUME NEW c \in Client, NEW from, NEW to \in {"up", "stalled", "gone"},
             ClientTurns(c, from, to)
      PROVE  HubInv'
  <2>1. /\ handler' = handler /\ conn' = [conn EXCEPT ![c] = to]
        /\ UNCHANGED <<nextSeq, last, members, queue, shutQueues, held, writer, historyVars>>
    BY <1>6 DEF ClientTurns
  <2>2. to # "none"
    OBVIOUS
  <2>3. QED
    BY <2>1, <2>2, ConnKeeps
<1>7. ASSUME NEW c \in Client, WriteBegins(c) \/ AnswerBegins(c) \/ AnswerEnds(c)
      PROVE  HubInv'
  <2>1. CASE WriteBegins(c)
    BY <2>1, LocksKeep DEF WriteBegins, Locks
  <2>2. CASE AnswerBegins(c)
    <3>1. /\ writer' = [writer EXCEPT ![c] = "reader"]
          /\ UNCHANGED <<nextSeq, last, members, queue, shutQueues, handler, held,
                         conn, historyVars>>
      BY <2>2 DEF AnswerBegins, Locks
    <3>2. QED
      BY <3>1, LocksKeep
  <2>3. CASE AnswerEnds(c)
    <3>1. /\ writer' = [writer EXCEPT ![c] = "nobody"]
          /\ UNCHANGED <<nextSeq, last, members, queue, shutQueues, handler, held,
                         conn, historyVars>>
      BY <2>3 DEF AnswerEnds
    <3>2. QED
      BY <3>1, LocksKeep
  <2>4. QED
    BY <1>7, <2>1, <2>2, <2>3
<1>8. ASSUME NEW c \in Client, HandlerStep(c) PROVE HubInv'
  BY <1>5, <1>7, <1>8, SubscribeKeeps, HandlerKeeps, UnsubscribeSound DEF HandlerStep
<1>9. ASSUME NEW c \in Client, ReaderStep(c) PROVE HubInv'
  BY <1>3, <1>7, <1>9 DEF ReaderStep, ReadFails
<1>10. ASSUME NEW c \in Client, ReadsPing(c) \/ ReadsClose(c) PROVE HubInv'
  BY <1>3, <1>10 DEF ReadsPing, ReadsClose
<1>11. ASSUME NEW c \in Client, Stalls(c) \/ Resumes(c) \/ Leaves(c) PROVE HubInv'
  <2>1. \E from, to : to \in {"up", "stalled", "gone"} /\ ClientTurns(c, from, to)
    BY <1>11 DEF Stalls, Resumes, Leaves
  <2>2. QED
    BY <1>6, <2>1
<1>12. QED
  BY <1>1, <1>2, <1>4, <1>8, <1>9, <1>10, <1>11, PublishKeeps DEF HubNext

LEMMA HubInvDelivers == HubInv => EventsDelivered
<1> SUFFICES ASSUME HubInv PROVE EventsDelivered
  OBVIOUS
<1>1. ASSUME NEW c \in Client, handler[c] \in {"copied", "loop", "write"}
      PROVE  LET way == got[c] \o <<held[c]>> \o queue[c]
             IN  /\ InOrder(way) /\ Numbers(way) \cap missed[c] = {}
                 /\ Numbers(way) \cup missed[c] = (since[c] + 1) .. nextSeq
  <2>1. got[c] \in Seq(Event) /\ held[c] \in Event /\ queue[c] \in Seq(Event)
    BY DEF HubInv, HubTyped
  <2>2. /\ Whole(got[c], held[c], queue[c], missed[c], since[c], nextSeq)
        /\ Sorted(got[c], held[c], queue[c])
    BY <1>1 DEF HubInv, StreamOf
  <2>3. QED
    BY <2>1, <2>2, StreamJoined
<1>2. EveryEventOnce
  BY <1>1 DEF EveryEventOnce, InOrder, Numbers
<1>3. QED
  BY <1>2 DEF EventsDelivered, NoSendOnClosed, HubInv

\* coreEventHub and its handlers, for every number of clients and events and
\* every size of a channel, with bursts or without: a stream that is up is
\* offered each event after its subscription once and in order, and no event
\* is sent to a channel that unsubscribe closed.
THEOREM EventsAlwaysDelivered == HubSpec => []EventsDelivered
<1>1. HubInit => HubInv
  BY HubInvInit
<1>2. HubInv /\ [HubNext]_hubVars => HubInv'
  BY HubInvStep
<1>3. HubInv => EventsDelivered
  BY HubInvDelivers
<1>4. QED
  BY <1>1, <1>2, <1>3, PTL DEF HubSpec
=============================================================================
