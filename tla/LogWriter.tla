----------------------------- MODULE LogWriter ------------------------------
(***************************************************************************)
(* boundedLogWriter: the file that keeps the output of the core.  Each     *)
(* launch has a writer of its own; a goroutine that copies output may      *)
(* still call Write when the launch was cleaned up and the next one writes *)
(* to the same file.  Every method runs under the writer's mutex and is an *)
(* action; what the file system refuses is a choice of the action.         *)
(*                                                                         *)
(* The bytes of a file are numbered in the order in which they reached it; *)
(* every LineLength-th is a newline.                                       *)
(***************************************************************************)
EXTENDS Naturals, Sequences

CONSTANTS
  Launch,        \* launches, in order: 1 .. n
  LogPath, LogLimit,  \* paths and maxBytes of the profiles (no path: as not saved)
  LineLength,
  LeftOver,      \* bytes of the file that an earlier service left
  MaxChunk, MaxLogBytes, MaxUpdates, MaxLogFaults   \* bounds

ASSUME LogAssumption ==
  /\ Launch \subseteq Nat /\ LogLimit \subseteq Nat \ {0}
  /\ {LineLength, MaxChunk} \subseteq Nat \ {0}
  /\ {LeftOver, MaxLogBytes, MaxUpdates, MaxLogFaults} \subseteq Nat

VARIABLES
  log,           \* the files
  logWriter,     \* the writers: st is "none", "live" or "closed"
  logged,        \* history: bytes that reached the file so far
  torn,          \* history: files that a failing trim cut short
  dirty,         \* history: writers whose last operation failed
  logFaults, updates

logVars == <<log, logWriter, logged, torn, dirty, logFaults, updates>>

Settings == [path : LogPath, save : BOOLEAN, max : LogLimit]
Bytes(from, to) == [i \in 1 .. (to - from) |-> from + i]
Newline(b) == b % LineLength = 0

LogInit ==
  /\ log = [p \in LogPath |-> Bytes(0, LeftOver)]
  /\ logged = [p \in LogPath |-> LeftOver]
  /\ logWriter = [w \in Launch |-> [st |-> "none", open |-> FALSE,
                                    set |-> CHOOSE s \in Settings : TRUE]]
  /\ torn = {} /\ dirty = {} /\ logFaults = 0 /\ updates = 0

-----------------------------------------------------------------------------
(***************************************************************************)
(* The helpers return what can become of the file: its content, whether    *)
(* the writer has it open, and whether the operation failed or tore it.    *)
(***************************************************************************)
Result(file, open, err) == [file |-> file, open |-> open, err |-> err, torn |-> FALSE]
Torn(file, open) == [file |-> file, open |-> open, err |-> TRUE, torn |-> TRUE]
ClosedIfFailed(r) == [file |-> r.file, open |-> ~r.err, err |-> r.err, torn |-> r.torn]

Target(max) == LET t == (max * 7) \div 10 IN IF t < 1 THEN 1 ELSE t

\* Mutant: the offset is the size that is to be kept.
TailFromTarget(file, target) ==
  IF Len(file) <= target THEN file ELSE SubSeq(file, target + 1, Len(file))

readLogTail(file, target) ==
  LET tail  == SubSeq(file, Len(file) - target + 1, Len(file))
      ends  == {i \in 1 .. (target - 1) : Newline(tail[i])}
      first == CHOOSE i \in ends : \A j \in ends : i <= j
  IN  IF Len(file) <= target THEN file
      ELSE IF ends # {} THEN SubSeq(tail, first + 1, target) ELSE tail

\* A failing WriteFile has truncated the file and written a part.
enforceLimit(file, max) ==
  LET tail == readLogTail(file, Target(max))
  IN  {Result(file, TRUE, TRUE)} \cup
      (IF Len(file) <= max THEN {Result(file, TRUE, FALSE)}
       ELSE {Result(tail, TRUE, FALSE)}
            \cup {Result(f, o, TRUE) : f \in {file, tail}, o \in BOOLEAN}
            \cup {Torn(SubSeq(tail, 1, n), o) :
                     n \in 0 .. (Len(tail) - 1), o \in BOOLEAN})

\* A trim that fails here leaves the writer with an open, oversized file.
ensureOpen(file, open, max) ==
  IF open THEN {Result(file, TRUE, FALSE)}
  ELSE {Result(file, FALSE, TRUE)} \cup enforceLimit(file, max)

\* Append and trim; a failure closes the file.  A failing write may have
\* written a part of the chunk.
append(file, chunk, max) ==
  {ClosedIfFailed(r) : r \in enforceLimit(file \o chunk, max)}
  \cup {Result(file \o SubSeq(chunk, 1, n), FALSE, TRUE) : n \in 0 .. (Len(chunk) - 1)}

Opened(path, open, max) == ensureOpen(log[path], open, max)

Trimmed(file, max) == {ClosedIfFailed(r) : r \in enforceLimit(file, max)}

\* Open, and if that worked append, or trim to a new limit.
Appended(path, open, max, chunk) ==
  UNION {IF r.err THEN {r} ELSE append(r.file, chunk, max) : r \in Opened(path, open, max)}
Fitted(path, open, max) ==
  UNION {IF r.err THEN {r} ELSE Trimmed(r.file, max) : r \in Opened(path, open, max)}

Settle(w, s, r) ==
  /\ r.err => logFaults < MaxLogFaults
  /\ logFaults' = IF r.err THEN logFaults + 1 ELSE logFaults
  /\ log' = [log EXCEPT ![s.path] = r.file]
  /\ torn' = IF r.torn THEN torn \cup {s.path} ELSE torn
  /\ dirty' = IF r.err THEN dirty \cup {w} ELSE dirty \ {w}
  /\ logWriter' = [logWriter EXCEPT ![w] = [st |-> logWriter[w].st, open |-> r.open, set |-> s]]

-----------------------------------------------------------------------------
\* startProcessLocked: the launch before was cleaned up.
NewWriter(w, s) ==
  /\ logWriter[w].st = "none"
  /\ \A v \in Launch : v < w => logWriter[v].st = "closed"
  /\ logWriter' = [logWriter EXCEPT ![w] = [st |-> "live", open |-> FALSE, set |-> s]]
  /\ UNCHANGED <<log, logged, torn, dirty, logFaults, updates>>

Saves(s) == s.save
LastOf(file, before) ==
  IF file # <<>> /\ file[Len(file)] > before THEN file[Len(file)] ELSE before

WriteTo(w, n) ==
  LET s     == logWriter[w].set
      chunk == Bytes(logged[s.path], logged[s.path] + n)
  IN  /\ logged[s.path] + n <= MaxLogBytes
      /\ \E r \in Appended(s.path, logWriter[w].open, s.max, chunk) :
           /\ Settle(w, s, r)
           /\ logged' = [logged EXCEPT ![s.path] = LastOf(r.file, logged[s.path])]
      /\ UNCHANGED updates

\* Mutant: closed is not looked at.
WriteClosed(w, n) == logWriter[w].st # "none" /\ Saves(logWriter[w].set) /\ WriteTo(w, n)

Write(w, n) == logWriter[w].st = "live" /\ Saves(logWriter[w].set) /\ WriteTo(w, n)

\* A file under another path, or one that is not to be kept, is closed first.
StaysOpen(w, s) == logWriter[w].open /\ logWriter[w].set.path = s.path

UpdateTo(w, s, results) ==
  /\ logWriter[w].st = "live" /\ updates < MaxUpdates /\ updates' = updates + 1
  /\ IF Saves(s) THEN \E r \in results : Settle(w, s, r)
                 ELSE Settle(w, s, Result(log[s.path], FALSE, FALSE))
  /\ UNCHANGED logged

\* Mutant: a file that is open already is not trimmed to a new limit.
UpdateOpens(w, s) == UpdateTo(w, s, Opened(s.path, StaysOpen(w, s), s.max))

\* ApplyLaunchProfile: the launch that runs takes new settings.
Update(w, s) == UpdateTo(w, s, Fitted(s.path, StaysOpen(w, s), s.max))

Close(w) ==
  /\ logWriter[w].st = "live"
  /\ logWriter' = [logWriter EXCEPT ![w] = [st |-> "closed", open |-> FALSE,
                                            set |-> logWriter[w].set]]
  /\ UNCHANGED <<log, logged, torn, dirty, logFaults, updates>>

LogNext ==
  \E w \in Launch :
    \/ \E s \in Settings : NewWriter(w, s) \/ Update(w, s)
    \/ \E n \in 1 .. MaxChunk : Write(w, n)
    \/ Close(w)

LogSpec == LogInit /\ [][LogNext]_logVars

-----------------------------------------------------------------------------
\* The file that a launch has open holds no more than its limit, whatever
\* failed before, as soon as an operation succeeds: after a write, after a
\* change of the path or the limit, and for a file that was too large before.
LogBounded ==
  \A w \in Launch : logWriter[w].open /\ w \notin dirty
    => Len(log[logWriter[w].set.path]) <= logWriter[w].set.max

\* Trimming keeps the end of the output and nothing else: the bytes of a file
\* follow one another up to the last that was written, there is one, and they
\* begin with a line unless what a limit keeps lies within one line.  (A file
\* is excepted when the WriteFile of a trim failed: the rest of it is lost.)
KeptIsRecent ==
  \A p \in LogPath \ torn :
    LET size == Len(log[p]) first == logged[p] - size
    IN  /\ log[p] = Bytes(first, logged[p])
        /\ logged[p] > 0 => size > 0
        /\ \/ Newline(first)
           \/ \E m \in LogLimit : \A i \in 1 .. (Target(m) - 1) : ~Newline(first + i)

\* A writer of a launch that was cleaned up never opens the file again, however
\* late output or a change of the profile reaches it: only the launch that runs
\* has the file open.
NoHandleAfterClose == \A w \in Launch : logWriter[w].open => logWriter[w].st = "live"

\* The log file stays within its limit, keeps the end of the output and is open
\* for the running launch only, whatever failed in between.
LogFileKept == LogBounded /\ KeptIsRecent /\ NoHandleAfterClose
=============================================================================
