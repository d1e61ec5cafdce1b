------------------------------ MODULE EventHub ------------------------------
(***************************************************************************)
(* coreEventHub, sysproxyEventHub and the WebSocket handlers that stream   *)
(* their events.  The hub numbers the events and offers each to every      *)
(* subscriber under its mutex; a full channel misses it.  A handler first  *)
(* registers its channel and copies the last event, and sends that copy to *)
(* its own channel after it has given the mutex up.  Each connection has a *)
(* second goroutine that reads frames and answers pings; both write under  *)
(* writeMu.  The context of a hijacked connection does not end before its  *)
(* handler does.                                                           *)
(***************************************************************************)
EXTENDS Naturals, Sequences, FiniteSets

CONSTANTS
  Client,         \* connections
  Buffer,         \* the capacity of a subscriber's channel
  EventKind,      \* "state", and "log" for lines of the core's output
  Bursts,         \* TRUE: events may fill a channel before the copy is sent
  MaxPublished,   \* bound: events
  MaxStalls       \* bound: pings, and times that a client stops reading

ASSUME HubAssumption ==
  /\ Buffer \in Nat \ {0} /\ EventKind \subseteq {"state", "log"}
  /\ Bursts \in BOOLEAN /\ MaxPublished \in Nat /\ MaxStalls \in Nat

VARIABLES
  nextSeq, last,   \* the hub; last = 0: there was no event yet
  members,         \* subscribers
  queue,           \* their channels: events with their numbers
  shutQueues,      \* channels that are closed
  handler, held,   \* where a handler is, and the event it holds
  reader,          \* the goroutine that reads frames
  writer,          \* who holds writeMu
  conn,            \* the connection, as the client treats it
  owed,            \* the event that a manager is about to publish
  got, missed,     \* history: what a client received, what its channel missed
  since, latest,   \* history: nextSeq at subscription, the latest state event
  panicked,        \* history: an event was sent to a closed channel
  stalls

historyVars == <<got, missed, since, latest, panicked>>
hubVars == <<nextSeq, last, members, queue, shutQueues, handler, held, reader,
             writer, conn, owed, historyVars, stalls>>

NoEvent == [n |-> 0, live |-> FALSE]
Live(n) == [n |-> n, live |-> TRUE]

HubInit ==
  /\ nextSeq = 0 /\ last = 0 /\ members = {} /\ shutQueues = {}
  /\ queue = [c \in Client |-> <<>>]
  /\ handler = [c \in Client |-> "off"] /\ held = [c \in Client |-> NoEvent]
  /\ reader = [c \in Client |-> "off"] /\ writer = [c \in Client |-> "nobody"]
  /\ conn = [c \in Client |-> "none"] /\ owed = "none"
  /\ got = [c \in Client |-> <<>>] /\ missed = [c \in Client |-> {}]
  /\ since = [c \in Client |-> 0] /\ latest = 0 /\ panicked = FALSE
  /\ stalls = 0

-----------------------------------------------------------------------------
(***************************************************************************)
(* The hub.                                                                *)
(***************************************************************************)
Owe(kind) ==
  /\ owed = "none" /\ nextSeq < MaxPublished /\ owed' = kind
  /\ UNCHANGED <<nextSeq, last, members, queue, shutQueues, handler, held,
                 reader, writer, conn, historyVars, stalls>>

Full(c) == Len(queue[c]) >= Buffer

\* A subscriber whose copy is still to be sent keeps room for it.
NoBurst ==
  Bursts \/ \A c \in members : handler[c] = "copied" => Len(queue[c]) + 1 < Buffer

Offered ==
  /\ nextSeq' = nextSeq + 1 /\ owed' = "none"
  /\ queue' = [c \in Client |-> IF c \in members /\ ~Full(c)
                                THEN Append(queue[c], Live(nextSeq')) ELSE queue[c]]
  /\ missed' = [c \in Client |-> IF c \in members /\ Full(c)
                                 THEN missed[c] \cup {nextSeq'} ELSE missed[c]]
  /\ latest' = IF owed = "state" THEN nextSeq' ELSE latest
  /\ panicked' = (panicked \/ members \cap shutQueues # {})

PublishIdle == UNCHANGED <<members, shutQueues, handler, held, reader, writer,
                           conn, got, since, stalls>>

\* Mutant: an event waits for room in every channel.
PublishWaits ==
  /\ owed # "none" /\ NoBurst /\ \A c \in members : ~Full(c)
  /\ Offered /\ last' = (IF owed = "log" THEN last ELSE nextSeq')
  /\ PublishIdle

\* Mutant: a line of output replaces the last state.
PublishKeepsAny ==
  /\ owed # "none" /\ NoBurst
  /\ Offered /\ last' = nextSeq'
  /\ PublishIdle

Publish ==
  /\ owed # "none" /\ NoBurst
  /\ Offered /\ last' = (IF owed = "log" THEN last ELSE nextSeq')
  /\ PublishIdle

-----------------------------------------------------------------------------
(***************************************************************************)
(* A handler.                                                              *)
(***************************************************************************)
Goes(c, where) == handler' = [handler EXCEPT ![c] = where]

Connect(c) ==
  /\ conn[c] = "none" /\ conn' = [conn EXCEPT ![c] = "up"] /\ Goes(c, "open")
  /\ UNCHANGED <<nextSeq, last, members, queue, shutQueues, held, reader,
                 writer, owed, historyVars, stalls>>

SubscribeIdle == UNCHANGED <<nextSeq, last, queue, shutQueues, reader, writer,
                             conn, owed, got, missed, latest, panicked, stalls>>

\* Mutant: the channel is registered when the copy has been sent.
SubscribeLate(c) ==
  /\ handler[c] = "open" /\ Goes(c, "copied")
  /\ held' = [held EXCEPT ![c] = [n |-> last, live |-> FALSE]]
  /\ since' = [since EXCEPT ![c] = nextSeq]
  /\ UNCHANGED members /\ SubscribeIdle

\* Without an event yet, the handler makes one up from the manager's state.
Subscribe(c) ==
  /\ handler[c] = "open" /\ Goes(c, "copied")
  /\ members' = members \cup {c}
  /\ held' = [held EXCEPT ![c] = [n |-> last, live |-> FALSE]]
  /\ since' = [since EXCEPT ![c] = nextSeq]
  /\ SubscribeIdle

\* Nobody reads the channel yet: the handler is its only reader.
SendCopy(c) ==
  /\ handler[c] = "copied" /\ ~Full(c) /\ Goes(c, "loop")
  /\ queue' = [queue EXCEPT ![c] = Append(@, held[c])]
  /\ held' = [held EXCEPT ![c] = NoEvent]
  /\ reader' = [reader EXCEPT ![c] = "read"]
  /\ UNCHANGED <<nextSeq, last, members, shutQueues, writer, conn, owed,
                 historyVars, stalls>>

LoopIdle == UNCHANGED <<nextSeq, last, members, shutQueues, reader, writer,
                        conn, owed, historyVars, stalls>>

Take(c) ==
  /\ handler[c] = "loop" /\ queue[c] # <<>> /\ Goes(c, "write")
  /\ held' = [held EXCEPT ![c] = Head(queue[c])]
  /\ queue' = [queue EXCEPT ![c] = Tail(@)]
  /\ LoopIdle

\* Mutant: a handler notices the end of its connection only when it writes.
NoticeLate(c) ==
  /\ handler[c] = "loop" /\ reader[c] = "done" /\ queue[c] # <<>>
  /\ Goes(c, "leave") /\ UNCHANGED <<held, queue>> /\ LoopIdle

Notice(c) ==
  /\ handler[c] = "loop" /\ reader[c] = "done" /\ Goes(c, "leave")
  /\ UNCHANGED <<held, queue>> /\ LoopIdle

Locks(c, who) ==
  /\ writer[c] = "nobody" /\ writer' = [writer EXCEPT ![c] = who]
  /\ UNCHANGED <<nextSeq, last, members, queue, shutQueues, handler, held,
                 reader, conn, owed, historyVars, stalls>>

WriteBegins(c) == handler[c] = "write" /\ Locks(c, "handler")

\* A frame is written when the client reads; the write fails when it is gone.
WriteEnds(c) ==
  /\ writer[c] = "handler" /\ writer' = [writer EXCEPT ![c] = "nobody"]
  /\ held' = [held EXCEPT ![c] = NoEvent]
  /\ \/ /\ conn[c] = "up" /\ Goes(c, "loop")
        /\ got' = [got EXCEPT ![c] = Append(@, held[c])]
     \/ conn[c] = "gone" /\ Goes(c, "leave") /\ UNCHANGED got
  /\ UNCHANGED <<nextSeq, last, members, queue, shutQueues, reader, conn, owed,
                 missed, since, latest, panicked, stalls>>

LeaveIdle == UNCHANGED <<nextSeq, last, queue, held, reader, writer, owed,
                         historyVars, stalls>>

\* Mutant: the channel is closed but stays registered.
UnsubscribeKeeps(c) ==
  /\ handler[c] = "leave" /\ Goes(c, "close")
  /\ shutQueues' = shutQueues \cup {c} /\ UNCHANGED <<members, conn>>
  /\ LeaveIdle

Unsubscribe(c) ==
  /\ handler[c] = "leave" /\ Goes(c, "close")
  /\ members' = members \ {c} /\ shutQueues' = shutQueues \cup {c}
  /\ UNCHANGED conn /\ LeaveIdle

CloseConn(c) ==
  /\ handler[c] = "close" /\ Goes(c, "ended")
  /\ conn' = [conn EXCEPT ![c] = "gone"]
  /\ UNCHANGED <<members, shutQueues>> /\ LeaveIdle

-----------------------------------------------------------------------------
(***************************************************************************)
(* The goroutine that reads frames, and the client.                        *)
(***************************************************************************)
Reads(c, next) ==
  /\ reader[c] = "read" /\ reader' = [reader EXCEPT ![c] = next]
  /\ UNCHANGED <<nextSeq, last, members, queue, shutQueues, handler, held,
                 writer, conn, owed, historyVars>>

ReadsPing(c) ==
  /\ conn[c] = "up" /\ stalls < MaxStalls /\ stalls' = stalls + 1
  /\ Reads(c, "pong")
ReadsClose(c) == conn[c] = "up" /\ Reads(c, "bye") /\ UNCHANGED stalls
ReadFails(c) == conn[c] = "gone" /\ Reads(c, "done") /\ UNCHANGED stalls

AnswerBegins(c) == reader[c] \in {"pong", "bye"} /\ Locks(c, "reader")

\* The outcome of an answer is ignored.
AnswerEnds(c) ==
  /\ writer[c] = "reader" /\ conn[c] \in {"up", "gone"}
  /\ writer' = [writer EXCEPT ![c] = "nobody"]
  /\ reader' = [reader EXCEPT ![c] = IF reader[c] = "pong" THEN "read" ELSE "done"]
  /\ UNCHANGED <<nextSeq, last, members, queue, shutQueues, handler, held,
                 conn, owed, historyVars, stalls>>

ClientTurns(c, from, to) ==
  /\ conn[c] = from /\ conn' = [conn EXCEPT ![c] = to]
  /\ UNCHANGED <<nextSeq, last, members, queue, shutQueues, handler, held,
                 reader, writer, owed, historyVars>>

Stalls(c) ==
  stalls < MaxStalls /\ stalls' = stalls + 1 /\ ClientTurns(c, "up", "stalled")
Resumes(c) == ClientTurns(c, "stalled", "up") /\ UNCHANGED stalls
Leaves(c) ==
  (ClientTurns(c, "up", "gone") \/ ClientTurns(c, "stalled", "gone"))
  /\ UNCHANGED stalls

HandlerStep(c) ==
  \/ Subscribe(c) \/ SendCopy(c) \/ Take(c) \/ Notice(c) \/ WriteBegins(c)
  \/ WriteEnds(c) \/ Unsubscribe(c) \/ CloseConn(c)
ReaderStep(c) == ReadFails(c) \/ AnswerBegins(c) \/ AnswerEnds(c)

HubNext ==
  \/ \E k \in EventKind : Owe(k)
  \/ Publish
  \/ \E c \in Client : \/ Connect(c) \/ HandlerStep(c) \/ ReaderStep(c)
                       \/ ReadsPing(c) \/ ReadsClose(c)
                       \/ Stalls(c) \/ Resumes(c) \/ Leaves(c)

HubSpec == HubInit /\ [][HubNext]_hubVars

\* Goroutines that can run do; nothing is assumed about the clients.
HubFairness ==
  /\ WF_hubVars(Publish)
  /\ \A c \in Client : /\ WF_hubVars(HandlerStep(c)) /\ WF_hubVars(ReaderStep(c))
                       /\ WF_hubVars(Notice(c))

-----------------------------------------------------------------------------
NumbersOf(way) == {way[i].n : i \in DOMAIN way}
LiveIn(way) == {i \in DOMAIN way : way[i].live}

\* While its stream is up, a subscriber is offered every event that is published
\* after the moment at which its first event was copied, once and in order: no
\* event falls between registering and copying, or is seen twice.  (The copy
\* itself may be sent after newer events.)
EveryEventOnce ==
  \A c \in {x \in Client : handler[x] \in {"copied", "loop", "write"}} :
    LET way == got[c] \o <<held[c]>> \o queue[c]
        offered == {way[i].n : i \in LiveIn(way)}
    IN  /\ \A i, j \in LiveIn(way) : i < j => way[i].n < way[j].n
        /\ offered \cap missed[c] = {}
        /\ offered \cup missed[c] = (since[c] + 1) .. nextSeq

\* Publishing never sends to a channel that unsubscribe has closed, which
\* would end the service.
NoSendOnClosed == ~panicked

\* A manager that publishes goes on, whatever its subscribers do: it may hold
\* its own mutex meanwhile.
PublishersGoOn == owed # "none" ~> owed = "none"

\* When a connection is gone, its handler and its reader end and the hub
\* forgets it.
StreamsEnd ==
  \A c \in Client :
    conn[c] = "gone" ~> handler[c] = "ended" /\ reader[c] = "done" /\ c \notin members

\* A client that goes on reading learns the latest state, be it from the copy,
\* unless its own channel was full; lines of output do not displace it.
LearnsState ==
  \A c \in Client :
    <>[](handler[c] \in {"loop", "write"} /\ conn[c] = "up" /\ latest # 0
           => latest \in NumbersOf(got[c]) \cup missed[c])

\* A stream offers each event once and in order, and a client that leaves while
\* one is published does no harm.
EventsDelivered == EveryEventOnce /\ NoSendOnClosed
=============================================================================
