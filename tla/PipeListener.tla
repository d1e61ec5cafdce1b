---------------------------- MODULE PipeListener ----------------------------
(***************************************************************************)
(* pipeListener of the named pipe: Accept and Close, which talk to one     *)
(* listenerRoutine over unbuffered channels.  For an Accept the routine    *)
(* makes a server pipe and waits for a client on it, while a goroutine of  *)
(* its own runs connectPipe; Close interrupts that.  That closing the file *)
(* ends a pending connectPipe is module PipeFile's concern.                *)
(***************************************************************************)
EXTENDS Naturals

CONSTANTS
  Acceptor,        \* goroutines that call Accept
  Stopper,         \* goroutines that call Close
  Nobody,
  Lost,            \* TRUE: connectPipe may also fail by itself while Close
                   \* interrupts it
  MaxAccepts       \* bound: calls of Accept

VARIABLES
  routine,         \* listenerRoutine: "select", "make", "connect", "abort"
                   \* (closeCh received, result awaited), "respond", "leave",
                   \* "done" (doneCh is closed)
  client,          \* the Accept being served
  pipe,            \* its server pipe: "none", "open", "closed"
  connect,         \* connectPipe: "none", "pending", or the result it sends
  answer,          \* the response for the Accept: "conn", "error", "closed"
  accept,          \* what each Accept does, or how it ended
  stop,            \* what each Close does: "idle", "send", "wait", "returned"
  accepts

listenerVars == <<routine, client, pipe, connect, answer, accept, stop, accepts>>

Ended == {"idle", "conn", "error", "closed"}

-----------------------------------------------------------------------------
(* Accept and Close.                                                       *)

AcceptCall(a) ==
  /\ accept[a] \in Ended /\ accepts < MaxAccepts /\ accepts' = accepts + 1
  /\ accept' = [accept EXCEPT ![a] = "offer"]
  /\ UNCHANGED <<routine, client, pipe, connect, answer, stop>>

\* Accept, once doneCh is closed.
AcceptDone(a) ==
  /\ accept[a] = "offer" /\ routine = "done"
  /\ accept' = [accept EXCEPT ![a] = "closed"]
  /\ UNCHANGED <<routine, client, pipe, connect, answer, stop, accepts>>

CloseCall(s) ==
  /\ stop[s] = "idle" /\ stop' = [stop EXCEPT ![s] = "send"]
  /\ UNCHANGED <<routine, client, pipe, connect, answer, accept, accepts>>

\* Close returns when doneCh is closed, whether or not it has sent.
CloseReturn(s) ==
  /\ stop[s] \in {"send", "wait"} /\ routine = "done"
  /\ stop' = [stop EXCEPT ![s] = "returned"]
  /\ UNCHANGED <<routine, client, pipe, connect, answer, accept, accepts>>

-----------------------------------------------------------------------------
(* listenerRoutine and makeConnectedServerPipe.                            *)

TakeClose(next) ==
  \E s \in Stopper :
    /\ stop[s] = "send" /\ stop' = [stop EXCEPT ![s] = "wait"]
    /\ routine' = next

SelectClose ==
  /\ routine = "select" /\ TakeClose("leave")
  /\ UNCHANGED <<client, pipe, connect, answer, accept, accepts>>

SelectAccept(a) ==
  /\ routine = "select" /\ accept[a] = "offer"
  /\ routine' = "make" /\ client' = a
  /\ accept' = [accept EXCEPT ![a] = "wait"]
  /\ UNCHANGED <<pipe, connect, answer, stop, accepts>>

\* makeServerPipe, and the goroutine that connects; or it fails.
MakePipe ==
  /\ routine = "make"
  /\ \/ /\ pipe' = "open" /\ connect' = "pending" /\ routine' = "connect"
        /\ UNCHANGED answer
     \/ /\ routine' = "respond" /\ answer' = "error" /\ UNCHANGED <<pipe, connect>>
  /\ UNCHANGED <<client, accept, stop, accepts>>

\* External: how connectPipe ends.  A client connects, one has connected and
\* gone already, or something else fails; a closed pipe ends it as closed.
Connects ==
  /\ connect = "pending"
  /\ \E r \in IF pipe = "open" THEN {"ok", "no data", "error"}
              ELSE {"closed", "ok"} \cup (IF Lost THEN {"no data", "error"} ELSE {}) :
       connect' = r
  /\ UNCHANGED <<routine, client, pipe, answer, accept, stop, accepts>>

\* Mutant: the pipe of a failed connection is kept.
ConnectedKept ==
  /\ routine = "connect" /\ connect \notin {"none", "pending"}
  /\ connect' = "none"
  /\ CASE connect = "ok" -> routine' = "respond" /\ answer' = "conn"
       [] connect = "no data" -> routine' = "make" /\ UNCHANGED answer
       [] OTHER -> routine' = "respond" /\ answer' = "error"
  /\ UNCHANGED <<client, pipe, accept, stop, accepts>>

\* The result of connectPipe; a client that is gone already is forgotten and
\* the next one awaited.  The pipe of a failed connection is closed.
Connected ==
  /\ routine = "connect" /\ connect \notin {"none", "pending"}
  /\ connect' = "none"
  /\ CASE connect = "ok" -> routine' = "respond" /\ answer' = "conn" /\ UNCHANGED pipe
       [] connect = "no data" -> routine' = "make" /\ pipe' = "closed" /\ UNCHANGED answer
       [] OTHER -> routine' = "respond" /\ answer' = "error" /\ pipe' = "closed"
  /\ UNCHANGED <<client, accept, stop, accepts>>

\* Close interrupts the wait: the pipe is closed, connectPipe awaited.  Its
\* result may be there already.
InterruptConnect ==
  /\ routine = "connect" /\ TakeClose("abort")
  /\ connect \in {"no data", "error"} => Lost
  /\ pipe' = "closed"
  /\ UNCHANGED <<client, connect, answer, accept, accepts>>

\* Mutant: a connection that came about meanwhile is not taken for closed.
AbortedUnlessConnected ==
  /\ routine = "abort" /\ connect \notin {"none", "pending"}
  /\ connect' = "none"
  /\ CASE connect = "closed" -> routine' = "respond" /\ answer' = "closed"
       [] connect = "no data" -> routine' = "make" /\ UNCHANGED answer
       [] OTHER -> routine' = "respond" /\ answer' = "error"
  /\ UNCHANGED <<client, pipe, accept, stop, accepts>>

\* What connectPipe returned then.  A connection that came about, or the
\* closed file, counts as closed; any other result does not.
Aborted ==
  /\ routine = "abort" /\ connect \notin {"none", "pending"}
  /\ connect' = "none"
  /\ CASE connect \in {"ok", "closed"} -> routine' = "respond" /\ answer' = "closed"
       [] connect = "no data" -> routine' = "make" /\ UNCHANGED answer
       [] OTHER -> routine' = "respond" /\ answer' = "error"
  /\ UNCHANGED <<client, pipe, accept, stop, accepts>>

\* The response is sent; only net.ErrClosed ends the routine.
Respond ==
  /\ routine = "respond"
  /\ accept' = [accept EXCEPT ![client] = answer]
  /\ routine' = IF answer = "closed" THEN "leave" ELSE "select"
  /\ client' = Nobody /\ pipe' = "none"
  /\ UNCHANGED <<connect, answer, stop, accepts>>

Leave ==
  /\ routine = "leave" /\ routine' = "done"
  /\ UNCHANGED <<client, pipe, connect, answer, accept, stop, accepts>>

-----------------------------------------------------------------------------
ListenerInit ==
  /\ routine = "select" /\ client = Nobody /\ pipe = "none" /\ connect = "none"
  /\ answer = "error" /\ accept = [a \in Acceptor |-> "idle"]
  /\ stop = [s \in Stopper |-> "idle"] /\ accepts = 0

RoutineStep ==
  \/ SelectClose \/ (\E a \in Acceptor : SelectAccept(a))
  \/ MakePipe \/ Connected \/ InterruptConnect \/ Aborted \/ Respond \/ Leave

ListenerNext ==
  \/ RoutineStep \/ Connects
  \/ \E a \in Acceptor : AcceptCall(a) \/ AcceptDone(a)
  \/ \E s \in Stopper : CloseCall(s) \/ CloseReturn(s)

ListenerSpec == ListenerInit /\ [][ListenerNext]_listenerVars

\* The routine and returning calls run when they can; a select whose Close is
\* ready again and again takes it in the end; closing a pipe ends connectPipe.
ListenerFairness ==
  /\ WF_listenerVars(RoutineStep)
  /\ SF_listenerVars(SelectClose) /\ SF_listenerVars(InterruptConnect)
  /\ WF_listenerVars(pipe = "closed" /\ Connects)
  /\ \A a \in Acceptor : WF_listenerVars(AcceptDone(a))
  /\ \A s \in Stopper : WF_listenerVars(CloseReturn(s))

-----------------------------------------------------------------------------
\* Every Close returns, and once one is called every Accept does, whatever the
\* listener is doing, whether or not a client ever connects, and however many
\* of them there are (Close, Accept, listenerRoutine).
CloseEndsAll ==
  /\ \A s \in Stopper : stop[s] = "send" ~> stop[s] = "returned"
  /\ \A a \in Acceptor :
       accept[a] \notin Ended /\ (\E s \in Stopper : stop[s] # "idle") ~> accept[a] \in Ended

\* No server pipe is lost: one that is not handed to an Accept is closed before
\* the next one is made, or the listener is done (makeConnectedServerPipe).
PipesAccounted ==
  pipe = "open" => routine = "connect" \/ (routine = "respond" /\ answer = "conn")

\* The listener can always be closed and never loses a pipe (namedpipe.go).
ListenerSound == []PipesAccounted /\ CloseEndsAll
=============================================================================
