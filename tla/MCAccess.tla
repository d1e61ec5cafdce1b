------------------------------- MODULE MCAccess -------------------------------
(* Instance of the modules that let a request in: the key managers, the    *)
(* authentication of requests, and the listener and the connections of the *)
(* named pipe.  They share no state; which one moves is chosen at first.   *)
EXTENDS KeyStore, RequestAuth, PipeFile, PipeListener

VARIABLE part

request(nonce, genuine, ts) ==
  [key |-> "k1", ts |-> ts, nonce |-> nonce, genuine |-> genuine, who |-> "owner"]
MCMessage == {request("n1", TRUE, 1), request("n1", FALSE, 1), request("n2", TRUE, 2)}

allVars == <<keyVars, requestVars, fileVarsAll, listenerVars, part>>

MCInit ==
  /\ KeyInit /\ RequestInit /\ FileInit /\ ListenerInit
  /\ part \in {"keys", "requests", "file", "listener"}
  /\ part # "keys" => legacy = Absent

MCNext ==
  /\ UNCHANGED part
  /\ \/ /\ part = "keys" /\ KeyNext
        /\ UNCHANGED <<requestVars, fileVarsAll, listenerVars>>
     \/ /\ part = "requests" /\ RequestNext
        /\ UNCHANGED <<keyVars, fileVarsAll, listenerVars>>
     \/ /\ part = "file" /\ FileNext
        /\ UNCHANGED <<keyVars, requestVars, listenerVars>>
     \/ /\ part = "listener" /\ ListenerNext
        /\ UNCHANGED <<keyVars, requestVars, fileVarsAll>>

\* Nothing that is fair is enabled in the parts that do not move.
MCSpec ==
  MCInit /\ [][MCNext]_allVars /\ FileFairness /\ ListenerFairness
=============================================================================
