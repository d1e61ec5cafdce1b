------------------------------- MODULE MCCore -------------------------------
(***************************************************************************)
(* Instance of the core manager, of what a launch does with the output of  *)
(* the core, and of the file that keeps it.  The three share no state;     *)
(* which one moves is chosen at first.  The callers of the manager are     *)
(* interchangeable.                                                        *)
(***************************************************************************)
EXTENDS CoreLifecycle, CoreOutput, LogWriter, TLC

VARIABLE part

\* A line for both rules and a fatal one that is never finished; and two streams
\* whose lines mix, one of them longer than the limit.
MCTexts == {[out |-> <<"e1", "e2", "d2", "nl", "f1", "f2">>, err |-> <<>>],
            [out |-> <<"x", "e2", "d2">>, err |-> <<"e1", "e2", "nl">>]}
MCPiece == {"e1", "e2", "d2", "f1", "f2", "x", "nl"}
MCFatal == <<"f1", "f2">>
MCEvents == <<<<"e1", "e2">>, <<"e2", "d2">>>>

CallerSymmetry == Permutations(Caller)

MCInit ==
  /\ Init /\ OutputInit /\ LogInit
  /\ part \in {"manager", "output", "log"}
  /\ part # "output" => text = CHOOSE t \in MCTexts : TRUE

MCNext ==
  /\ UNCHANGED part
  /\ \/ part = "manager" /\ Next /\ UNCHANGED <<outputVars, logVars>>
     \/ part = "output" /\ OutputNext /\ UNCHANGED <<vars, logVars>>
     \/ part = "log" /\ LogNext /\ UNCHANGED <<vars, outputVars>>

MCSpec == MCInit /\ [][MCNext]_<<vars, outputVars, logVars, part>>
=============================================================================
